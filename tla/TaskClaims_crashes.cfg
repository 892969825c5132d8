CONSTANTS
  t1 = t1
  t2 = t2
  t3 = t3
  b1 = b1
  b2 = b2
  Task = {t1}
  Beat = {b1, b2}
  Role <- MCRole
  AssignedRole <- MCAssignedRole
  RoleOf <- MCRoleOf
  Deps <- MCNoDeps
  NoBeat = NoBeat
  NoTask = NoTask
  Faults = TRUE
  MaxCrashes = 2
SPECIFICATION Spec
INVARIANTS
  TypeOK
  ClaimsAnsweredFor
  BlockedIsReclaimable
PROPERTY ClaimsAreALock
SYMMETRY BeatSymmetry
CHECK_DEADLOCK FALSE
