CONSTANTS
  t1 = t1
  t2 = t2
  t3 = t3
  b1 = b1
  b2 = b2
  Task = {t1, t2}
  Beat = {b1, b2}
  Role <- MCRole
  AssignedRole <- MCAssignedRole
  RoleOf <- MCRoleOf
  Deps <- MCDeps
  NoBeat = NoBeat
  NoTask = NoTask
  Faults = FALSE
  MaxCrashes = 0
SPECIFICATION Spec
INVARIANTS
  OfferedIsFree
  OneWorkerPerTask
  BeliefIsTrue
PROPERTY WorkingClaimsRespected
CONSTRAINT SomeTaskInOrder
SYMMETRY BeatSymmetry
CHECK_DEADLOCK FALSE
