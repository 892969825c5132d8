CONSTANTS
  t1 = t1
  t2 = t2
  t3 = t3
  b1 = b1
  b2 = b2
  Task = {t1, t2}
  Beat = {b1}
  Role <- MCRole
  AssignedRole <- MCAssignedRole
  RoleOf <- MCRoleOf
  Deps <- MCDeps
  NoBeat = NoBeat
  NoTask = NoTask
  Faults = TRUE
  MaxCrashes = 2
SPECIFICATION FairSpec
PROPERTIES ReadyGetsOffered AbandonedClaimsReturn
CHECK_DEADLOCK FALSE
