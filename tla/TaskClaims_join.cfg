CONSTANTS
  t1 = t1
  t2 = t2
  t3 = t3
  b1 = b1
  b2 = b2
  Task = {t1, t2, t3}
  Beat = {b1, b2}
  Role <- MCTeam
  AssignedRole <- MCTeamAssigned
  RoleOf <- MCTeamRoleOf
  Deps <- MCJoin
  NoBeat = NoBeat
  NoTask = NoTask
  Faults = TRUE
  MaxCrashes = 0
SPECIFICATION Spec
INVARIANT DependentsPromoted
CONSTRAINT JoinInOrder
SYMMETRY TeamSymmetry
CHECK_DEADLOCK FALSE
