CONSTANTS
  r1 = r1
  r2 = r2
  r3 = r3
  r4 = r4
  Request = {r1, r2, r3, r4}
  NoRequest = NoRequest
  Hash = {"h1", "h2"}
  BodyHash <- MCBodyHash
  Faults = TRUE
  MaxCrashes = 1
SPECIFICATION Spec
INVARIANTS
  TypeOK
  AtMostOnce
  ReplaysAreTrue
PROPERTIES
  StoredRepliesStay
  CallTakesEffectOnce
CHECK_DEADLOCK FALSE
