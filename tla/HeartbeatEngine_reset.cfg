CONSTANTS
  a1 = a1
  a2 = a2
  a3 = a3
  c1 = c1
  c2 = c2
  Agent = {a1, a3}
  Company = {c1, c2}
  CompanyOf <- MCCompanyOf
  PauseRoles = {}
  Beat = {b1, b2, b3}
  NoBeat = NoBeat
  NoAgent = NoAgent
  Tick = {k1}
  MaxGlobal = 3
  MaxPerCompany = 2
  MaxQueue = 1
  MaxResets = 1
SPECIFICATION Spec
INVARIANTS
  TypeOK
  CapacityHolds
  NoSlotLeaks
  LocksHaveBeats
  QueueHasDrainer
SYMMETRY BeatSymmetry
