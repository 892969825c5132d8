CONSTANTS
  a1 = a1
  a2 = a2
  a3 = a3
  c1 = c1
  c2 = c2
  Agent = {a1, a2}
  Company = {c1}
  CompanyOf <- MCCompanyOf
  PauseRoles = {}
  Beat = {b1, b2}
  NoBeat = NoBeat
  NoAgent = NoAgent
  Tick = {k1}
  MaxGlobal = 1
  MaxPerCompany = 1
  MaxQueue = 1
  MaxResets = 0
SPECIFICATION FairSpec
PROPERTY WorkGetsABeat
