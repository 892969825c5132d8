CONSTANTS
    k1 = k1
    k2 = k2
    s1 = s1
    s2 = s2
    s3 = s3
    t1 = t1
    t2 = t2
    t3 = t3
    t4 = t4
    t5 = t5
    Companies = {k1}
    NoCompany = NoCompany
    Sprints = {s1, s2}
    NoSprint = NoSprint
    CompanyOf <- MCCompanyOf
    Tasks = {t1, t3, t5}
    SprintOf <- MCSprintOf
    Deps <- MCDeps
    Added = {t5}
    Gate = gate
    Routes = {r1}
    Deletable = {s1}
    MaxFaults = 0
    MaxCrashes = 0
    MaxStale = 1
SPECIFICATION Spec
INVARIANTS ActiveIsCurrent CompletedOnce TagIsOwn CompletedIsDone
PROPERTIES SprintsTakeTurns
CONSTRAINT OneExemption
CHECK_DEADLOCK FALSE
