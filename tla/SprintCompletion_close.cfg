CONSTANTS
    k1 = k1
    k2 = k2
    s1 = s1
    s2 = s2
    s3 = s3
    t1 = t1
    t2 = t2
    t3 = t3
    t4 = t4
    t5 = t5
    Companies = {k1, k2}
    NoCompany = NoCompany
    Sprints = {s1, s3}
    NoSprint = NoSprint
    CompanyOf <- MCCompanyOf
    Tasks = {t1, t4}
    SprintOf <- MCSprintOf
    Deps <- MCDeps
    Added = {}
    Gate = gate
    Routes = {}
    Deletable = {s1}
    MaxFaults = 1
    MaxCrashes = 1
    MaxStale = 0
SPECIFICATION FairSpec
PROPERTY DoneSprintsClose
CONSTRAINT NoRevival
CHECK_DEADLOCK FALSE
