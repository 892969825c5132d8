CONSTANTS
    b1 = b1
    b2 = b2
    c1 = c1
    c2 = c2
    ann = ann
    k1 = k1
    k2 = k2
    Companies = {k1, k2}
    CompanyOf <- MCCompanyOf
    MaxResets = 1
    NoOne = NoOne
    Beats = {b1, b2}
    Calls = {c1, c2}
    Agents = {ann}
    AgentOf <- MCAgentOf
    MaxSessions = 3
    ResumeLimit = 1
    RetryLimit = 2
    Faults = TRUE
SPECIFICATION Spec
INVARIANTS TypeOK WaitersAreHeard SessionHeldOnce SkipImpliesNudge WaitingBeatsAreKnown BeatsKeepEntries
PROPERTIES PromptsSettle
CONSTRAINT OneKind
CHECK_DEADLOCK FALSE
