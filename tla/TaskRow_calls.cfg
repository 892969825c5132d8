CONSTANTS
    new = new
    check = check
    claim = claim
    done = done
    block = block
    plan = plan
    Calls = {new, check, claim, done, block, plan}
    Kind <- MCKind
    AtOnce = 3
    NoCall = NoCall
    Faults = TRUE
CONSTRAINT SomeCalls
SPECIFICATION FairSpec
INVARIANTS TypeOK UpdatesStick ClaimsStick
PROPERTIES CallsReturn UpdatesSerialise
CHECK_DEADLOCK FALSE
