SPECIFICATION FairSpec
CONSTANTS
    Accounts = {a, b}
    SignedOut = nobody
    MaxSwitches = 1
    MaxUses = 1
    MaxTurns = 1
    MaxFaults = 1
    MaxInAll = 4
INVARIANT RecordIsTrue
PROPERTY ComesToRest
CHECK_DEADLOCK FALSE
