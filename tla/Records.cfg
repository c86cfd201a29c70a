SPECIFICATION BothSpec
CONSTANTS
    Sop <- MCSop
    Initial <- MCInitial
    Places <- MCPlaces
    Tools = {"carbon-send", "ledger"}
    Senders = {"carbon-send"}
    Causes <- MCCauses
    MaxClaims = 2
    MaxDeaths = 1
    MaxKills = 1
    Runtimes = {"one", "two", "three"}
    MaxReleases = 2
    MaxRuntimeDeaths = 1
    MaxStops = 1
INVARIANT GateHolds TurnIsCurrent
PROPERTY WaitingIsServed
CHECK_DEADLOCK FALSE
