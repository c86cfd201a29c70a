SPECIFICATION AllSpec
CONSTANTS
    K = 2
    Browser = {2}
    Threshold = 2
    N = 3
    LoopOf <- MCLoopOf
    UnitOf <- MCUnitOf
    MaxEvents = 3
    Processes = {p, q}
    ByHand = {q}
    Channels = 2
    Servers = {s1, s2}
    Units = 2
    Window = 3
    MaxTrouble = 2
INVARIANT HoldOutlivesProcess AsleepOwesNothing OneHolder
PROPERTY  SessionTellsAll RunsAgain
CHECK_DEADLOCK FALSE
