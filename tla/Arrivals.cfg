SPECIFICATION AllSpec
CONSTANTS
    chat = chat
    other = other
    unreadable = unreadable
    Conversations = {chat, other, unreadable}
    Feeds <- MCFeeds
    N = 3
    MaxKills = 1
    Ids = {"a", "b"}
    Late = {"b"}
    Arriving = {"b"}
    Pictures = {"b"}
    Corrections = {"edit", "flag"}
    Names <- MCNames
    MaxRuns = 3
    MaxMishaps = 1
    Batch = 1
    NoTime <- MCNoTime
    NoId <- MCNoId
    Lines <- MCLines
    Before <- MCBefore
    Ledger = {7}
    Tolerance = 1
    MaxTries = 3
    MaxCuts = 1
INVARIANT PassedIsKept CursorBehindRecords PastIsPast JoinKeepsAll
PROPERTY HandedOnceWhole EditsAreBeside ImportsOnlyAdd
CHECK_DEADLOCK FALSE
