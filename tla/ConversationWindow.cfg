SPECIFICATION AllSpec
CONSTANTS
    Managed = {"m", "n"}
    Elsewhere = {"w"}
    Texts = {"s", "t"}
    MaxActive = 2
    MaxSecond = 1
    MaxCalls = 3
    MaxMishaps = 1
    Actors = {"ann", "bob"}
    Posts = {"m", "n"}
    Uploads = {"f"}
    Limit = 1
    MaxSeq = 4
    MaxDeaths = 1
    Pictures = {"picture"}
    Album = {"album"}
    Edits = {"edit", "again"}
    Original = "picture"
    Words = {"word", "yes"}
    Alike = {"yes"}
    Parts <- MCParts
    Cases <- MCCases
    Retained = 3
    LastSecond = 2
    Mails <- MCMails
    ConvOf <- MCConvOf
    Corrects <- MCCorrects
    Unreadable = {"broken"}
    PageSize = 2
    Flagged = {"better"}
    MaxFailures = 1
    Items <- MCItems
    MessageOf <- MCMessageOf
    ConversationOf <- MCConversationOf
    Tracked = 2
    MaxEnds = 1
    Units = {"u", "v"}
    Required <- MCRequired
    MaxThreads = 3
    MaxTurns = 3
    MaxChanges = 2
    MaxKills = 2
    MaxSignals = 5
INVARIANT WindowSurvives
CHECK_DEADLOCK FALSE
