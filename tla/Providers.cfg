SPECIFICATION AllSpec
CONSTANTS
    chat = chat
    other = other
    unreadable = unreadable
    Conversations = {chat, unreadable}
    Feeds <- OneChat
    N = 2
    MaxKills = 1
    Members = {1, 2, 3, 4}
    Unsaid <- MCUnsaid
    Said <- MCSaid
    Real <- MCReal
    Limit = 2
    DOWNLOAD_CHAINS = 2
    SPECULATIVE_MEMBERS = 3
    SPECULATIVE_CHAINS = 2
    Mails <- MCMails
    ConvOf <- MCConvOf
    Corrects <- MCCorrects
    Unreadable = {"broken"}
    NoMail = "none"
    Page = 2
    Flagged = {"better"}
    MaxMishaps = 1
INVARIANT DownloadsAreBounded
PROPERTY EachArrives
CHECK_DEADLOCK FALSE
