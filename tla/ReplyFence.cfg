SPECIFICATION AllSpec
CONSTANTS
    plain = plain
    held = held
    claimed = claimed
    near = near
    far = far
    Requests = {plain, held, claimed}
    Managed = {held}
    Claimed = {claimed}
    Tearable = {plain, held, claimed}
    Channels = {near}
    ChannelOf <- MCChannelOf
    MaxCrashes = 2
    NoRequest = NoRequest
    NoChannel = NoChannel
    room = room
    office = office
    Conversations = {room, office}
    Management = {office}
    ConvOf <- MCConvOf
    N = 2
    Operators = {}
    MaxEnds = 2
    MaxHolds = 1
INVARIANT Inv CopiesAreFenced ToldIsTrue
PROPERTY AnswerIsFinal KeepsPromise EveryReplyEnds MessagesEnd
