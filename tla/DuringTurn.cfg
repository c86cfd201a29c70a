SPECIFICATION AllSpec
CONSTANTS
    a = a
    b = b
    c = c
    Inputs = {a, b, c}
    Messages = {b, c}
    Room <- MCRoom
    MaxMishaps = 2
    Items <- MCItems
    MessageOf <- MCMessageOf
    ConversationOf <- MCConversationOf
    Tracked = 2
    MaxEnds = 1
INVARIANT InputsAreHeard
PROPERTY TurnsSettle
CHECK_DEADLOCK FALSE
