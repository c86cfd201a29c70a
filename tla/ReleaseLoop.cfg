SPECIFICATION Spec
CONSTANTS
    room = room
    office = office
    Conversations = {room, office}
    Management = {office}
    ConvOf <- MCConvOf
    N = 4
    Operators = {4}
    MaxCrashes = 1
    MaxHolds = 1
INVARIANT WrittenBeforeTurn SpokenIsRecorded ClosedIsExplained
PROPERTY ReleasesWithReason
