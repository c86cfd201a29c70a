SPECIFICATION Spec
CONSTANTS
    room = room
    office = office
    Conversations = {room, office}
    Management = {office}
    ConvOf <- MCConvOf
    N = 1
    Operators = {}
    MaxCrashes = 1
    MaxHolds = 0
INVARIANT ParkedStaysParked
