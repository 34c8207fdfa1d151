SPECIFICATION Spec
CONSTANTS
    general = general
    a = a
    b = b
    c = c
    Rooms = {general, a, b, c}
    InitialRooms <- MCInitialRooms
    Permanent = {general}
    MaxHandled = 4
    NoRoom = NoRoom
    NoHandler = NoHandler
SYMMETRY Interchangeable
CHECK_DEADLOCK FALSE
INVARIANTS
    PagesFollowPositions
PROPERTIES
    SentToRoomOnScreen
