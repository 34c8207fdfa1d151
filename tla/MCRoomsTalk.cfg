\* Messages, edits, deletions and older history in one room.
CONSTANTS
    a = a
    b = b
    t = t
    u = u
    Clients = {a, b}
    Texts = {t, u}
    Recent = 1
    Batch = 1
    Uses = {"MSG", "EDIT", "DELETE", "LOAD_MORE"}
    MaxRooms = 1
    MaxMessages = 3
    MaxRequests = 4
    InitialRooms <- MCGeneral
    InitialRows <- MCAllInGeneral
    InitialHistory <- MCTwoMessages
    NoUser = NoUser
    NoEdit = NoEdit
SPECIFICATION Spec
INVARIANTS
    CaughtUpClientsAgree
    ShownInOrder
CHECK_DEADLOCK FALSE
