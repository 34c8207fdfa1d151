\* Creating, searching, joining and leaving rooms, direct rooms asked for from both
\* sides, log-outs, and talking in all of them.
CONSTANTS
    a = a
    b = b
    t = t
    u = u
    Clients = {a, b}
    Texts = {t}
    Recent = 1
    Batch = 1
    Uses = {"MSG", "JOIN", "LEAVE", "CREATE", "DIRECT", "LOGOUT", "LOAD_MORE",
            "DELETE"}
    MaxRooms = 4
    MaxMessages = 2
    MaxRequests = 4
    InitialRooms <- MCGeneralAndPublic
    InitialRows <- MCAllInGeneral
    InitialHistory <- MCNoMessages
    NoUser = NoUser
    NoEdit = NoEdit
SPECIFICATION Spec
INVARIANTS
    TypeOK
    DirectRoomsUnique
    NoUnknownRoom
    CaughtUpClientsAgree
    
CHECK_DEADLOCK FALSE
