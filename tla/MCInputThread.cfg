SPECIFICATION FairSpec
CONSTANTS
    Writers = {loop, thread}
    MaxConns = 4
    MaxMessages = 2
    MaxTries = 2
    None = None
CHECK_DEADLOCK FALSE
INVARIANTS
    DeafOnlyAfterCut
PROPERTIES
    ImplementsChannel
    
