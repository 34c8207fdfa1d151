SPECIFICATION FairSpec
CONSTANTS
    c1 = c1
    c2 = c2
    Conns = {c1, c2}
    MaxSent <- MCMaxSent
    MaxReads = 3
    MaxFds = 3
    None = None
CHECK_DEADLOCK FALSE
INVARIANTS
    TailHasFollower
    
PROPERTIES
    ImplementsChannel
    RequestIsRun
