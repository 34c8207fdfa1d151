SPECIFICATION FairSpec
CONSTANTS
    Rooms = {general, direct}
    MaxRecordings = 2
    MaxFaults = 2
    None = None
    Garbage = Garbage
CHECK_DEADLOCK FALSE
INVARIANTS
    ButtonIsReady
    OwnFileIsSent
    
PROPERTIES
    RecordingIsSent
