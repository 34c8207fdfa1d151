SPECIFICATION Spec
CONSTANTS
    Clients = {c1, c2}
    Files <- MCFiles
    Quoted = {"b'"}
    MaxSize = 2
    MaxUploads = 3
    MaxSeconds = 2
    MaxBreaks = 1
    NoFile = NoFile
SYMMETRY Interchangeable
CHECK_DEADLOCK FALSE
INVARIANTS
    AnnouncedIsWhole
    EndedIsAnnounced
    AnnouncedHasItsSize
    EntriesAreAwaited
