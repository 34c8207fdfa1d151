SPECIFICATION FairSpec
CONSTANTS
    image = image
    file = file
    Files = {image, file}
    Images = {image}
    Missing = {file}
    Length <- MCLength
    MaxRequests = 3
    MaxFaults = 1
    NoFile = NoFile
CHECK_DEADLOCK FALSE
INVARIANTS
    SavedIsWhole
    OnlyRacesKill
    EntriesAreAwaited

    
