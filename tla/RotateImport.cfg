CONSTANTS
    MaxFiles = 2
    Runs = {1, 2}
    MaxFaults = 2
    MayExpire = TRUE
SPECIFICATION Spec
INVARIANTS OneImporter StoredBeforeMove PostedOnce
PROPERTY EveryFileMoved
