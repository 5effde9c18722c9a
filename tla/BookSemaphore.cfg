CONSTANTS
    Clearers = {"launcher"}
    MaxCycles = 3
    MaxCrashes = 1
    Interrupts = TRUE
SPECIFICATION Spec
INVARIANT Exclusive
PROPERTIES Implements ClearEnds
