CONSTANTS
    MaxCycles = 3
    Process = TRUE
    Expire = TRUE
    CmdTooLong = FALSE
    MayStop = TRUE
SPECIFICATION LSpec
INVARIANTS HupRemembered CommandOnce
PROPERTIES CatchesUp ShutdownEnds
CHECK_DEADLOCK FALSE
