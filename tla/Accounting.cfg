CONSTANTS
    MaxSlot = 3
    Wrap = 16
    Scenes <- MCScenes
    LowWaterMark = 50
SPECIFICATION Spec
INVARIANT AccountsExact
PROPERTIES LimitHolds OnlyCounted RunsEnd
CHECK_DEADLOCK FALSE
