CONSTANTS
    MaxSlot = 3
    Wrap = 16
    Scenes <- ParallelScenes
    LowWaterMark = 50
SPECIFICATION Spec
INVARIANTS ParallelExact
CHECK_DEADLOCK FALSE
