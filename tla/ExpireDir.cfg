CONSTANTS
    MaxSlot = 4
    Wrap = 16
    Sizes = {1, 3}
    MaxSizes = {0, 3, 5}
    MaxLives = {0, 2, 4}
    LowWaters = {0, 50, 100}
SPECIFICATION Spec
INVARIANTS KeepsExactly RecordExact
CHECK_DEADLOCK FALSE
