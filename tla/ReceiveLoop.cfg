CONSTANTS
    NSources = 2
    Networks <- MCNetworks
    Twin = 1
    Overdue = 1
    BufferSize = 1
    MaxFaults = 1
    MaxClock = 4
SPECIFICATION Spec
INVARIANTS OneOwnPlace InOwnSlot SlotsComplete
PROPERTY SlotEnds
CHECK_DEADLOCK FALSE
