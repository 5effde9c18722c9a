CONSTANTS
    Hash <- MCHash
    IndexMask = 3
    MaxRouters = 2
    Records <- MCRecords
    Confs <- MCConfs
    Low <- MCLow
    Known <- MCKnown
    MaxRecords = 4
SPECIFICATION Spec
INVARIANTS OneEntryPerFlow Accounted ClientFirst RowsComplete
CHECK_DEADLOCK FALSE
