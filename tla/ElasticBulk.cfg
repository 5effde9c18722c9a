CONSTANTS
    NumDocs = 5
    MaxThreads = 2
    DocSizes = {1, 2}
    MaxBulkSize = 2
SPECIFICATION BulkSpec
INVARIANTS BufferOwned OnePlace
PROPERTIES Implements Terminates
CHECK_DEADLOCK FALSE
