SPECIFICATION Spec
CONSTANTS
    Rows <- ThreeQueries
    Broken = {2}
    ChunkSize = 4
    RowsLimit = 4
    MaxSignals = 2
    Interrupts = TRUE
INVARIANTS
    TypeOK
    CountIsTotal
    TasksHoldDb
    CacheIsOfQuery
CHECK_DEADLOCK FALSE
