SPECIFICATION FairSpec
CONSTANTS
    Rows <- TwoQueries
    Broken = {}
    ChunkSize = 4
    RowsLimit = 100
    MaxSignals = 1
    Interrupts = FALSE
PROPERTIES
    InitialLoadEnds
CHECK_DEADLOCK FALSE
