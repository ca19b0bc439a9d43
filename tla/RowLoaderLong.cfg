SPECIFICATION FairSpec
CONSTANTS
    Rows <- LongQuery
    Broken = {}
    ChunkSize = 4
    RowsLimit = 100
    MaxSignals = 1
    Interrupts = FALSE
PROPERTIES
    CompleteLoadsAll
    CompleteEnds
    InitialLoadEnds
