SPECIFICATION Spec
CONSTANTS
    Dialogs = {d1}
    MaxWrites = 2
    MaxDepth = 4
    MaxStatements = 2
INVARIANTS
    TypeOK
    ListMirrorsStack
    CleanMeansSaved
    FileHoldsOnlySaved
PROPERTIES
    RejectRestoresOpened
    ReadingLeavesClean
