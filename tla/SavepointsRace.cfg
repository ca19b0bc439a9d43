SPECIFICATION Spec
CONSTANTS
    MaxDepth = 3
    MaxStatements = 2
CHECK_DEADLOCK FALSE
INVARIANTS
    ApartIsSafe
PROPERTIES
    LoopsEnd
