SPECIFICATION Spec
CONSTANTS
    Values = {a, b}
    MaxPos = 4
    MaxSize = 4
CONSTRAINT Small
INVARIANTS
    WellFormed
    AnswersExact
PROPERTY
    ImplementsSparseVector
