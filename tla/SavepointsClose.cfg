SPECIFICATION Spec
CONSTANTS
    Dialogs = {d1}
    MaxWrites = 3
    MaxDepth = 5
    MaxStatements = 2
PROPERTIES
    SavingCloseKeeps
