SPECIFICATION Spec
CONSTANTS
  MaxRows = 4
  Contents = {1, 2}
  Default = 1
  HalfChunk = 1
INVARIANTS TypeOK ShowsTable
PROPERTY DeletesSelection
CHECK_DEADLOCK FALSE
