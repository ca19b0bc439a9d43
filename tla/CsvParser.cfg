SPECIFICATION Spec
CONSTANTS
  Jobs <- MCJobs
  Utf8 <- MCUtf8
  Spaces <- MCSpaces
  CR = "cr"
  LF = "lf"
  ProgressRows = 2
INVARIANTS TypeOK RowsAsWritten ResultIsTrue
PROPERTY Terminates
CHECK_DEADLOCK FALSE
