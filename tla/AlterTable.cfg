\* Every combination of a name and of changes, with as many attempts as the
\* user likes; every statement may fail.  The dialog closes in the end.
SPECIFICATION Spec
CONSTANTS
    Names = {"old", "new", "moved"}
    Changes = {"add", "column", "rest"}
INVARIANTS
    TypeOK
    FailureRestores
    SuccessIsWhole
    RejectRestores
CHECK_DEADLOCK FALSE
