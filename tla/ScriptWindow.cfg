SPECIFICATION Spec
CONSTANTS
  Kinds = {"empty", "rows", "write", "pragma", "invalid"}
  MaxLength = 3
INVARIANTS TypeOK ShownBeforeNext OnlyAskedFor
PROPERTIES StoppedPreparesNothing StopEnds ScriptEnds
CHECK_DEADLOCK FALSE
