\* Batches of one or two steps in any mode, sent twice, and an edit of another client.
CONSTANTS
  Requests = {"auto", "rollback", "stop", "continue"}
  Ops = {"edit", "begin", "commit", "undo"}
  MaxSteps = 2
  MaxRuns = 2
  MaxOthers = 1
  MaxStack = 4
  MayCancel = TRUE
  Progress = FALSE
  None = None
SPECIFICATION Spec
INVARIANTS TypeOK AllOrNothing NoCheckpointLeft CommittedIsThere
PROPERTIES BatchEnds
CHECK_DEADLOCK FALSE
