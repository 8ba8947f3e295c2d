\* The default mode, a batch of edits, cancelled and sent again with the same id.
CONSTANTS
  Requests = {"auto"}
  Ops = {"edit"}
  MaxSteps = 2
  MaxRuns = 2
  MaxOthers = 0
  MaxStack = 4
  MayCancel = TRUE
  Progress = FALSE
  None = None
SPECIFICATION Spec
INVARIANT RunsOnce
CHECK_DEADLOCK FALSE
