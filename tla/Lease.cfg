\* Three calls of any kind over two open documents; an exit ends before its deadline.
CONSTANTS
  MaxCalls = 3
  doc1 = doc1  doc2 = doc2
  Opened = {doc1, doc2}
  ExitsOverrun = FALSE
  None = None
SPECIFICATION Spec
INVARIANTS TypeOK OneWorkerPerDrawing Fenced RunsWhereRecorded
PROPERTIES QueuedIsAnswered
CHECK_DEADLOCK FALSE
