\* Three calls, two of them at once, on two files that a foreign program may rewrite
\* and that never record one document.
CONSTANTS
  p1 = p1  p2 = p2  f1 = f1
  Paths = {p1, p2}
  Foreign = {f1}
  MaxCalls = 3
  MaxSaved = 0
  InFlight = 2
  Unnamed = {"close", "activate"}
  Apart = TRUE
  Copies = FALSE
  Untitled = Untitled
  None = None
SPECIFICATION Spec
SYMMETRY Symmetry
INVARIANTS TypeOK RevisionNamesContent NeverBehind
PROPERTIES LossIsReported
CHECK_DEADLOCK FALSE
