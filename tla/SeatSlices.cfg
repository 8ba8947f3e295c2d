\* A bulk write between whose jobs the operator may switch documents.
CONSTANTS
  Docs = {a, b}
  Calls = {c1}
  Kinds = {"write", "look"}
  Slices = 2
  Disturbed = TRUE
  Apart = FALSE
  Cancellable = {}
  Overrunning = {}
  MaxCalls = 3
  MaxEdits = 0
  MaxClicks = 2
  None = None
SPECIFICATION Spec
SYMMETRY Symmetry
INVARIANTS RevisionNamesContent
CHECK_DEADLOCK FALSE
