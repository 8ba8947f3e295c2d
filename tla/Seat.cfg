\* Two calls in flight of each other and of the operator, two documents; previews overrun.
CONSTANTS
  Docs = {a, b}
  Calls = {c1, c2}
  Kinds = {"write", "choose", "look", "detail", "preview", "check"}
  Slices = 2
  Disturbed = FALSE
  Apart = TRUE
  Cancellable = {"write", "choose", "detail"}
  Overrunning = {"preview"}
  MaxCalls = 3
  MaxEdits = 1
  MaxClicks = 1
  None = None
SPECIFICATION Spec
SYMMETRY Symmetry
INVARIANTS TypeOK RevisionNamesContent PassedCheckHolds ReusedHoldsOurWrites
CHECK_DEADLOCK FALSE
