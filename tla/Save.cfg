\* Two writes of two servers, alive together, and of other programs; hard links.
CONSTANTS
  MaxWrites = 2
  MaxStarts = 4
  Together = TRUE
  Links = {TRUE, FALSE}
  Mishaps = {}
  None = None
SPECIFICATION Spec
INVARIANTS TypeOK TargetWhole StartRepairs LiveMarkersStay
PROPERTIES RecoveryKeeps
CHECK_DEADLOCK FALSE
