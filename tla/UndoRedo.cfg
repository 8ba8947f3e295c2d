\* One and two in-memory steps: undo and redo across the border to the store.
CONSTANTS
  MaxRev = 7
  MaxEdits = 2
  MaxRows = 4
  MaxBegins = 1
  Keep = 2
  Depths = {1, 2}
  Forms = {1}
  Ops = {"undo", "redo", "label", "save"}
  Mishaps = {"load", "no_row"}
  None = None
SPECIFICATION Spec
PROPERTY RedoRetraces
CHECK_DEADLOCK FALSE
