\* The default EZDXF_UNDO_DEPTH: restores, transactions, eviction, kills that lose revisions.
CONSTANTS
  MaxRev = 4
  MaxEdits = 2
  MaxRows = 4
  MaxBegins = 1
  Keep = 2
  Depths = {0}
  Forms = {1}
  Ops = {"undo", "restore", "save", "transaction"}
  Mishaps = {"unsaved", "budget"}
  None = None
SPECIFICATION Spec
INVARIANTS TypeOK RowsHoldTheirRevision RestoreIsUndone UndoWalksBack
CHECK_DEADLOCK FALSE
