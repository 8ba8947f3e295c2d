\* Two servers alive on one folder at once; only writes, and every answer is final.
CONSTANTS
  s1 = s1  s2 = s2  s3 = s3
  x = x  y = y
  read = read  write = write  tool = tool
  Servers = {s1, s2, s3}
  Ids = {x}
  Reqs = {write}
  ReadOnly = {}
  Compound = {}
  MaxAttempts = 2
  MaxLen = 1
  Shared = TRUE
  Retryable = FALSE
  Retention = FALSE
  MayFail = TRUE
  None = None
  Other = Other
SPECIFICATION Spec
INVARIANTS AtMostOnce
PROPERTIES SettledStays LiveRowsUntouched
SYMMETRY Symmetry
CHECK_DEADLOCK FALSE
