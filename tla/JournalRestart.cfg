\* One server at a time, restarted twice; every outcome, eviction, retention and a failing file.
CONSTANTS
  s1 = s1  s2 = s2  s3 = s3
  x = x  y = y
  read = read  write = write  tool = tool
  Servers = {s1, s2, s3}
  Ids = {x}
  Reqs = {read, write, tool}
  ReadOnly = {read}
  Compound = {tool}
  MaxAttempts = 3
  MaxLen = 1
  Shared = FALSE
  Retryable = TRUE
  Retention = TRUE
  MayFail = TRUE
  None = None
  Other = Other
SPECIFICATION Spec
INVARIANTS TypeOK OneAnswer NoFalseCommit NoOrphanRow
PROPERTIES ImplementsAtMostOnce
SYMMETRY Symmetry
CHECK_DEADLOCK FALSE
