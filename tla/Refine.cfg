\* A guarded or plain request of up to two rounds, an edit of another client at any
\* point, cancellation wherever the code has a handler.
CONSTANTS
  Errors = {e1}
  Warnings = {w1}
  Infos = {}
  Repairable = {e1, w1}
  MinScores = {95}
  MaxRounds = 2
  MaxCalls = 2
  MaxOthers = 1
  CancelAt = {"critique", "begin", "next", "repair", "working", "last"}
  Mishaps = {"overrun", "slow", "check", "declined"}
  Failed = Failed
  None = None
SPECIFICATION Spec
INVARIANTS TypeOK RoundWhole NeverWorse LostIsReported
CHECK_DEADLOCK FALSE
