SPECIFICATION Spec
CONSTANTS
  d1 = d1
  w1 = w1
  Documents = {d1}
  Workers = {w1}
  Refusing = {"database"}
  Losing = {}
  CanStop = FALSE
  CanCancel = FALSE
  MaxAttempts = 2
  MaxInjected = 0
  Malformed = Malformed
  NoJob = NoJob
INVARIANTS ProcessingKeepsJob
CHECK_DEADLOCK FALSE
