SPECIFICATION Spec
CONSTANTS
  d1 = d1
  w1 = w1
  Documents = {d1}
  Workers = {w1}
  Refusing = {"storage"}
  Losing = {}
  CanStop = FALSE
  CanCancel = TRUE
  MaxAttempts = 2
  MaxInjected = 0
  Malformed = Malformed
  NoJob = NoJob
INVARIANTS FailedKeepsJob
CHECK_DEADLOCK FALSE
