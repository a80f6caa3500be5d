SPECIFICATION FairSpec
CONSTANTS
  d1 = d1
  d2 = d2
  w1 = w1
  w2 = w2
  Documents = {d1, d2}
  Workers = {w1, w2}
  Refusing = {"storage"}
  Losing = {}
  CanStop = FALSE
  CanCancel = FALSE
  MaxAttempts = 2
  MaxInjected = 1
  Malformed = Malformed
  NoJob = NoJob
INVARIANTS UnfinishedHasJob
PROPERTIES AcceptedSettles QueueDrains
CHECK_DEADLOCK FALSE
