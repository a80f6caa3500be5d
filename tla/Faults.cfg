SPECIFICATION Spec
CONSTANTS
  d1 = d1
  w1 = w1
  w2 = w2
  Documents = {d1}
  Workers = {w1, w2}
  Refusing = {"database", "redis", "storage"}
  Losing = {"database", "redis", "storage"}
  CanStop = TRUE
  CanCancel = TRUE
  MaxAttempts = 2
  MaxInjected = 2
  Malformed = Malformed
  NoJob = NoJob
INVARIANTS TypeOK ExclusiveClaim RowHasObject ClaimsAreBacked
PROPERTIES SettledIsFinal LifecycleImplemented QueueImplemented StrandedByStops OrphanedByFault JoblessIsReported
SYMMETRY Symmetry
CHECK_DEADLOCK FALSE
