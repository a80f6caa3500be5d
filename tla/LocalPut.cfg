SPECIFICATION Spec
CONSTANTS
  MaxUploadBytes = 4
  MaxLength = 7
INVARIANTS LimitIsExact ReadersSeeAll PutIsAllOrNothing
PROPERTIES PutIsOneStep
CHECK_DEADLOCK FALSE
