SPECIFICATION FairSpec
CONSTANTS
  h1 = h1
  h2 = h2
  Handlers = {h1, h2}
  Environments <- MCEnvironments
  Unset = Unset
  Malformed = Malformed
  Int32Limit = 8
INVARIANTS TypeOK CleanExitIsDrained ResourcesReleased PoolIsUsable
PROPERTIES StopsOnSignal FailureStopsServer
CHECK_DEADLOCK FALSE
