SPECIFICATION AccessSpec
CONSTANTS
  d1 = d1
  w1 = w1
  c1 = c1
  c2 = c2
  alice = alice
  bob = bob
  root = root
  Documents = {d1}
  Workers = {w1}
  Callers = {c1, c2}
  Users = {alice, bob, root}
  Admins = {root}
  OwnerOf <- MCOwnerOf
  Credentials <- MCCredentials
  NoDocument = NoDocument
  Refusing = {"database", "storage"}
  Losing = {"database"}
  CanStop = TRUE
  CanCancel = FALSE
  MaxAttempts = 1
  MaxInjected = 1
  Malformed = Malformed
  NoJob = NoJob
INVARIANTS AccessTypeOK AnswersInContract RequestsAreGuarded DownloadFindsObject
SYMMETRY Symmetry
CHECK_DEADLOCK FALSE
