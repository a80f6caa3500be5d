SPECIFICATION Spec
CONSTANTS
  alice = alice
  bob = bob
  root = root
  Users = {alice, bob, root}
  Admins = {root}
  Documents = {1, 2, 3, 4}
  OwnerOf <- MCOwnerOf
  Workers = {}
  Refusing = {"database"}
  Losing = {}
  PageValues = {Absent, NotNumber, 0, 1, 2, 3, 9}
  SizeValues = {Absent, NotNumber, 0, 1}
  Absent = Absent
  NotNumber = NotNumber
  DefaultSize = 2
  MaxSize = 2
  Int32Limit = 8
INVARIANTS TypeOK PageShowsLive PageAgreesWithTotal WalkIsComplete
CHECK_DEADLOCK FALSE
