SPECIFICATION Spec
CONSTANTS
  t1 = t1
  t2 = t2
  t3 = t3
  t4 = t4
  r1 = r1
  r2 = r2
  r3 = r3
  Tokens = {t1, t2, t3, t4}
  Requests = {r1, r2, r3}
  NoToken = NoToken
  Replies = {"ok", "refused", "lost"}
INVARIANTS OneActivePerLogin SuccessorExists DeliveredIsStored
PROPERTIES RevokedIsFinal ChainsImplemented
SYMMETRY Symmetry
CHECK_DEADLOCK FALSE
