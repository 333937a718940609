SPECIFICATION Spec
CONSTANTS
  u1 = u1  c1 = c1  c2 = c2
  t1 = t1  t2 = t2  t3 = t3  t4 = t4  t5 = t5
  r1 = r1  r2 = r2  r3 = r3
  Users = {u1}
  Clients = {c1, c2}
  Account <- OneAccount
  Tokens = {t1, t2, t3}
  Requests = {r1, r2}
  MaxExpired = 1
  NoToken = NoToken
  NoClient = NoClient
SYMMETRY Symmetry
CHECK_DEADLOCK FALSE
INVARIANTS
  TypeOK
  OneTokenUnlessShared
  NoFalseAlarm
PROPERTIES
  EndedStaysEnded
  ErasureIsFinal
