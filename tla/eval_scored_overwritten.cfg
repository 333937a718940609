SPECIFICATION Spec
CONSTANTS
  s1 = s1  s2 = s2  s3 = s3  s4 = s4  u1 = u1  x1 = x1  x2 = x2
  Sessions = {s1}
  Slots = {x1, x2}
  NoSlot = NoSlot
  NoSession = NoSession
  Users = {u1}
  FreeUsers = {u1}
  Owner <- OneOwner
  Attempts = 3
  MaxStalled = 1
  HonoursUnrecoverable = TRUE
  MonthlyLimit = 3
  MaxInFlight = 2
  MaxLockLosses = 0
  MaxCrashes = 0
  MaxIoErrors = 1
SYMMETRY Symmetry
CHECK_DEADLOCK FALSE
PROPERTIES
  ScoredIsFinal
