SPECIFICATION FairSpec
CONSTANTS
  s1 = s1  s2 = s2  s3 = s3  s4 = s4  u1 = u1  x1 = x1  x2 = x2
  Sessions = {s1, s2, s3}
  Slots = {x1}
  NoSlot = NoSlot
  NoSession = NoSession
  Users = {u1}
  FreeUsers = {u1}
  Owner <- OneOwner
  Attempts = 2
  MaxStalled = 1
  HonoursUnrecoverable = FALSE
  MonthlyLimit = 1
  MaxInFlight = 2
  MaxLockLosses = 1
  MaxCrashes = 0
  MaxIoErrors = 0
CHECK_DEADLOCK FALSE
INVARIANTS
  QuotaOvershoot
PROPERTIES
  QueueDrains
  AcceptedIsSettled
