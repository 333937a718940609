SPECIFICATION Spec
CONSTANTS
  s1 = s1  s2 = s2  s3 = s3  s4 = s4  u1 = u1  x1 = x1  x2 = x2
  Sessions = {s1, s2}
  Slots = {x1, x2}
  NoSlot = NoSlot
  NoSession = NoSession
  Users = {u1}
  FreeUsers = {u1}
  Owner <- OneOwner
  Attempts = 2
  MaxStalled = 1
  HonoursUnrecoverable = FALSE
  MonthlyLimit = 3
  MaxInFlight = 2
  MaxLockLosses = 1
  MaxCrashes = 1
  MaxIoErrors = 1
SYMMETRY Symmetry
CHECK_DEADLOCK FALSE
INVARIANTS
  TypeOK
  Traceable
  SnapshotsAreHistory
  FailedIsExhausted
  AppliedOnce
  CompletedIsScored
PROPERTIES
  UpdatesAreAtomic
  FailedIsFinal
