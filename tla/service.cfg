SPECIFICATION Spec
CONSTANTS
    r1 = r1  r2 = r2  x1 = x1  t1 = t1
    Requests = {r1, r2}
    Slots = {x1}
    Tasks = {t1}
    Clients = {r1, r2, x1, t1}
    Keys = {k1}
    NoKey = NoKey
    PoolSize = 1
    MaxAttempts = 2
    Window = 2
INVARIANTS TypeOK WorkerStopsFirst LimitHolds CounterExpires
PROPERTY Progress
