SPECIFICATION Spec
CONSTANTS
    Users = {u1}
    Admins = {u1}
    Requests = {q1, q2}
    Secrets = {s1, s2}
    Challenges = {k1}
    MaxFailures = 3
    Lockout = 2
    Lifetime = 1
    MaxTime = 3
    MaxMisses = 4
    NoUser = NoUser
    NoSecret = NoSecret
    NoChallenge = NoChallenge
SYMMETRY MCSymmetry
INVARIANTS TypeOK FailuresLock MfaGates
PROPERTY LockLasts
