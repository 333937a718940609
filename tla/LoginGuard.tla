------------------------------ MODULE LoginGuard ------------------------------
(***************************************************************************)
(* Login (auth/router.py: login, mfa_verify, mfa_setup, mfa_setup_verify;  *)
(* auth/service.py: authenticate_user): the lock after failures, and the   *)
(* second factor, with time.  Requests interleave at their awaits, and     *)
(* every statement commits.                                                *)
(***************************************************************************)
EXTENDS Integers, FiniteSets

CONSTANTS
    Users,
    Admins,
    Requests,     \* bounds how many are in flight
    Secrets,      \* TOTP secrets; a code is right for one of them
    Challenges,   \* tokens that a login gives out if MFA is enabled
    MaxFailures,  \* _MAX_FAILED_ATTEMPTS
    Lockout,      \* _LOCKOUT_MINUTES, in ticks
    Lifetime,     \* of a challenge, in ticks
    MaxTime,      \* bounds the clock
    MaxMisses,    \* bounds the wrong passwords between two logins
    NoUser, NoSecret, NoChallenge

ASSUME UsersAssumption == Admins \subseteq Users /\ NoUser \notin Users
ASSUME RequestsAssumption == IsFiniteSet(Requests)
ASSUME TokensAssumption == NoSecret \notin Secrets /\ NoChallenge \notin Challenges
ASSUME LimitsAssumption ==
    /\ MaxFailures \in Nat \ {0} /\ Lockout \in Nat \ {0} /\ Lifetime \in Nat \ {0}
    /\ MaxTime \in Nat /\ MaxMisses \in Nat

VARIABLES
    now,
    failures,     \* users.failed_login_attempts
    lockedUntil,  \* users.locked_until
    mfaEnabled,   \* users.mfa_enabled
    secret,       \* users.mfa_totp_secret
    challenge,    \* lm:mfa_challenge:{token} in Redis
    request,      \* per request: the statement it is at, and its local variables
    misses,       \* history: wrong passwords since the last reset,
    locked,       \* whether a lock was written since,
    interrupted,  \* whether a fault kept a failure from being recorded since
    behindLock,   \* history: requests that have not read their user since the last lock,
    behindMfa,    \* or since MFA was enabled
    granted       \* history: sessions that a challenge was exchanged for

users == <<failures, lockedUntil, mfaEnabled, secret>>
history == <<misses, locked, interrupted, behindLock, behindMfa, granted>>
vars == <<now, users, challenge, request, history>>

\* locked_until NULL, or any time that has passed.
Never == 0

Challenge == [state : {"fresh", "open", "gone"}, user : Users \cup {NoUser}, until : Nat]

Steps == {"idle", "read", "increment", "lock", "reset", "challenge", "secret", "issue", "enable"}

Idle == [at |-> "idle", user |-> NoUser, until |-> Never, mfa |-> FALSE,
         challenge |-> NoChallenge, code |-> NoSecret]

RequestType ==
    [at : Steps, user : Users \cup {NoUser}, until : Nat, mfa : BOOLEAN,
     challenge : Challenges \cup {NoChallenge}, code : Secrets \cup {NoSecret}]

\* A request knows its user, and what it is to write.
RequestOK(q) ==
    /\ q.at # "idle" => q.user \in Users
    /\ q.at = "lock" => q.until \in 1..(now + Lockout)
    /\ q.at = "secret" => q.challenge \in Challenges

\* Every variable has its type, and a request has what its statement needs.
TypeOK ==
    /\ now \in Nat
    /\ failures \in [Users -> Nat]
    /\ lockedUntil \in [Users -> 0..(now + Lockout)]
    /\ mfaEnabled \in [Users -> BOOLEAN]
    /\ secret \in [Users -> Secrets \cup {NoSecret}]
    /\ challenge \in [Challenges -> Challenge]
    /\ \A k \in Challenges : challenge[k].state = "open" => challenge[k].user \in Users
    /\ request \in [Requests -> RequestType]
    /\ \A q \in Requests : RequestOK(request[q])
    /\ misses \in [Users -> Nat]
    /\ locked \in [Users -> BOOLEAN]
    /\ interrupted \in [Users -> BOOLEAN]
    /\ behindLock \in SUBSET Requests
    /\ behindMfa \in SUBSET Requests
    /\ granted \in [Challenges -> Nat]

Init ==
    /\ now = 0
    /\ failures = [u \in Users |-> 0]
    /\ lockedUntil = [u \in Users |-> Never]
    /\ mfaEnabled = [u \in Users |-> FALSE]
    /\ secret = [u \in Users |-> NoSecret]
    /\ challenge = [k \in Challenges |-> [state |-> "fresh", user |-> NoUser, until |-> Never]]
    /\ request = [q \in Requests |-> Idle]
    /\ misses = [u \in Users |-> 0]
    /\ locked = [u \in Users |-> FALSE]
    /\ interrupted = [u \in Users |-> FALSE]
    /\ behindLock = {}
    /\ behindMfa = {}
    /\ granted = [k \in Challenges |-> 0]

-----------------------------------------------------------------------------
(* Requests *)

At(q, step) == request[q].at = step

User(q) == request[q].user

Begin(q, new) == At(q, "idle") /\ request' = [request EXCEPT ![q] = new]

Goto(q, step) == request' = [request EXCEPT ![q].at = step]

Done(q) == request' = [request EXCEPT ![q] = Idle]

Of(u) == {p \in Requests : User(p) = u}

-----------------------------------------------------------------------------
(* POST /login *)

Login(q, u) ==
    /\ Begin(q, [Idle EXCEPT !.at = "read", !.user = u])
    /\ UNCHANGED <<now, users, challenge, history>>

\* The SELECT has seen the row as it is now.
UpToDate(q) ==
    /\ behindLock' = behindLock \ {q}
    /\ behindMfa' = behindMfa \ {q}

WrongPassword(q) ==
    /\ At(q, "read")
    /\ misses[User(q)] < MaxMisses
    /\ Goto(q, "increment")
    /\ misses' = [misses EXCEPT ![User(q)] = @ + 1]
    /\ UpToDate(q)
    /\ UNCHANGED <<now, users, challenge, locked, interrupted, granted>>

\* Mutant: the lock is not looked at.
RightPassword_IgnoresLock(q) ==
    /\ At(q, "read")
    /\ request' = [request EXCEPT ![q].at = "reset", ![q].mfa = mfaEnabled[User(q)]]
    /\ UpToDate(q)
    /\ UNCHANGED <<now, users, challenge, misses, locked, interrupted, granted>>

\* The lock is looked at after the password, and only if that is right.
RightPassword(q) ==
    /\ At(q, "read")
    /\ IF lockedUntil[User(q)] > now THEN Done(q)
       ELSE request' = [request EXCEPT ![q].at = "reset", ![q].mfa = mfaEnabled[User(q)]]
    /\ UpToDate(q)
    /\ UNCHANGED <<now, users, challenge, misses, locked, interrupted, granted>>

\* Mutant: one failure too many is allowed.
RecordFailure_Late(q) ==
    /\ At(q, "increment")
    /\ failures' = [failures EXCEPT ![User(q)] = @ + 1]
    /\ IF failures'[User(q)] > MaxFailures
       THEN request' = [request EXCEPT ![q].at = "lock", ![q].until = now + Lockout]
       ELSE Done(q)
    /\ UNCHANGED <<now, lockedUntil, mfaEnabled, secret, challenge, history>>

\* UPDATE ... RETURNING: the failures of requests at the same time all count.
RecordFailure(q) ==
    /\ At(q, "increment")
    /\ failures' = [failures EXCEPT ![User(q)] = @ + 1]
    /\ IF failures'[User(q)] >= MaxFailures
       THEN request' = [request EXCEPT ![q].at = "lock", ![q].until = now + Lockout]
       ELSE Done(q)
    /\ UNCHANGED <<now, lockedUntil, mfaEnabled, secret, challenge, history>>

Lock(q) ==
    /\ At(q, "lock")
    /\ lockedUntil' = [lockedUntil EXCEPT ![User(q)] = request[q].until]
    /\ locked' = [locked EXCEPT ![User(q)] = TRUE]
    /\ behindLock' = behindLock \cup Of(User(q))
    /\ Done(q)
    /\ UNCHANGED <<now, failures, mfaEnabled, secret, challenge, misses, interrupted,
                   behindMfa, granted>>

\* The counter and the lock are reset by every login that has got this far.
Reset(q) ==
    /\ At(q, "reset")
    /\ failures' = [failures EXCEPT ![User(q)] = 0]
    /\ lockedUntil' = [lockedUntil EXCEPT ![User(q)] = Never]
    /\ misses' = [misses EXCEPT ![User(q)] = 0]
    /\ locked' = [locked EXCEPT ![User(q)] = FALSE]
    /\ interrupted' = [interrupted EXCEPT ![User(q)] = FALSE]
    /\ IF request[q].mfa /\ User(q) \in Admins THEN Goto(q, "challenge") ELSE Goto(q, "issue")
    /\ UNCHANGED <<now, mfaEnabled, secret, challenge, behindLock, behindMfa, granted>>

GiveChallenge(q, k) ==
    /\ At(q, "challenge")
    /\ challenge[k].state = "fresh"
    /\ challenge' = [challenge EXCEPT ![k] =
                       [state |-> "open", user |-> User(q), until |-> now + Lifetime]]
    /\ Done(q)
    /\ UNCHANGED <<now, users, history>>

\* The session begins: its refresh token is inserted (AuthSessions!IssueToken).
Issue(q) ==
    /\ At(q, "issue")
    /\ granted' = [k \in Challenges |->
                     IF request[q].challenge = k THEN granted[k] + 1 ELSE granted[k]]
    /\ Done(q)
    /\ UNCHANGED <<now, users, challenge, misses, locked, interrupted, behindLock, behindMfa>>

-----------------------------------------------------------------------------
(* POST /mfa/verify *)

\* Mutant: GET, and the challenge is left to expire.
Verify_KeepsChallenge(q, k, code) ==
    /\ challenge[k].state = "open"
    /\ Begin(q, [Idle EXCEPT !.at = "secret", !.user = challenge[k].user,
                             !.challenge = k, !.code = code])
    /\ UNCHANGED <<now, users, challenge, history>>

\* Mutant: the answer of GETDEL is not looked at.
Verify_Gone(q, k, code) ==
    /\ Begin(q, [Idle EXCEPT !.at = "secret", !.user = challenge[k].user,
                             !.challenge = k, !.code = code])
    /\ challenge' = [challenge EXCEPT ![k].state = "gone"]
    /\ UNCHANGED <<now, users, history>>

\* GETDEL: one try per challenge, with a right or a wrong code.
Verify(q, k, code) ==
    /\ challenge[k].state = "open"
    /\ Begin(q, [Idle EXCEPT !.at = "secret", !.user = challenge[k].user,
                             !.challenge = k, !.code = code])
    /\ challenge' = [challenge EXCEPT ![k].state = "gone"]
    /\ UNCHANGED <<now, users, history>>

CheckCode(q) ==
    /\ At(q, "secret")
    /\ IF secret[User(q)] # NoSecret /\ request[q].code = secret[User(q)]
       THEN Goto(q, "issue") ELSE Done(q)
    /\ UNCHANGED <<now, users, challenge, history>>

-----------------------------------------------------------------------------
(* GET /mfa/setup and POST /mfa/setup/verify, by a user who is logged in *)

\* Also for a user whose MFA is enabled: the new secret takes effect at once.
SetUp(u, s) ==
    /\ secret[u] # s
    /\ secret' = [secret EXCEPT ![u] = s]
    /\ UNCHANGED <<now, failures, lockedUntil, mfaEnabled, challenge, request, history>>

Confirm(q, u, code) ==
    /\ secret[u] # NoSecret /\ code = secret[u]
    /\ Begin(q, [Idle EXCEPT !.at = "enable", !.user = u])
    /\ UNCHANGED <<now, users, challenge, history>>

Enable(q) ==
    /\ At(q, "enable")
    /\ mfaEnabled' = [mfaEnabled EXCEPT ![User(q)] = TRUE]
    /\ behindMfa' = behindMfa \cup Of(User(q))
    /\ Done(q)
    /\ UNCHANGED <<now, failures, lockedUntil, secret, challenge, misses, locked, interrupted,
                   behindLock, granted>>

-----------------------------------------------------------------------------
(* Time and faults *)

\* Redis drops the challenges whose time is up.
Tick ==
    /\ now < MaxTime
    /\ now' = now + 1
    /\ challenge' = [k \in Challenges |->
                       IF challenge[k].state = "open" /\ challenge[k].until <= now + 1
                       THEN [challenge[k] EXCEPT !.state = "gone"] ELSE challenge[k]]
    /\ UNCHANGED <<users, request, history>>

\* The request fails: the next statement of q has an error, or its client is gone.
StatementFails(q) ==
    /\ ~At(q, "idle")
    /\ interrupted' = [u \in Users |->
                         interrupted[u] \/ (u = User(q) /\ request[q].at \in {"increment", "lock"})]
    /\ Done(q)
    /\ UNCHANGED <<now, users, challenge, misses, locked, behindLock, behindMfa, granted>>

-----------------------------------------------------------------------------

Next ==
    \/ \E q \in Requests, u \in Users : Login(q, u)
    \/ \E q \in Requests :
         \/ WrongPassword(q) \/ RightPassword(q) \/ RecordFailure(q) \/ Lock(q) \/ Reset(q)
         \/ Issue(q) \/ CheckCode(q) \/ Enable(q) \/ StatementFails(q)
    \/ \E q \in Requests, k \in Challenges : GiveChallenge(q, k)
    \/ \E q \in Requests, k \in Challenges, code \in Secrets : Verify(q, k, code)
    \/ \E u \in Users, s \in Secrets : SetUp(u, s)
    \/ \E q \in Requests, u \in Users, code \in Secrets : Confirm(q, u, code)
    \/ Tick

Spec == Init /\ [][Next]_vars

-----------------------------------------------------------------------------
(* Properties *)

\* Five wrong passwords since the last login lock the account, however the requests that bring
\* them interleave with each other and with logins: no failure is lost between a SELECT and an
\* UPDATE (authenticate_user, _record_failed_login).
FailuresLock ==
    \A u \in Users :
        misses[u] >= MaxFailures =>
            \/ locked[u] \/ interrupted[u]
            \/ \E q \in Of(u) : request[q].at \in {"increment", "lock"}

\* A lock lasts its time.  Only a request that had read the row before the lock was written
\* can lift or shorten it.
LockLasts ==
    [][\A u \in Users :
         now < lockedUntil[u] /\ lockedUntil'[u] < lockedUntil[u] =>
             \E q \in behindLock : User(q) = u /\ request'[q] # request[q]]_vars

\* A challenge is good for one session, even if it is presented twice at a time; and who has MFA
\* enabled gets no session without one, except from a login that had read the row before.
MfaGates ==
    /\ \A k \in Challenges : granted[k] <= 1
    /\ \A q \in Requests :
         At(q, "issue") /\ User(q) \in Admins /\ mfaEnabled[User(q)] =>
             request[q].challenge # NoChallenge \/ q \in behindMfa
=============================================================================
