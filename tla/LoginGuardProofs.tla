--------------------------- MODULE LoginGuardProofs ---------------------------
(***************************************************************************)
(* Theorems about LoginGuard: failures lock an account, a lock lasts, and  *)
(* the second factor is asked for once.                                    *)
(***************************************************************************)
EXTENDS LoginGuard, FiniteSetTheorems, TLAPS

-----------------------------------------------------------------------------
(* The request that takes a step, and the record it changes to *)

LEMMA IdleType == Idle \in RequestType /\ RequestOK(Idle) /\ Idle.at = "idle"
BY DEF Idle, RequestType, RequestOK, Steps, Never

LEMMA Busy ==
  ASSUME TypeOK, NEW q \in Requests, request[q].at # "idle"
  PROVE  /\ User(q) \in Users
         /\ request[q] \in RequestType
         /\ RequestOK(request[q])
BY DEF TypeOK, RequestOK, RequestType, User

Becomes(q, new) ==
    /\ new \in RequestType
    /\ RequestOK(new)
    /\ request' = [request EXCEPT ![q] = new]

LEMMA BecomesThis ==
  ASSUME TypeOK, NEW q \in Requests, NEW new, Becomes(q, new)
  PROVE  /\ request'[q] = new
         /\ \A p \in Requests \ {q} : request'[p] = request[p]
BY DEF Becomes, TypeOK

LEMMA BecomesType ==
  ASSUME TypeOK, NEW q \in Requests, NEW new, Becomes(q, new), now' = now
  PROVE  /\ request' \in [Requests -> RequestType]
         /\ \A p \in Requests : RequestOK(request[p])'
BY DEF Becomes, TypeOK, RequestOK

LEMMA DoneBecomes ==
  ASSUME NEW q \in Requests, Done(q)
  PROVE  Becomes(q, Idle)
BY IdleType DEF Done, Becomes

Reading(u) == [Idle EXCEPT !.at = "read", !.user = u]
Confirming(u) == [Idle EXCEPT !.at = "enable", !.user = u]
Verifying(k, code) ==
    [Idle EXCEPT !.at = "secret", !.user = challenge[k].user, !.challenge = k, !.code = code]
Moved(q, step) == [request[q] EXCEPT !.at = step]
Passed(q) == [request[q] EXCEPT !.at = "reset", !.mfa = mfaEnabled[User(q)]]
Locking(q) == [request[q] EXCEPT !.at = "lock", !.until = now + Lockout]

LEMMA MovedBecomes ==
  ASSUME TypeOK, NEW q \in Requests, NEW step, request[q].at # "idle", Goto(q, step),
         step = "increment" \/ step = "challenge" \/ step = "issue"
  PROVE  Becomes(q, Moved(q, step))
<1>1. request[q] \in RequestType /\ User(q) \in Users
  BY Busy
<1>2. Moved(q, step) \in RequestType /\ RequestOK(Moved(q, step))
  BY <1>1 DEF RequestType, RequestOK, User, Steps, Moved
<1>3. request' = [request EXCEPT ![q] = Moved(q, step)]
  BY <1>1 DEF Goto, RequestType, TypeOK, Moved
<1>4. QED
  BY <1>2, <1>3 DEF Becomes

LEMMA BeginBecomes ==
  ASSUME NEW q \in Requests, NEW u \in Users
  PROVE  /\ Login(q, u) => Becomes(q, Reading(u))
         /\ \A code : Confirm(q, u, code) => Becomes(q, Confirming(u))
<1>1. /\ Reading(u) \in RequestType /\ RequestOK(Reading(u))
      /\ Confirming(u) \in RequestType /\ RequestOK(Confirming(u))
  BY IdleType DEF Reading, Confirming, RequestType, RequestOK, Steps
<1>2. QED
  BY <1>1 DEF Login, Confirm, Begin, Becomes, Reading, Confirming

LEMMA VerifyBecomes ==
  ASSUME TypeOK, NEW q \in Requests, NEW k \in Challenges, NEW code \in Secrets,
         Verify(q, k, code)
  PROVE  Becomes(q, Verifying(k, code))
<1>1. challenge[k].user \in Users
  BY DEF TypeOK, Verify
<1>2. Verifying(k, code) \in RequestType /\ RequestOK(Verifying(k, code))
  BY <1>1, IdleType DEF Verifying, RequestType, RequestOK, Steps
<1>3. QED
  BY <1>2 DEF Verify, Begin, Becomes, Verifying

LEMMA PassedBecomes ==
  ASSUME TypeOK, NEW q \in Requests, RightPassword(q)
  PROVE  \/ Becomes(q, Idle)
         \/ ~(lockedUntil[User(q)] > now) /\ Becomes(q, Passed(q))
<1>1. request[q] \in RequestType /\ User(q) \in Users
  BY Busy DEF RightPassword, At
<1>2. CASE lockedUntil[User(q)] > now
  BY <1>2, DoneBecomes DEF RightPassword
<1>3. CASE ~(lockedUntil[User(q)] > now)
  <2>1. Passed(q) \in RequestType /\ RequestOK(Passed(q))
    <3>1. mfaEnabled[User(q)] \in BOOLEAN
      BY <1>1 DEF TypeOK
    <3> DEFINE enabled == mfaEnabled[User(q)]
    <3> HIDE DEF enabled
    <3>2. [request[q] EXCEPT !.at = "reset", !.mfa = enabled] \in RequestType
      BY <1>1, <3>1 DEF RequestType, Steps, enabled
    <3>3. /\ [request[q] EXCEPT !.at = "reset", !.mfa = enabled].at = "reset"
          /\ [request[q] EXCEPT !.at = "reset", !.mfa = enabled].user \in Users
      BY <1>1 DEF RequestType, User
    <3>4. QED
      BY <3>2, <3>3 DEF Passed, RequestOK, enabled
  <2>2. request' = [request EXCEPT ![q] = Passed(q)]
    BY <1>1, <1>3 DEF RightPassword, RequestType, TypeOK, Passed
  <2>3. QED
    BY <1>3, <2>1, <2>2 DEF Becomes
<1>4. QED
  BY <1>2, <1>3

LEMMA FailureBecomes ==
  ASSUME TypeOK, NEW q \in Requests, RecordFailure(q)
  PROVE  \/ ~(failures[User(q)] + 1 >= MaxFailures) /\ Becomes(q, Idle)
         \/ Becomes(q, Locking(q))
<1>1. request[q] \in RequestType /\ User(q) \in Users
  BY Busy DEF RecordFailure, At
<1>2. failures'[User(q)] = failures[User(q)] + 1
  BY <1>1 DEF RecordFailure, TypeOK
<1>3. CASE ~(failures[User(q)] + 1 >= MaxFailures)
  BY <1>2, <1>3, DoneBecomes DEF RecordFailure
<1>4. CASE failures[User(q)] + 1 >= MaxFailures
  <2>1. now + Lockout \in 1..(now + Lockout) /\ now + Lockout \in Nat
    BY LimitsAssumption DEF TypeOK
  <2>2. Locking(q) \in RequestType /\ RequestOK(Locking(q))
    BY <1>1, <2>1 DEF RequestType, RequestOK, Steps, User, Locking
  <2>3. request' = [request EXCEPT ![q] = Locking(q)]
    BY <1>1, <1>2, <1>4 DEF RecordFailure, RequestType, TypeOK, Locking
  <2>4. QED
    BY <2>2, <2>3 DEF Becomes
<1>5. QED
  BY <1>3, <1>4

LEMMA ResetBecomes ==
  ASSUME TypeOK, NEW q \in Requests, Reset(q)
  PROVE  \/ Becomes(q, Moved(q, "challenge"))
         \/ ~(request[q].mfa /\ User(q) \in Admins) /\ Becomes(q, Moved(q, "issue"))
BY MovedBecomes DEF Reset, At

LEMMA CheckBecomes ==
  ASSUME TypeOK, NEW q \in Requests, CheckCode(q)
  PROVE  Becomes(q, Idle) \/ Becomes(q, Moved(q, "issue"))
BY MovedBecomes, DoneBecomes DEF CheckCode, At

-----------------------------------------------------------------------------
(* Type correctness *)

LEMMA InitType == Init => TypeOK
BY IdleType, LimitsAssumption DEF Init, TypeOK, Challenge, Never

LEMMA RequestTypeStep ==
  ASSUME TypeOK, [Next]_vars
  PROVE  /\ request' \in [Requests -> RequestType]
         /\ \A p \in Requests : RequestOK(request[p])'
<1> DEFINE Goal == /\ request' \in [Requests -> RequestType]
                   /\ \A p \in Requests : RequestOK(request[p])'
<1>1. ASSUME NEW q \in Requests, NEW new, Becomes(q, new), now' = now PROVE Goal
  BY <1>1, BecomesType
<1>2. ASSUME request' = request, now' = now \/ now' = now + 1 PROVE Goal
  BY <1>2, LimitsAssumption DEF TypeOK, RequestOK
<1> HIDE DEF Goal
<1>3. ASSUME NEW q \in Requests, NEW u \in Users, Login(q, u) PROVE Goal
  BY <1>1, <1>3, BeginBecomes DEF Login
<1>4. ASSUME NEW q \in Requests, NEW u \in Users, NEW code \in Secrets, Confirm(q, u, code)
      PROVE  Goal
  BY <1>1, <1>4, BeginBecomes DEF Confirm
<1>5. ASSUME NEW q \in Requests, NEW k \in Challenges, NEW code \in Secrets, Verify(q, k, code)
      PROVE  Goal
  BY <1>1, <1>5, VerifyBecomes DEF Verify
<1>6. ASSUME NEW q \in Requests, WrongPassword(q) PROVE Goal
  BY <1>1, <1>6, MovedBecomes DEF WrongPassword, At
<1>7. ASSUME NEW q \in Requests, RightPassword(q) PROVE Goal
  BY <1>1, <1>7, PassedBecomes DEF RightPassword
<1>8. ASSUME NEW q \in Requests, RecordFailure(q) PROVE Goal
  BY <1>1, <1>8, FailureBecomes DEF RecordFailure
<1>9. ASSUME NEW q \in Requests, Reset(q) PROVE Goal
  BY <1>1, <1>9, ResetBecomes DEF Reset
<1>10. ASSUME NEW q \in Requests, CheckCode(q) PROVE Goal
  BY <1>1, <1>10, CheckBecomes DEF CheckCode
<1>11. ASSUME NEW q \in Requests, Lock(q) \/ Issue(q) \/ Enable(q) \/ StatementFails(q) PROVE Goal
  BY <1>1, <1>11, DoneBecomes DEF Lock, Issue, Enable, StatementFails
<1>12. ASSUME NEW q \in Requests, NEW k \in Challenges, GiveChallenge(q, k) PROVE Goal
  BY <1>1, <1>12, DoneBecomes DEF GiveChallenge
<1>13. ASSUME NEW u \in Users, NEW s \in Secrets, SetUp(u, s) PROVE Goal
  BY <1>2, <1>13 DEF SetUp
<1>14. ASSUME Tick \/ UNCHANGED vars PROVE Goal
  BY <1>2, <1>14 DEF Tick, vars
<1>15. Goal
  BY ONLY [Next]_vars, <1>3, <1>4, <1>5, <1>6, <1>7, <1>8, <1>9, <1>10, <1>11, <1>12, <1>13,
          <1>14 DEF Next
<1>16. QED
  BY <1>15 DEF Goal

\* now, and the rows of users.
LEMMA UsersTypeStep ==
  ASSUME TypeOK, [Next]_vars
  PROVE  /\ now' \in Nat
         /\ failures' \in [Users -> Nat]
         /\ lockedUntil' \in [Users -> 0..(now' + Lockout)]
         /\ mfaEnabled' \in [Users -> BOOLEAN]
         /\ secret' \in [Users -> Secrets \cup {NoSecret}]
<1> DEFINE Goal == /\ now' \in Nat
                   /\ failures' \in [Users -> Nat]
                   /\ lockedUntil' \in [Users -> 0..(now' + Lockout)]
                   /\ mfaEnabled' \in [Users -> BOOLEAN]
                   /\ secret' \in [Users -> Secrets \cup {NoSecret}]
<1>1. ASSUME UNCHANGED <<now, users>> PROVE Goal
  BY <1>1 DEF TypeOK, users
<1>2. ASSUME NEW q \in Requests, RecordFailure(q) PROVE Goal
  <2>1. failures' \in [Users -> Nat]
    BY <1>2, Busy DEF RecordFailure, At, TypeOK
  <2>2. QED
    BY <1>2, <2>1 DEF RecordFailure, TypeOK
<1>3. ASSUME NEW q \in Requests, Lock(q) PROVE Goal
  <2>1. request[q].until \in 0..(now + Lockout)
    BY <1>3, Busy, LimitsAssumption DEF Lock, At, RequestOK, TypeOK
  <2>2. lockedUntil' \in [Users -> 0..(now + Lockout)]
    BY <1>3, <2>1 DEF Lock, TypeOK
  <2>3. QED
    BY <1>3, <2>2 DEF Lock, TypeOK
<1>4. ASSUME NEW q \in Requests, Reset(q) PROVE Goal
  <2>1. Never \in 0..(now + Lockout)
    BY LimitsAssumption DEF TypeOK, Never
  <2>2. lockedUntil' \in [Users -> 0..(now + Lockout)] /\ failures' \in [Users -> Nat]
    BY <1>4, <2>1 DEF Reset, TypeOK
  <2>3. QED
    BY <1>4, <2>2 DEF Reset, TypeOK
<1>5. ASSUME NEW u \in Users, NEW s \in Secrets, SetUp(u, s) PROVE Goal
  BY <1>5 DEF SetUp, TypeOK
<1>6. ASSUME NEW q \in Requests, Enable(q) PROVE Goal
  <2>1. mfaEnabled' \in [Users -> BOOLEAN]
    BY ONLY <1>6, TypeOK, Zenon DEF Enable, TypeOK
  <2>2. QED
    BY <1>6, <2>1 DEF Enable, TypeOK
<1>7. ASSUME Tick PROVE Goal
  <2>1. now' \in Nat /\ 0..(now + Lockout) \subseteq 0..(now' + Lockout)
    BY <1>7, LimitsAssumption DEF Tick, TypeOK
  <2>2. QED
    BY <1>7, <2>1 DEF Tick, users, TypeOK
<1> HIDE DEF Goal
<1>8. ASSUME NEW q \in Requests,
             WrongPassword(q) \/ RightPassword(q) \/ Issue(q) \/ CheckCode(q) \/ StatementFails(q)
      PROVE  Goal
  BY <1>1, <1>8 DEF WrongPassword, RightPassword, Issue, CheckCode, StatementFails
<1>9. ASSUME NEW q \in Requests, NEW u \in Users, Login(q, u) PROVE Goal
  BY ONLY <1>1, <1>9 DEF Login
<1>10. ASSUME NEW q \in Requests, NEW k \in Challenges, GiveChallenge(q, k) PROVE Goal
  BY ONLY <1>1, <1>10 DEF GiveChallenge
<1>11. ASSUME NEW q \in Requests, NEW k \in Challenges, NEW code \in Secrets, Verify(q, k, code)
       PROVE  Goal
  BY ONLY <1>1, <1>11 DEF Verify
<1>12. ASSUME NEW q \in Requests, NEW u \in Users, NEW code \in Secrets, Confirm(q, u, code)
       PROVE  Goal
  BY ONLY <1>1, <1>12 DEF Confirm
<1>13. ASSUME UNCHANGED vars PROVE Goal
  BY <1>1, <1>13 DEF vars
<1>14. Goal
  BY ONLY [Next]_vars, <1>2, <1>3, <1>4, <1>5, <1>6, <1>7, <1>8, <1>9, <1>10, <1>11, <1>12,
          <1>13 DEF Next
<1>15. QED
  BY <1>14 DEF Goal

\* The challenges.
LEMMA ChallengeTypeStep ==
  ASSUME TypeOK, [Next]_vars
  PROVE  /\ challenge' \in [Challenges -> Challenge]
         /\ \A k \in Challenges : challenge'[k].state = "open" => challenge'[k].user \in Users
<1> DEFINE Goal ==
      /\ challenge' \in [Challenges -> Challenge]
      /\ \A k \in Challenges : challenge'[k].state = "open" => challenge'[k].user \in Users
<1>1. ASSUME UNCHANGED challenge PROVE Goal
  BY <1>1 DEF TypeOK
<1>2. ASSUME NEW q \in Requests, NEW j \in Challenges, GiveChallenge(q, j) PROVE Goal
  <2> DEFINE new == [state |-> "open", user |-> User(q), until |-> now + Lifetime]
  <2>1. User(q) \in Users
    BY <1>2, Busy DEF GiveChallenge, At
  <2>2. now + Lifetime \in Nat
    BY LimitsAssumption DEF TypeOK
  <2>3. new \in Challenge /\ new.user \in Users
    BY <2>1, <2>2 DEF Challenge
  <2>4. challenge' = [challenge EXCEPT ![j] = new]
    BY <1>2 DEF GiveChallenge
  <2> HIDE DEF new
  <2>5. QED
    BY <2>3, <2>4 DEF TypeOK
<1>3. ASSUME NEW q \in Requests, NEW j \in Challenges, NEW code \in Secrets, Verify(q, j, code)
      PROVE  Goal
  <2>1. challenge' = [challenge EXCEPT ![j].state = "gone"]
    BY <1>3 DEF Verify
  <2>2. QED
    BY <2>1 DEF TypeOK, Challenge
<1>4. ASSUME Tick PROVE Goal
  BY <1>4 DEF Tick, TypeOK, Challenge
<1> HIDE DEF Goal
<1>5. ASSUME NEW q \in Requests,
             \/ WrongPassword(q) \/ RightPassword(q) \/ RecordFailure(q) \/ Lock(q) \/ Reset(q)
             \/ Issue(q) \/ CheckCode(q) \/ Enable(q) \/ StatementFails(q)
      PROVE  Goal
  BY <1>1, <1>5 DEF WrongPassword, RightPassword, RecordFailure, Lock, Reset, Issue, CheckCode,
     Enable, StatementFails
<1>6. ASSUME NEW q \in Requests, NEW u \in Users, Login(q, u) PROVE Goal
  BY <1>1, <1>6 DEF Login
<1>7. ASSUME NEW q \in Requests, NEW u \in Users, NEW code \in Secrets, Confirm(q, u, code)
      PROVE  Goal
  BY <1>1, <1>7 DEF Confirm
<1>8. ASSUME NEW u \in Users, NEW s \in Secrets, SetUp(u, s) PROVE Goal
  BY <1>1, <1>8 DEF SetUp
<1>9. ASSUME UNCHANGED vars PROVE Goal
  BY <1>1, <1>9 DEF vars
<1>10. Goal
  BY ONLY [Next]_vars, <1>2, <1>3, <1>4, <1>5, <1>6, <1>7, <1>8, <1>9 DEF Next
<1>11. QED
  BY <1>10 DEF Goal

\* The history of the failures.
LEMMA HistoryTypeStep ==
  ASSUME TypeOK, [Next]_vars
  PROVE  /\ misses' \in [Users -> Nat]
         /\ locked' \in [Users -> BOOLEAN]
         /\ interrupted' \in [Users -> BOOLEAN]
         /\ behindLock' \in SUBSET Requests
         /\ behindMfa' \in SUBSET Requests
         /\ granted' \in [Challenges -> Nat]
<1> DEFINE Goal == /\ misses' \in [Users -> Nat]
                   /\ locked' \in [Users -> BOOLEAN]
                   /\ interrupted' \in [Users -> BOOLEAN]
                   /\ behindLock' \in SUBSET Requests
                   /\ behindMfa' \in SUBSET Requests
                   /\ granted' \in [Challenges -> Nat]
<1>1. ASSUME UNCHANGED history PROVE Goal
  BY <1>1 DEF TypeOK, history
<1>2. ASSUME NEW q \in Requests, WrongPassword(q) PROVE Goal
  <2>1. misses' \in [Users -> Nat]
    BY <1>2, Busy DEF WrongPassword, At, TypeOK
  <2>2. QED
    BY <1>2, <2>1 DEF WrongPassword, UpToDate, TypeOK
<1>3. ASSUME NEW q \in Requests, RightPassword(q) PROVE Goal
  BY <1>3 DEF RightPassword, UpToDate, TypeOK
<1>4. ASSUME NEW q \in Requests, Lock(q) PROVE Goal
  <2>1. locked' \in [Users -> BOOLEAN]
    BY ONLY <1>4, TypeOK, Zenon DEF Lock, TypeOK
  <2>2. QED
    BY <1>4, <2>1 DEF Lock, Of, TypeOK
<1>5. ASSUME NEW q \in Requests, Reset(q) PROVE Goal
  <2>1. locked' \in [Users -> BOOLEAN] /\ interrupted' \in [Users -> BOOLEAN]
    BY ONLY <1>5, TypeOK, Zenon DEF Reset, TypeOK
  <2>2. misses' \in [Users -> Nat]
    BY <1>5 DEF Reset, TypeOK
  <2>3. QED
    BY <1>5, <2>1, <2>2 DEF Reset, TypeOK
<1>6. ASSUME NEW q \in Requests, Issue(q) PROVE Goal
  <2>1. granted' \in [Challenges -> Nat]
    BY <1>6 DEF Issue, TypeOK
  <2>2. QED
    BY <1>6, <2>1 DEF Issue, TypeOK
<1>7. ASSUME NEW q \in Requests, Enable(q) PROVE Goal
  BY <1>7 DEF Enable, Of, TypeOK
<1>8. ASSUME NEW q \in Requests, StatementFails(q) PROVE Goal
  <2>1. interrupted' \in [Users -> BOOLEAN]
    BY ONLY <1>8, TypeOK, Zenon DEF StatementFails, TypeOK
  <2>2. QED
    BY <1>8, <2>1 DEF StatementFails, TypeOK
<1> HIDE DEF Goal
<1>9. ASSUME NEW q \in Requests, RecordFailure(q) \/ CheckCode(q) PROVE Goal
  BY <1>1, <1>9 DEF RecordFailure, CheckCode
<1>10. ASSUME NEW q \in Requests, NEW u \in Users, Login(q, u) PROVE Goal
  BY <1>1, <1>10 DEF Login
<1>11. ASSUME NEW q \in Requests, NEW k \in Challenges, GiveChallenge(q, k) PROVE Goal
  BY <1>1, <1>11 DEF GiveChallenge
<1>12. ASSUME NEW q \in Requests, NEW k \in Challenges, NEW code \in Secrets, Verify(q, k, code)
       PROVE  Goal
  BY <1>1, <1>12 DEF Verify
<1>13. ASSUME NEW q \in Requests, NEW u \in Users, NEW code \in Secrets, Confirm(q, u, code)
       PROVE  Goal
  BY <1>1, <1>13 DEF Confirm
<1>14. ASSUME NEW u \in Users, NEW s \in Secrets, SetUp(u, s) PROVE Goal
  BY <1>1, <1>14 DEF SetUp
<1>15. ASSUME Tick \/ UNCHANGED vars PROVE Goal
  BY <1>1, <1>15 DEF Tick, vars
<1>16. Goal
  BY ONLY [Next]_vars, <1>2, <1>3, <1>4, <1>5, <1>6, <1>7, <1>8, <1>9, <1>10, <1>11, <1>12,
          <1>13, <1>14, <1>15 DEF Next
<1>17. QED
  BY <1>16 DEF Goal

LEMMA TypeStep == TypeOK /\ [Next]_vars => TypeOK'
BY RequestTypeStep, UsersTypeStep, ChallengeTypeStep, HistoryTypeStep DEF TypeOK

\* The type invariant holds in every reachable state.
THEOREM TypeCorrect == Spec => []TypeOK
BY InitType, TypeStep, PTL DEF Spec

-----------------------------------------------------------------------------
(* A lock lasts its time *)

\* A request that has read its user since the last lock writes no earlier one, and resets only
\* a lock whose time is up.
LockOK(q) ==
    q \notin behindLock =>
        /\ At(q, "lock") => lockedUntil[User(q)] <= request[q].until
        /\ At(q, "reset") => lockedUntil[User(q)] <= now

LockInv == \A q \in Requests : LockOK(q)

LEMMA LockKept ==
  ASSUME TypeOK, LockInv, NEW p \in Requests, request'[p] = request[p],
         UNCHANGED lockedUntil, now' = now \/ now' = now + 1, p \in behindLock => p \in behindLock'
  PROVE  LockOK(p)'
<1>1. LockOK(p)
  BY DEF LockInv
<1>2. CASE At(p, "reset")
  <2>1. User(p) \in Users
    BY <1>2, Busy DEF At
  <2>2. lockedUntil[User(p)] \in Int /\ now \in Int
    BY <2>1 DEF TypeOK
  <2>3. QED
    BY <1>1, <1>2, <2>2 DEF LockOK, At, User
<1>3. CASE ~At(p, "reset")
  BY <1>1, <1>3 DEF LockOK, At, User
<1>4. QED
  BY <1>2, <1>3

LEMMA LockMoves ==
  ASSUME TypeOK, LockInv, NEW q \in Requests, NEW new, Becomes(q, new),
         UNCHANGED <<now, lockedUntil>>,
         \A p \in Requests : p # q /\ p \in behindLock => p \in behindLock',
         new.at = "lock" => lockedUntil[new.user] <= new.until,
         new.at = "reset" => lockedUntil[new.user] <= now
  PROVE  LockInv'
<1>1. ASSUME NEW p \in Requests, p # q PROVE LockOK(p)'
  BY <1>1, BecomesThis, LockKept
<1>2. LockOK(q)'
  BY BecomesThis DEF LockOK, At, User
<1>3. QED
  BY <1>1, <1>2 DEF LockInv

LEMMA LockLeaves ==
  ASSUME TypeOK, LockInv, NEW q \in Requests, NEW new, Becomes(q, new),
         UNCHANGED <<now, lockedUntil, behindLock>>, new.at # "lock", new.at # "reset"
  PROVE  LockInv'
BY LockMoves

LEMMA MovedAt ==
  ASSUME TypeOK, NEW q \in Requests, NEW step
  PROVE  /\ Moved(q, step).at = step
         /\ Moved(q, step).user = User(q)
         /\ Moved(q, step).challenge = request[q].challenge
BY DEF Moved, TypeOK, RequestType, User

LEMMA LockInvStep ==
  ASSUME TypeOK, LockInv, [Next]_vars
  PROVE  LockInv'
<1>1. ASSUME NEW q \in Requests, NEW u \in Users, Login(q, u) PROVE LockInv'
  <2>1. Becomes(q, Reading(u)) /\ Reading(u).at = "read"
    BY <1>1, BeginBecomes DEF Reading, Idle
  <2>2. QED
    BY <1>1, <2>1, LockLeaves DEF Login, users, history
<1>2. ASSUME NEW q \in Requests, NEW u \in Users, NEW code \in Secrets, Confirm(q, u, code)
      PROVE  LockInv'
  <2>1. Becomes(q, Confirming(u)) /\ Confirming(u).at = "enable"
    BY <1>2, BeginBecomes DEF Confirming, Idle
  <2>2. QED
    BY <1>2, <2>1, LockLeaves DEF Confirm, users, history
<1>3. ASSUME NEW q \in Requests, NEW k \in Challenges, NEW code \in Secrets, Verify(q, k, code)
      PROVE  LockInv'
  <2>1. Becomes(q, Verifying(k, code)) /\ Verifying(k, code).at = "secret"
    BY <1>3, VerifyBecomes DEF Verifying, Idle
  <2>2. QED
    BY <1>3, <2>1, LockLeaves DEF Verify, users, history
<1>4. ASSUME NEW q \in Requests, WrongPassword(q) PROVE LockInv'
  <2>1. Becomes(q, Moved(q, "increment")) /\ Moved(q, "increment").at = "increment"
    BY <1>4, MovedBecomes, MovedAt DEF WrongPassword, At
  <2>2. QED
    BY <1>4, <2>1, LockMoves DEF WrongPassword, UpToDate, users
<1>5. ASSUME NEW q \in Requests, RightPassword(q) PROVE LockInv'
  <2>1. CASE Becomes(q, Idle)
    BY <1>5, <2>1, LockMoves, IdleType DEF RightPassword, UpToDate, users
  <2>2. CASE ~(lockedUntil[User(q)] > now) /\ Becomes(q, Passed(q))
    <3>1. Passed(q).at = "reset" /\ Passed(q).user = User(q)
      BY DEF Passed, TypeOK, RequestType, User
    <3>2. lockedUntil[User(q)] \in Int /\ now \in Int
      BY <1>5, Busy DEF RightPassword, At, TypeOK
    <3>3. lockedUntil[User(q)] <= now
      BY <2>2, <3>2
    <3>4. QED
      BY <1>5, <2>2, <3>1, <3>3, LockMoves DEF RightPassword, UpToDate, users
  <2>3. QED
    BY <1>5, <2>1, <2>2, PassedBecomes
<1>6. ASSUME NEW q \in Requests, RecordFailure(q) PROVE LockInv'
  <2>1. CASE Becomes(q, Idle)
    BY <1>6, <2>1, LockLeaves, IdleType DEF RecordFailure, history
  <2>2. CASE Becomes(q, Locking(q))
    <3>1. Locking(q).at = "lock" /\ Locking(q).user = User(q) /\ Locking(q).until = now + Lockout
      BY DEF Locking, TypeOK, RequestType, User
    <3>2. lockedUntil[User(q)] <= now + Lockout
      BY <1>6, Busy DEF RecordFailure, At, TypeOK
    <3>3. QED
      BY <1>6, <2>2, <3>1, <3>2, LockMoves DEF RecordFailure, history
  <2>3. QED
    BY <1>6, <2>1, <2>2, FailureBecomes
<1>7. ASSUME NEW q \in Requests, Lock(q) PROVE LockInv'
  <2>1. Becomes(q, Idle) /\ User(q) \in Users
    BY <1>7, DoneBecomes, Busy DEF Lock, At
  <2>2. LockOK(q)'
    BY <2>1, BecomesThis, IdleType DEF LockOK, At
  <2>3. ASSUME NEW p \in Requests, p # q PROVE LockOK(p)'
    <3>1. request'[p] = request[p]
      BY <2>1, <2>3, BecomesThis
    <3>2. CASE User(p) = User(q)
      BY <1>7, <3>2 DEF Lock, Of, LockOK
    <3>3. CASE User(p) # User(q)
      <4>1. lockedUntil'[User(p)] = lockedUntil[User(p)] \/ User(p) \notin Users
        BY <1>7, <3>3 DEF Lock, TypeOK
      <4>2. At(p, "lock") \/ At(p, "reset") => User(p) \in Users
        BY Busy DEF At
      <4>3. p \in behindLock => p \in behindLock'
        BY <1>7 DEF Lock
      <4>4. LockOK(p)
        BY DEF LockInv
      <4>5. now' = now
        BY <1>7 DEF Lock
      <4>6. QED
        BY <3>1, <4>1, <4>2, <4>3, <4>4, <4>5 DEF LockOK, At, User
    <3>4. QED
      BY <3>2, <3>3
  <2>4. QED
    BY <2>2, <2>3 DEF LockInv
<1>8. ASSUME NEW q \in Requests, Reset(q) PROVE LockInv'
  <2>1. PICK new : Becomes(q, new) /\ new.at # "lock" /\ new.at # "reset"
    BY <1>8, ResetBecomes, MovedAt
  <2>2. LockOK(q)'
    BY <2>1, BecomesThis DEF LockOK, At
  <2>3. ASSUME NEW p \in Requests, p # q PROVE LockOK(p)'
    <3>1. request'[p] = request[p]
      BY <2>1, <2>3, BecomesThis
    <3>2. LockOK(p) /\ now' = now /\ behindLock' = behindLock
      BY <1>8 DEF LockInv, Reset
    <3>3. CASE At(p, "lock") \/ At(p, "reset")
      <4>1. User(p) \in Users /\ request[p].until \in Nat /\ now \in Nat
        BY <3>3, Busy DEF At, RequestType, TypeOK
      <4>2. lockedUntil'[User(p)] = lockedUntil[User(p)] \/ lockedUntil'[User(p)] = 0
        BY <1>8, <4>1 DEF Reset, TypeOK, Never
      <4>3. QED
        BY <3>1, <3>2, <4>1, <4>2 DEF LockOK, At, User
    <3>4. CASE ~(At(p, "lock") \/ At(p, "reset"))
      BY <3>1, <3>4 DEF LockOK, At
    <3>5. QED
      BY <3>3, <3>4
  <2>4. QED
    BY <2>2, <2>3 DEF LockInv
<1>9. ASSUME NEW q \in Requests, CheckCode(q) PROVE LockInv'
  BY <1>9, CheckBecomes, MovedAt, IdleType, LockLeaves DEF CheckCode, users, history
<1>10. ASSUME NEW q \in Requests, Issue(q) \/ Enable(q) \/ StatementFails(q) PROVE LockInv'
  BY <1>10, DoneBecomes, IdleType, LockLeaves DEF Issue, Enable, StatementFails, users
<1>11. ASSUME NEW q \in Requests, NEW k \in Challenges, GiveChallenge(q, k) PROVE LockInv'
  BY <1>11, DoneBecomes, IdleType, LockLeaves DEF GiveChallenge, users, history
<1>12. ASSUME NEW u \in Users, NEW s \in Secrets, SetUp(u, s) PROVE LockInv'
  BY <1>12, LockKept DEF SetUp, history, LockInv
<1>13. ASSUME Tick \/ UNCHANGED vars PROVE LockInv'
  BY <1>13, LockKept DEF Tick, vars, users, history, LockInv
<1>14. QED
  BY ONLY [Next]_vars, <1>1, <1>2, <1>3, <1>4, <1>5, <1>6, <1>7, <1>8, <1>9, <1>10, <1>11,
          <1>12, <1>13 DEF Next

\* What a step that lowers locked_until is.
LEMMA LockLowered ==
  ASSUME TypeOK, [Next]_vars, NEW u \in Users, lockedUntil'[u] # lockedUntil[u]
  PROVE  \E q \in Requests : User(q) = u /\ (Lock(q) \/ Reset(q))
<1>1. ASSUME NEW q \in Requests, Lock(q) \/ Reset(q)
      PROVE  \E p \in Requests : User(p) = u /\ (Lock(p) \/ Reset(p))
  <2>1. User(q) = u
    BY <1>1 DEF Lock, Reset, TypeOK
  <2>2. QED
    BY <1>1, <2>1
<1>2. \/ UNCHANGED lockedUntil
      \/ \E q \in Requests : Lock(q) \/ Reset(q)
  BY DEF Next, vars, users, Login, WrongPassword, RightPassword, RecordFailure, Issue,
     CheckCode, Enable, StatementFails, GiveChallenge, Verify, SetUp, Confirm, Tick
<1>3. QED
  BY <1>1, <1>2

LEMMA LockLastsStep ==
  ASSUME TypeOK, LockInv, [Next]_vars, NEW u \in Users,
         now < lockedUntil[u], lockedUntil'[u] < lockedUntil[u]
  PROVE  \E q \in behindLock : User(q) = u /\ request'[q] # request[q]
<1>1. lockedUntil[u] \in Int /\ now \in Int
  BY DEF TypeOK
<1>2. lockedUntil'[u] # lockedUntil[u]
  BY <1>1
<1>3. PICK q \in Requests : User(q) = u /\ (Lock(q) \/ Reset(q))
  BY <1>2, LockLowered
<1>4. LockOK(q)
  BY DEF LockInv
<1>5. CASE Lock(q)
  <2>1. lockedUntil'[u] = request[q].until /\ At(q, "lock")
    BY <1>3, <1>5 DEF Lock, TypeOK
  <2>2. request[q].until \in Int
    BY <2>1, Busy DEF At, RequestType
  <2>3. q \in behindLock
    BY <1>1, <1>3, <1>4, <2>1, <2>2 DEF LockOK
  <2>4. request'[q].at = "idle"
    BY <1>5, DoneBecomes, BecomesThis, IdleType DEF Lock
  <2>5. QED
    BY <1>3, <2>1, <2>3, <2>4 DEF At
<1>6. CASE Reset(q)
  <2>1. At(q, "reset")
    BY <1>6 DEF Reset
  <2>2. q \in behindLock
    BY <1>1, <1>3, <1>4, <2>1 DEF LockOK
  <2>3. request'[q].at # "reset"
    BY <1>6, ResetBecomes, MovedAt, BecomesThis
  <2>4. QED
    BY <1>3, <2>1, <2>2, <2>3 DEF At
<1>7. QED
  BY <1>3, <1>5, <1>6

\* A lock lasts its time, except for a request that read the row before it was written.
THEOREM LocksHold == Spec => LockLasts
<1>1. Init => LockInv
  BY DEF Init, LockInv, LockOK, At, Idle
<1>2. Spec => [](TypeOK /\ LockInv)
  <2>1. TypeOK /\ LockInv /\ [Next]_vars => (TypeOK /\ LockInv)'
    BY TypeStep, LockInvStep
  <2>2. QED
    BY <1>1, <2>1, InitType, PTL DEF Spec
<1>3. TypeOK /\ LockInv /\ [Next]_vars =>
        [\A u \in Users :
           now < lockedUntil[u] /\ lockedUntil'[u] < lockedUntil[u] =>
               \E q \in behindLock : User(q) = u /\ request'[q] # request[q]]_vars
  BY LockLastsStep
<1>4. QED
  BY <1>2, <1>3, PTL DEF Spec, LockLasts

-----------------------------------------------------------------------------
(* A challenge is good for one session *)

Carries(q, k) == request[q].challenge = k

\* A challenge that was presented is gone, one request has it, and no session yet.
SpentOK(k) ==
    /\ granted[k] <= 1
    /\ granted[k] # 0 => challenge[k].state = "gone"
    /\ \A q \in Requests : Carries(q, k) => challenge[k].state = "gone" /\ granted[k] = 0
    /\ \A p, q \in Requests : Carries(p, k) /\ Carries(q, k) => p = q

SpentInv == \A k \in Challenges : SpentOK(k)

LEMMA GoneStays ==
  ASSUME TypeOK, [Next]_vars, NEW k \in Challenges, challenge[k].state = "gone"
  PROVE  challenge'[k].state = "gone"
<1>1. ASSUME NEW q \in Requests, NEW j \in Challenges, GiveChallenge(q, j)
      PROVE  challenge'[k].state = "gone"
  BY <1>1 DEF GiveChallenge, TypeOK
<1>2. ASSUME NEW q \in Requests, NEW j \in Challenges, NEW code \in Secrets, Verify(q, j, code)
      PROVE  challenge'[k].state = "gone"
  BY <1>2 DEF Verify, TypeOK
<1>3. ASSUME Tick PROVE challenge'[k].state = "gone"
  BY <1>3 DEF Tick
<1>4. \/ UNCHANGED challenge \/ Tick
      \/ \E q \in Requests, j \in Challenges : GiveChallenge(q, j)
      \/ \E q \in Requests, j \in Challenges, code \in Secrets : Verify(q, j, code)
  BY DEF Next, vars, Login, WrongPassword, RightPassword, RecordFailure, Lock, Reset, Issue,
     CheckCode, Enable, StatementFails, SetUp, Confirm
<1>5. QED
  BY <1>1, <1>2, <1>3, <1>4

LEMMA SpentKept ==
  ASSUME TypeOK, SpentInv, [Next]_vars, UNCHANGED granted,
         \A q \in Requests, k \in Challenges : Carries(q, k)' => Carries(q, k)
  PROVE  SpentInv'
BY GoneStays DEF SpentInv, SpentOK

LEMMA SpentMoves ==
  ASSUME TypeOK, SpentInv, [Next]_vars, UNCHANGED granted, NEW q \in Requests, NEW new,
         Becomes(q, new), new.challenge = NoChallenge \/ new.challenge = request[q].challenge
  PROVE  SpentInv'
<1>1. ASSUME NEW p \in Requests, NEW k \in Challenges, Carries(p, k)' PROVE Carries(p, k)
  BY <1>1, BecomesThis, TokensAssumption DEF Carries
<1>2. QED
  BY <1>1, SpentKept

LEMMA SpentInvStep ==
  ASSUME TypeOK, SpentInv, [Next]_vars
  PROVE  SpentInv'
<1>1. ASSUME NEW q \in Requests, NEW u \in Users, Login(q, u) PROVE SpentInv'
  <2>1. Becomes(q, Reading(u)) /\ Reading(u).challenge = NoChallenge
    BY <1>1, BeginBecomes DEF Reading, Idle
  <2>2. QED
    BY <1>1, <2>1, SpentMoves DEF Login, history
<1>2. ASSUME NEW q \in Requests, NEW u \in Users, NEW code \in Secrets, Confirm(q, u, code)
      PROVE  SpentInv'
  <2>1. Becomes(q, Confirming(u)) /\ Confirming(u).challenge = NoChallenge
    BY <1>2, BeginBecomes DEF Confirming, Idle
  <2>2. QED
    BY <1>2, <2>1, SpentMoves DEF Confirm, history
<1>3. ASSUME NEW q \in Requests, NEW k \in Challenges, NEW code \in Secrets, Verify(q, k, code)
      PROVE  SpentInv'
  <2>1. Becomes(q, Verifying(k, code)) /\ Verifying(k, code).challenge = k
    BY <1>3, VerifyBecomes DEF Verifying, Idle
  <2>2. /\ request'[q].challenge = k
        /\ \A p \in Requests \ {q} : request'[p] = request[p]
    BY <2>1, BecomesThis
  <2>3. SpentOK(k) /\ challenge[k].state = "open" /\ UNCHANGED granted
    BY <1>3 DEF SpentInv, Verify, history
  <2>4. \A p \in Requests : Carries(p, k)' => p = q
    BY <2>2, <2>3 DEF SpentOK, Carries
  <2>5. challenge'[k].state = "gone"
    BY <1>3 DEF Verify, TypeOK, Challenge
  <2>6. SpentOK(k)'
    BY <2>3, <2>4, <2>5 DEF SpentOK
  <2>7. ASSUME NEW j \in Challenges, j # k PROVE SpentOK(j)'
    <3>1. \A p \in Requests : Carries(p, j)' => Carries(p, j)
      BY <2>2, <2>7 DEF Carries
    <3>2. SpentOK(j)
      BY DEF SpentInv
    <3>3. QED
      BY <2>3, <3>1, <3>2, GoneStays DEF SpentOK
  <2>8. QED
    BY <2>6, <2>7 DEF SpentInv
<1>4. ASSUME NEW q \in Requests, Issue(q) PROVE SpentInv'
  <2>1. /\ request'[q].challenge = NoChallenge
        /\ \A p \in Requests \ {q} : request'[p] = request[p]
    BY <1>4, DoneBecomes, BecomesThis DEF Issue, Idle
  <2>2. ASSUME NEW k \in Challenges PROVE SpentOK(k)'
    <3>1. SpentOK(k) /\ granted[k] \in Nat
      BY DEF SpentInv, TypeOK
    <3>2. \A p \in Requests : Carries(p, k)' => p # q /\ Carries(p, k)
      BY <2>1, TokensAssumption DEF Carries
    <3>3. CASE Carries(q, k)
      <4>1. granted'[k] = 1 /\ challenge'[k].state = "gone"
        BY <1>4, <3>1, <3>3, GoneStays DEF Issue, Carries, SpentOK
      <4>2. \A p \in Requests : ~Carries(p, k)'
        BY <3>1, <3>2, <3>3 DEF SpentOK
      <4>3. QED
        BY <4>1, <4>2 DEF SpentOK
    <3>4. CASE ~Carries(q, k)
      <4>1. granted'[k] = granted[k]
        BY <1>4, <3>4 DEF Issue, Carries
      <4>2. QED
        BY <3>1, <3>2, <4>1, GoneStays DEF SpentOK
    <3>5. QED
      BY <3>3, <3>4
  <2>3. QED
    BY <2>2 DEF SpentInv
<1>5. ASSUME NEW q \in Requests, WrongPassword(q) PROVE SpentInv'
  BY <1>5, MovedBecomes, MovedAt, SpentMoves DEF WrongPassword, At
<1>6. ASSUME NEW q \in Requests, RightPassword(q) PROVE SpentInv'
  <2>1. Passed(q).challenge = request[q].challenge /\ Idle.challenge = NoChallenge
    BY DEF Passed, Idle, TypeOK, RequestType
  <2>2. QED
    BY <1>6, <2>1, PassedBecomes, SpentMoves DEF RightPassword
<1>7. ASSUME NEW q \in Requests, RecordFailure(q) PROVE SpentInv'
  <2>1. Locking(q).challenge = request[q].challenge /\ Idle.challenge = NoChallenge
    BY DEF Locking, Idle, TypeOK, RequestType
  <2>2. QED
    BY <1>7, <2>1, FailureBecomes, SpentMoves DEF RecordFailure, history
<1>8. ASSUME NEW q \in Requests, Reset(q) PROVE SpentInv'
  BY <1>8, ResetBecomes, MovedAt, SpentMoves DEF Reset
<1>9. ASSUME NEW q \in Requests, CheckCode(q) PROVE SpentInv'
  <2>1. Idle.challenge = NoChallenge
    BY DEF Idle
  <2>2. QED
    BY <1>9, <2>1, CheckBecomes, MovedAt, SpentMoves DEF CheckCode, history
<1>10. ASSUME NEW q \in Requests, Lock(q) \/ Enable(q) \/ StatementFails(q) PROVE SpentInv'
  <2>1. Becomes(q, Idle) /\ Idle.challenge = NoChallenge /\ UNCHANGED granted
    BY <1>10, DoneBecomes DEF Lock, Enable, StatementFails, Idle
  <2>2. QED
    BY <2>1, SpentMoves
<1>11. ASSUME NEW q \in Requests, NEW k \in Challenges, GiveChallenge(q, k) PROVE SpentInv'
  <2>1. Becomes(q, Idle) /\ Idle.challenge = NoChallenge /\ UNCHANGED granted
    BY <1>11, DoneBecomes DEF GiveChallenge, history, Idle
  <2>2. QED
    BY <2>1, SpentMoves
<1>12. ASSUME NEW u \in Users, NEW s \in Secrets, SetUp(u, s) PROVE SpentInv'
  BY <1>12, SpentKept DEF SetUp, history, Carries
<1>13. ASSUME Tick \/ UNCHANGED vars PROVE SpentInv'
  BY <1>13, SpentKept DEF Tick, vars, history, Carries
<1>14. QED
  BY ONLY [Next]_vars, <1>1, <1>2, <1>3, <1>4, <1>5, <1>6, <1>7, <1>8, <1>9, <1>10, <1>11,
          <1>12, <1>13 DEF Next

-----------------------------------------------------------------------------
(* Who has MFA enabled gets no session without a challenge *)

\* A login that has read the row since MFA was enabled knows it.
GateOK(q) ==
    User(q) \in Admins /\ mfaEnabled[User(q)] /\ q \notin behindMfa =>
        /\ At(q, "reset") => request[q].mfa
        /\ At(q, "issue") => request[q].challenge # NoChallenge

GateInv == \A q \in Requests : GateOK(q)

LEMMA GateKept ==
  ASSUME GateInv, NEW p \in Requests, request'[p] = request[p],
         UNCHANGED mfaEnabled, p \in behindMfa => p \in behindMfa'
  PROVE  GateOK(p)'
BY DEF GateInv, GateOK, At, User

LEMMA GateMoves ==
  ASSUME TypeOK, GateInv, NEW q \in Requests, NEW new, Becomes(q, new), UNCHANGED mfaEnabled,
         \A p \in Requests : p # q /\ p \in behindMfa => p \in behindMfa',
         new.at # "reset", new.at # "issue"
  PROVE  GateInv'
<1>1. ASSUME NEW p \in Requests, p # q PROVE GateOK(p)'
  BY <1>1, BecomesThis, GateKept
<1>2. GateOK(q)'
  BY BecomesThis DEF GateOK, At
<1>3. QED
  BY <1>1, <1>2 DEF GateInv

LEMMA GateInvStep ==
  ASSUME TypeOK, GateInv, [Next]_vars
  PROVE  GateInv'
<1>1. ASSUME NEW q \in Requests, NEW u \in Users, Login(q, u) PROVE GateInv'
  <2>1. Becomes(q, Reading(u)) /\ Reading(u).at = "read"
    BY <1>1, BeginBecomes DEF Reading, Idle
  <2>2. QED
    BY <1>1, <2>1, GateMoves DEF Login, users, history
<1>2. ASSUME NEW q \in Requests, NEW u \in Users, NEW code \in Secrets, Confirm(q, u, code)
      PROVE  GateInv'
  <2>1. Becomes(q, Confirming(u)) /\ Confirming(u).at = "enable"
    BY <1>2, BeginBecomes DEF Confirming, Idle
  <2>2. QED
    BY <1>2, <2>1, GateMoves DEF Confirm, users, history
<1>3. ASSUME NEW q \in Requests, NEW k \in Challenges, NEW code \in Secrets, Verify(q, k, code)
      PROVE  GateInv'
  <2>1. Becomes(q, Verifying(k, code)) /\ Verifying(k, code).at = "secret"
    BY <1>3, VerifyBecomes DEF Verifying, Idle
  <2>2. QED
    BY <1>3, <2>1, GateMoves DEF Verify, users, history
<1>4. ASSUME NEW q \in Requests, WrongPassword(q) PROVE GateInv'
  <2>1. Becomes(q, Moved(q, "increment")) /\ Moved(q, "increment").at = "increment"
    BY <1>4, MovedBecomes, MovedAt DEF WrongPassword, At
  <2>2. QED
    BY <1>4, <2>1, GateMoves DEF WrongPassword, UpToDate, users
<1>5. ASSUME NEW q \in Requests, RightPassword(q) PROVE GateInv'
  <2>1. CASE Becomes(q, Idle)
    BY <1>5, <2>1, GateMoves, IdleType DEF RightPassword, UpToDate, users
  <2>2. CASE Becomes(q, Passed(q))
    <3>1. Passed(q).at = "reset" /\ Passed(q).user = User(q)
      BY DEF Passed, TypeOK, RequestType, User
    <3>2. Passed(q).mfa = mfaEnabled[User(q)]
      <4> DEFINE enabled == mfaEnabled[User(q)]
      <4> HIDE DEF enabled
      <4>1. [request[q] EXCEPT !.at = "reset", !.mfa = enabled].mfa = enabled
        BY Zenon DEF TypeOK, RequestType
      <4>2. QED
        BY <4>1 DEF Passed, enabled
    <3>3. request'[q] = Passed(q)
      BY <2>2, BecomesThis
    <3>4. mfaEnabled' = mfaEnabled /\ behindMfa' = behindMfa \ {q}
      BY <1>5 DEF RightPassword, UpToDate, users
    <3>5. GateOK(q)'
      BY <3>1, <3>2, <3>3, <3>4 DEF GateOK, At, User
    <3>6. ASSUME NEW p \in Requests, p # q PROVE GateOK(p)'
      BY <2>2, <3>4, <3>6, BecomesThis, GateKept
    <3>7. QED
      BY <3>5, <3>6 DEF GateInv
  <2>3. QED
    BY <1>5, <2>1, <2>2, PassedBecomes
<1>6. ASSUME NEW q \in Requests, RecordFailure(q) PROVE GateInv'
  <2>1. Locking(q).at = "lock" /\ Idle.at = "idle"
    BY DEF Locking, Idle, TypeOK, RequestType
  <2>2. QED
    BY <1>6, <2>1, FailureBecomes, GateMoves DEF RecordFailure, history
<1>7. ASSUME NEW q \in Requests, Reset(q) PROVE GateInv'
  <2>1. mfaEnabled' = mfaEnabled /\ behindMfa' = behindMfa
    BY <1>7 DEF Reset
  <2>2. CASE Becomes(q, Moved(q, "challenge"))
    BY <2>1, <2>2, MovedAt, GateMoves
  <2>3. CASE ~(request[q].mfa /\ User(q) \in Admins) /\ Becomes(q, Moved(q, "issue"))
    <3>1. GateOK(q) /\ At(q, "reset")
      BY <1>7 DEF GateInv, Reset
    <3>2. request'[q].user = User(q)
      BY <2>3, BecomesThis, MovedAt
    <3>3. GateOK(q)'
      BY <2>1, <2>3, <3>1, <3>2 DEF GateOK, User
    <3>4. ASSUME NEW p \in Requests, p # q PROVE GateOK(p)'
      BY <2>1, <2>3, <3>4, BecomesThis, GateKept
    <3>5. QED
      BY <3>3, <3>4 DEF GateInv
  <2>4. QED
    BY <1>7, <2>2, <2>3, ResetBecomes
<1>8. ASSUME NEW q \in Requests, CheckCode(q) PROVE GateInv'
  <2>1. mfaEnabled' = mfaEnabled /\ behindMfa' = behindMfa
    BY <1>8 DEF CheckCode, users, history
  <2>2. CASE Becomes(q, Idle)
    BY <2>1, <2>2, IdleType, GateMoves
  <2>3. CASE Becomes(q, Moved(q, "issue"))
    <3>1. request[q].challenge \in Challenges
      BY <1>8, Busy DEF CheckCode, At, RequestOK
    <3>2. request'[q].challenge # NoChallenge /\ request'[q].at = "issue"
      BY <2>3, <3>1, BecomesThis, MovedAt, TokensAssumption
    <3>3. GateOK(q)'
      BY <3>2 DEF GateOK, At
    <3>4. ASSUME NEW p \in Requests, p # q PROVE GateOK(p)'
      BY <2>1, <2>3, <3>4, BecomesThis, GateKept
    <3>5. QED
      BY <3>3, <3>4 DEF GateInv
  <2>4. QED
    BY <1>8, <2>2, <2>3, CheckBecomes
<1>9. ASSUME NEW q \in Requests, Lock(q) \/ Issue(q) \/ StatementFails(q) PROVE GateInv'
  <2>1. /\ Becomes(q, Idle) /\ Idle.at = "idle"
        /\ UNCHANGED <<mfaEnabled, behindMfa>>
    BY <1>9, DoneBecomes, IdleType DEF Lock, Issue, StatementFails, users
  <2>2. QED
    BY <2>1, GateMoves
<1>10. ASSUME NEW q \in Requests, NEW k \in Challenges, GiveChallenge(q, k) PROVE GateInv'
  BY <1>10, DoneBecomes, IdleType, GateMoves DEF GiveChallenge, users, history
<1>11. ASSUME NEW q \in Requests, Enable(q) PROVE GateInv'
  <2>1. Becomes(q, Idle)
    BY <1>11, DoneBecomes DEF Enable
  <2>2. GateOK(q)'
    BY <2>1, BecomesThis, IdleType DEF GateOK, At
  <2>3. ASSUME NEW p \in Requests, p # q PROVE GateOK(p)'
    <3>1. request'[p] = request[p]
      BY <2>1, <2>3, BecomesThis
    <3>2. CASE User(p) = User(q)
      BY <1>11, <3>2 DEF Enable, Of, GateOK
    <3>3. CASE User(p) # User(q)
      <4>1. GateOK(p) /\ (p \in behindMfa => p \in behindMfa')
        BY <1>11 DEF GateInv, Enable
      <4>2. mfaEnabled'[User(p)] = mfaEnabled[User(p)] \/ User(p) \notin Admins
        BY <1>11, <3>3, UsersAssumption DEF Enable, TypeOK
      <4>3. QED
        BY <3>1, <4>1, <4>2 DEF GateOK, At, User
    <3>4. QED
      BY <3>2, <3>3
  <2>4. QED
    BY <2>2, <2>3 DEF GateInv
<1>12. ASSUME NEW u \in Users, NEW s \in Secrets, SetUp(u, s) PROVE GateInv'
  BY <1>12, GateKept DEF SetUp, history, GateInv
<1>13. ASSUME Tick \/ UNCHANGED vars PROVE GateInv'
  BY <1>13, GateKept DEF Tick, vars, users, history, GateInv
<1>14. QED
  BY ONLY [Next]_vars, <1>1, <1>2, <1>3, <1>4, <1>5, <1>6, <1>7, <1>8, <1>9, <1>10, <1>11,
          <1>12, <1>13 DEF Next

\* A challenge is good for one session, and who has MFA enabled gets none without one.
THEOREM MfaHolds == Spec => []MfaGates
<1>1. Init => SpentInv /\ GateInv
  BY TokensAssumption DEF Init, SpentInv, SpentOK, Carries, GateInv, GateOK, At, Idle
<1>2. TypeOK /\ SpentInv /\ GateInv /\ [Next]_vars => (TypeOK /\ SpentInv /\ GateInv)'
  BY TypeStep, SpentInvStep, GateInvStep
<1>3. SpentInv /\ GateInv => MfaGates
  BY DEF SpentInv, SpentOK, GateInv, GateOK, MfaGates
<1>4. QED
  BY <1>1, <1>2, <1>3, InitType, PTL DEF Spec

-----------------------------------------------------------------------------
(* Every failure is counted *)

Pending(u) == {q \in Requests : At(q, "increment") /\ User(q) = u}

\* A wrong password is in the counter or about to be.
CountOK(u) == ~interrupted[u] => misses[u] <= failures[u] + Cardinality(Pending(u))

CountInv == \A u \in Users : CountOK(u)

LEMMA PendingFinite ==
  ASSUME NEW u
  PROVE  IsFiniteSet(Pending(u)) /\ Cardinality(Pending(u)) \in Nat
<1>1. IsFiniteSet(Pending(u))
  BY RequestsAssumption, FS_Subset DEF Pending
<1>2. QED
  BY <1>1, FS_CardinalityType

LEMMA PendingSame ==
  ASSUME TypeOK, NEW q \in Requests, NEW new, Becomes(q, new), NEW u,
         ~(At(q, "increment") /\ User(q) = u), ~(new.at = "increment" /\ new.user = u)
  PROVE  Pending(u)' = Pending(u)
BY BecomesThis DEF Pending, At, User

LEMMA PendingMore ==
  ASSUME TypeOK, NEW q \in Requests, NEW new, Becomes(q, new), NEW u,
         ~At(q, "increment"), new.at = "increment", new.user = u
  PROVE  Cardinality(Pending(u))' = Cardinality(Pending(u)) + 1
<1>1. Pending(u)' = Pending(u) \cup {q} /\ q \notin Pending(u)
  BY BecomesThis DEF Pending, At, User
<1>2. QED
  BY <1>1, PendingFinite, FS_AddElement

LEMMA PendingLess ==
  ASSUME TypeOK, NEW q \in Requests, NEW new, Becomes(q, new), NEW u,
         At(q, "increment"), User(q) = u, new.at # "increment"
  PROVE  Cardinality(Pending(u))' = Cardinality(Pending(u)) - 1
<1>1. Pending(u)' = Pending(u) \ {q} /\ q \in Pending(u)
  BY BecomesThis DEF Pending, At, User
<1>2. QED
  BY <1>1, PendingFinite, FS_RemoveElement

LEMMA CountKept ==
  ASSUME CountInv, NEW u \in Users, misses'[u] = misses[u], failures'[u] = failures[u],
         interrupted[u] => interrupted'[u], Pending(u)' = Pending(u)
  PROVE  CountOK(u)'
BY DEF CountInv, CountOK

LEMMA CountMoves ==
  ASSUME TypeOK, CountInv, NEW q \in Requests, NEW new, Becomes(q, new), ~At(q, "increment"),
         new.at # "increment", UNCHANGED <<misses, failures>>,
         \A u \in Users : interrupted[u] => interrupted'[u]
  PROVE  CountInv'
BY PendingSame, CountKept DEF CountInv

LEMMA CountInvStep ==
  ASSUME TypeOK, CountInv, [Next]_vars
  PROVE  CountInv'
<1>1. ASSUME NEW q \in Requests, NEW u \in Users, Login(q, u) PROVE CountInv'
  <2>1. Becomes(q, Reading(u)) /\ Reading(u).at = "read"
    BY <1>1, BeginBecomes DEF Reading, Idle
  <2>2. QED
    BY <1>1, <2>1, CountMoves DEF Login, Begin, At, users, history
<1>2. ASSUME NEW q \in Requests, NEW u \in Users, NEW code \in Secrets, Confirm(q, u, code)
      PROVE  CountInv'
  <2>1. Becomes(q, Confirming(u)) /\ Confirming(u).at = "enable"
    BY <1>2, BeginBecomes DEF Confirming, Idle
  <2>2. QED
    BY <1>2, <2>1, CountMoves DEF Confirm, Begin, At, users, history
<1>3. ASSUME NEW q \in Requests, NEW k \in Challenges, NEW code \in Secrets, Verify(q, k, code)
      PROVE  CountInv'
  <2>1. Becomes(q, Verifying(k, code)) /\ Verifying(k, code).at = "secret"
    BY <1>3, VerifyBecomes DEF Verifying, Idle
  <2>2. QED
    BY <1>3, <2>1, CountMoves DEF Verify, Begin, At, users, history
<1>4. ASSUME NEW q \in Requests, WrongPassword(q) PROVE CountInv'
  <2>1. /\ Becomes(q, Moved(q, "increment")) /\ Moved(q, "increment").at = "increment"
        /\ Moved(q, "increment").user = User(q) /\ User(q) \in Users /\ ~At(q, "increment")
    BY <1>4, MovedBecomes, MovedAt, Busy DEF WrongPassword, At
  <2>2. UNCHANGED <<failures, interrupted>>
    BY <1>4 DEF WrongPassword, users
  <2>3. ASSUME NEW u \in Users, u # User(q) PROVE CountOK(u)'
    <3>1. misses'[u] = misses[u]
      BY <1>4, <2>3 DEF WrongPassword, TypeOK
    <3>2. Pending(u)' = Pending(u)
      BY <2>1, <2>3, PendingSame
    <3>3. QED
      BY <2>2, <3>1, <3>2, CountKept
  <2>4. ASSUME NEW u \in Users, u = User(q) PROVE CountOK(u)'
    <3>1. misses'[u] = misses[u] + 1 /\ misses[u] \in Nat /\ failures[u] \in Nat
      BY <1>4, <2>4 DEF WrongPassword, TypeOK
    <3>2. Cardinality(Pending(u))' = Cardinality(Pending(u)) + 1
      BY <2>1, <2>4, PendingMore
    <3>3. CountOK(u) /\ Cardinality(Pending(u)) \in Nat
      BY PendingFinite DEF CountInv
    <3>4. QED
      BY ONLY <2>2, <3>1, <3>2, <3>3 DEF CountOK
  <2>5. QED
    BY <2>3, <2>4 DEF CountInv
<1>5. ASSUME NEW q \in Requests, RecordFailure(q) PROVE CountInv'
  <2>1. /\ User(q) \in Users /\ At(q, "increment")
        /\ \E new : Becomes(q, new) /\ new.at # "increment"
    <3>1. Locking(q).at = "lock" /\ Idle.at = "idle"
      BY DEF Locking, Idle, TypeOK, RequestType
    <3>2. QED
      BY <1>5, <3>1, FailureBecomes, Busy DEF RecordFailure, At
  <2>2. PICK new : Becomes(q, new) /\ new.at # "increment"
    BY <2>1
  <2>3. UNCHANGED <<misses, interrupted>>
    BY <1>5 DEF RecordFailure, history
  <2>4. ASSUME NEW u \in Users, u # User(q) PROVE CountOK(u)'
    <3>1. failures'[u] = failures[u]
      BY <1>5, <2>4 DEF RecordFailure, TypeOK
    <3>2. Pending(u)' = Pending(u)
      BY <2>2, <2>4, PendingSame
    <3>3. QED
      BY <2>3, <3>1, <3>2, CountKept
  <2>5. ASSUME NEW u \in Users, u = User(q) PROVE CountOK(u)'
    <3>1. failures'[u] = failures[u] + 1 /\ misses[u] \in Nat /\ failures[u] \in Nat
      BY <1>5, <2>5 DEF RecordFailure, TypeOK
    <3>2. Cardinality(Pending(u))' = Cardinality(Pending(u)) - 1
      BY <2>1, <2>2, <2>5, PendingLess
    <3>3. CountOK(u) /\ Cardinality(Pending(u)) \in Nat
      BY PendingFinite DEF CountInv
    <3>4. QED
      BY ONLY <2>3, <3>1, <3>2, <3>3 DEF CountOK
  <2>6. QED
    BY <2>4, <2>5 DEF CountInv
<1>6. ASSUME NEW q \in Requests, Reset(q) PROVE CountInv'
  <2>1. PICK new : Becomes(q, new) /\ new.at # "increment"
    BY <1>6, ResetBecomes, MovedAt
  <2>2. ASSUME NEW u \in Users, u # User(q) PROVE CountOK(u)'
    <3>1. /\ misses'[u] = misses[u] /\ failures'[u] = failures[u]
          /\ interrupted'[u] = interrupted[u]
      BY <1>6, <2>2 DEF Reset, TypeOK
    <3>2. Pending(u)' = Pending(u)
      BY <2>1, <2>2, PendingSame
    <3>3. QED
      BY <3>1, <3>2, CountKept
  <2>3. ASSUME NEW u \in Users, u = User(q) PROVE CountOK(u)'
    <3>1. misses'[u] = 0 /\ failures'[u] = 0
      BY <1>6, <2>3 DEF Reset, TypeOK
    <3>2. Pending(u)' = Pending(u)
      BY <1>6, <2>1, PendingSame DEF Reset, At
    <3>3. Cardinality(Pending(u)) \in Nat
      BY PendingFinite
    <3>4. QED
      BY <3>1, <3>2, <3>3 DEF CountOK
  <2>4. QED
    BY <2>2, <2>3 DEF CountInv
<1>7. ASSUME NEW q \in Requests, StatementFails(q) PROVE CountInv'
  <2>1. Becomes(q, Idle) /\ Idle.at = "idle" /\ UNCHANGED <<misses, failures>>
    BY <1>7, DoneBecomes, IdleType DEF StatementFails, users
  <2>2. ASSUME NEW u \in Users, interrupted[u] PROVE interrupted'[u]
    BY ONLY <1>7, <2>2, Zenon DEF StatementFails
  <2>3. CASE ~At(q, "increment")
    BY <2>1, <2>2, <2>3, CountMoves
  <2>4. CASE At(q, "increment")
    <3>1. ASSUME NEW u \in Users, u = User(q) PROVE CountOK(u)'
      <4>1. interrupted'[u]
        BY <1>7, <2>4, <3>1 DEF StatementFails, At
      <4>2. QED
        BY <4>1 DEF CountOK
    <3>2. ASSUME NEW u \in Users, u # User(q) PROVE CountOK(u)'
      <4>1. Pending(u)' = Pending(u)
        BY <2>1, <3>2, PendingSame
      <4>2. QED
        BY <2>1, <2>2, <4>1, CountKept
    <3>3. QED
      BY <3>1, <3>2 DEF CountInv
  <2>5. QED
    BY <2>3, <2>4
<1>8. ASSUME NEW q \in Requests, RightPassword(q) PROVE CountInv'
  <2>1. Passed(q).at = "reset" /\ Idle.at = "idle"
    BY DEF Passed, Idle, TypeOK, RequestType
  <2>2. ~At(q, "increment") /\ UNCHANGED <<misses, failures, interrupted>>
    BY <1>8 DEF RightPassword, At, users
  <2>3. QED
    BY <1>8, <2>1, <2>2, PassedBecomes, CountMoves
<1>9. ASSUME NEW q \in Requests, CheckCode(q) PROVE CountInv'
  <2>1. ~At(q, "increment") /\ UNCHANGED <<misses, failures, interrupted>>
    BY <1>9 DEF CheckCode, At, users, history
  <2>2. QED
    BY <1>9, <2>1, CheckBecomes, MovedAt, IdleType, CountMoves
<1>10. ASSUME NEW q \in Requests, Lock(q) \/ Issue(q) \/ Enable(q) PROVE CountInv'
  <2>1. /\ Becomes(q, Idle) /\ ~At(q, "increment")
        /\ UNCHANGED <<misses, failures, interrupted>>
    BY <1>10, DoneBecomes DEF Lock, Issue, Enable, At, users
  <2>2. QED
    BY <2>1, IdleType, CountMoves
<1>11. ASSUME NEW q \in Requests, NEW k \in Challenges, GiveChallenge(q, k) PROVE CountInv'
  <2>1. /\ Becomes(q, Idle) /\ ~At(q, "increment")
        /\ UNCHANGED <<misses, failures, interrupted>>
    BY <1>11, DoneBecomes DEF GiveChallenge, At, users, history
  <2>2. QED
    BY <2>1, IdleType, CountMoves
<1>12. ASSUME NEW u \in Users, NEW s \in Secrets, SetUp(u, s) PROVE CountInv'
  BY <1>12, CountKept DEF SetUp, history, CountInv, Pending, At, User
<1>13. ASSUME Tick \/ UNCHANGED vars PROVE CountInv'
  BY <1>13, CountKept DEF Tick, vars, users, history, CountInv, Pending, At, User
<1>14. QED
  BY ONLY [Next]_vars, <1>1, <1>2, <1>3, <1>4, <1>5, <1>6, <1>7, <1>8, <1>9, <1>10, <1>11,
          <1>12, <1>13 DEF Next

\* A counter at the limit has written a lock, or a request is about to write it.
RecordedOK(u) ==
    failures[u] >= MaxFailures =>
        locked[u] \/ interrupted[u] \/ \E q \in Requests : At(q, "lock") /\ User(q) = u

RecordedInv == \A u \in Users : RecordedOK(u)

LEMMA RecordedKept ==
  ASSUME RecordedInv, NEW u \in Users, failures'[u] = failures[u],
         locked[u] \/ interrupted[u] => locked'[u] \/ interrupted'[u],
         \A q \in Requests : At(q, "lock") /\ User(q) = u => request'[q] = request[q]
  PROVE  RecordedOK(u)'
<1>1. RecordedOK(u)
  BY DEF RecordedInv
<1>2. CASE \E q \in Requests : At(q, "lock") /\ User(q) = u
  BY <1>2 DEF RecordedOK, At, User
<1>3. QED
  BY <1>1, <1>2 DEF RecordedOK

LEMMA RecordedMoves ==
  ASSUME TypeOK, RecordedInv, NEW q \in Requests, NEW new, Becomes(q, new), ~At(q, "lock"),
         UNCHANGED <<failures, locked, interrupted>>
  PROVE  RecordedInv'
BY BecomesThis, RecordedKept DEF RecordedInv

LEMMA RecordedInvStep ==
  ASSUME TypeOK, RecordedInv, [Next]_vars
  PROVE  RecordedInv'
<1>1. ASSUME NEW q \in Requests, NEW u \in Users, Login(q, u) PROVE RecordedInv'
  BY <1>1, BeginBecomes, RecordedMoves DEF Login, Begin, At, users, history
<1>2. ASSUME NEW q \in Requests, NEW u \in Users, NEW code \in Secrets, Confirm(q, u, code)
      PROVE  RecordedInv'
  BY <1>2, BeginBecomes, RecordedMoves DEF Confirm, Begin, At, users, history
<1>3. ASSUME NEW q \in Requests, NEW k \in Challenges, NEW code \in Secrets, Verify(q, k, code)
      PROVE  RecordedInv'
  BY <1>3, VerifyBecomes, RecordedMoves DEF Verify, Begin, At, users, history
<1>4. ASSUME NEW q \in Requests, WrongPassword(q) PROVE RecordedInv'
  BY <1>4, MovedBecomes, RecordedMoves DEF WrongPassword, At, users
<1>5. ASSUME NEW q \in Requests, RightPassword(q) PROVE RecordedInv'
  <2>1. ~At(q, "lock") /\ UNCHANGED <<failures, locked, interrupted>>
    BY <1>5 DEF RightPassword, At, users
  <2>2. QED
    BY <1>5, <2>1, PassedBecomes, RecordedMoves
<1>6. ASSUME NEW q \in Requests, RecordFailure(q) PROVE RecordedInv'
  <2>1. UNCHANGED <<locked, interrupted>> /\ At(q, "increment") /\ User(q) \in Users
    BY <1>6, Busy DEF RecordFailure, history, At
  <2>2. ASSUME NEW p \in Requests, At(p, "lock") PROVE request'[p] = request[p]
    <3>1. p # q
      BY <2>1, <2>2 DEF At
    <3>2. QED
      BY <1>6, <3>1, FailureBecomes, BecomesThis
  <2>3. ASSUME NEW u \in Users, u # User(q) PROVE RecordedOK(u)'
    <3>1. failures'[u] = failures[u]
      BY <1>6, <2>3 DEF RecordFailure, TypeOK
    <3>2. QED
      BY <2>1, <2>2, <3>1, RecordedKept
  <2>4. ASSUME NEW u \in Users, u = User(q) PROVE RecordedOK(u)'
    <3>1. failures'[u] = failures[u] + 1
      BY <1>6, <2>4 DEF RecordFailure, TypeOK
    <3>2. CASE Becomes(q, Locking(q))
      <4>1. Locking(q).at = "lock" /\ Locking(q).user = User(q)
        BY DEF Locking, TypeOK, RequestType, User
      <4>2. At(q, "lock")' /\ User(q)' = u
        BY <2>4, <3>2, <4>1, BecomesThis DEF At, User
      <4>3. QED
        BY <4>2 DEF RecordedOK
    <3>3. CASE ~(failures[User(q)] + 1 >= MaxFailures)
      BY <2>4, <3>1, <3>3 DEF RecordedOK
    <3>4. QED
      BY <1>6, <3>2, <3>3, FailureBecomes
  <2>5. QED
    BY <2>3, <2>4 DEF RecordedInv
<1>7. ASSUME NEW q \in Requests, Lock(q) PROVE RecordedInv'
  <2>1. Becomes(q, Idle) /\ UNCHANGED <<failures, interrupted>>
    BY <1>7, DoneBecomes DEF Lock
  <2>2. ASSUME NEW u \in Users, u = User(q) PROVE RecordedOK(u)'
    <3>1. locked'[u]
      BY <1>7, <2>2 DEF Lock, TypeOK
    <3>2. QED
      BY <3>1 DEF RecordedOK
  <2>3. ASSUME NEW u \in Users, u # User(q) PROVE RecordedOK(u)'
    <3>1. locked'[u] = locked[u]
      BY <1>7, <2>3 DEF Lock, TypeOK
    <3>2. \A p \in Requests : At(p, "lock") /\ User(p) = u => request'[p] = request[p]
      BY <2>1, <2>3, BecomesThis
    <3>3. QED
      BY <2>1, <3>1, <3>2, RecordedKept
  <2>4. QED
    BY <2>2, <2>3 DEF RecordedInv
<1>8. ASSUME NEW q \in Requests, Reset(q) PROVE RecordedInv'
  <2>1. ASSUME NEW p \in Requests, At(p, "lock") PROVE request'[p] = request[p]
    <3>1. p # q
      BY <1>8, <2>1 DEF Reset, At
    <3>2. QED
      BY <1>8, <3>1, ResetBecomes, BecomesThis
  <2>2. ASSUME NEW u \in Users, u = User(q) PROVE RecordedOK(u)'
    <3>1. failures'[u] = 0
      BY <1>8, <2>2 DEF Reset, TypeOK
    <3>2. QED
      BY <3>1, LimitsAssumption DEF RecordedOK
  <2>3. ASSUME NEW u \in Users, u # User(q) PROVE RecordedOK(u)'
    <3>1. /\ failures'[u] = failures[u] /\ locked'[u] = locked[u]
          /\ interrupted'[u] = interrupted[u]
      BY <1>8, <2>3 DEF Reset, TypeOK
    <3>2. QED
      BY <2>1, <3>1, RecordedKept
  <2>4. QED
    BY <2>2, <2>3 DEF RecordedInv
<1>9. ASSUME NEW q \in Requests, StatementFails(q) PROVE RecordedInv'
  <2>1. Becomes(q, Idle) /\ UNCHANGED <<failures, locked>>
    BY <1>9, DoneBecomes DEF StatementFails, users
  <2>2. ASSUME NEW u \in Users, interrupted[u] PROVE interrupted'[u]
    BY ONLY <1>9, <2>2, Zenon DEF StatementFails
  <2>3. ASSUME NEW u \in Users, u = User(q), At(q, "lock") PROVE RecordedOK(u)'
    <3>1. interrupted'[u]
      BY <1>9, <2>3 DEF StatementFails, At
    <3>2. QED
      BY <3>1 DEF RecordedOK
  <2>4. ASSUME NEW u \in Users, ~(u = User(q) /\ At(q, "lock")) PROVE RecordedOK(u)'
    <3>1. \A p \in Requests : At(p, "lock") /\ User(p) = u => request'[p] = request[p]
      BY <2>1, <2>4, BecomesThis
    <3>2. QED
      BY <2>1, <2>2, <3>1, RecordedKept
  <2>5. QED
    BY <2>3, <2>4 DEF RecordedInv
<1>10. ASSUME NEW q \in Requests, CheckCode(q) PROVE RecordedInv'
  BY <1>10, CheckBecomes, RecordedMoves DEF CheckCode, At, users, history
<1>11. ASSUME NEW q \in Requests, Issue(q) \/ Enable(q) PROVE RecordedInv'
  BY <1>11, DoneBecomes, RecordedMoves DEF Issue, Enable, At, users
<1>12. ASSUME NEW q \in Requests, NEW k \in Challenges, GiveChallenge(q, k) PROVE RecordedInv'
  BY <1>12, DoneBecomes, RecordedMoves DEF GiveChallenge, At, users, history
<1>13. ASSUME NEW u \in Users, NEW s \in Secrets, SetUp(u, s) PROVE RecordedInv'
  BY <1>13, RecordedKept DEF SetUp, history, RecordedInv
<1>14. ASSUME Tick \/ UNCHANGED vars PROVE RecordedInv'
  BY <1>14, RecordedKept DEF Tick, vars, users, history, RecordedInv
<1>15. QED
  BY ONLY [Next]_vars, <1>1, <1>2, <1>3, <1>4, <1>5, <1>6, <1>7, <1>8, <1>9, <1>10, <1>11,
          <1>12, <1>13, <1>14 DEF Next

LEMMA FailuresAreCounted == TypeOK /\ CountInv /\ RecordedInv => FailuresLock
<1> SUFFICES ASSUME TypeOK, CountInv, RecordedInv, NEW u \in Users, misses[u] >= MaxFailures,
                    ~locked[u], ~interrupted[u],
                    \A q \in Of(u) : ~At(q, "increment") /\ ~At(q, "lock")
             PROVE  FALSE
  BY DEF FailuresLock, At
<1>1. Pending(u) = {}
  BY DEF Pending, Of
<1>2. Cardinality(Pending(u)) = 0
  BY <1>1, FS_EmptySet
<1>3. misses[u] \in Nat /\ failures[u] \in Nat /\ MaxFailures \in Nat
  BY LimitsAssumption DEF TypeOK
<1>4. misses[u] <= failures[u]
  BY <1>2, <1>3 DEF CountInv, CountOK
<1>5. failures[u] >= MaxFailures
  BY <1>3, <1>4
<1>6. QED
  BY <1>5 DEF RecordedInv, RecordedOK, Of

\* However requests interleave, MaxFailures wrong passwords lock the account.
THEOREM FailuresAlwaysLock == Spec => []FailuresLock
<1>1. Init => CountInv /\ RecordedInv
  <2>1. ASSUME Init, NEW u \in Users PROVE CountOK(u) /\ RecordedOK(u)
    <3>1. misses[u] = 0 /\ failures[u] = 0 /\ Cardinality(Pending(u)) \in Nat
      BY <2>1, PendingFinite DEF Init
    <3>2. QED
      BY <3>1, LimitsAssumption DEF CountOK, RecordedOK
  <2>2. QED
    BY <2>1 DEF CountInv, RecordedInv
<1>2. TypeOK /\ CountInv /\ RecordedInv /\ [Next]_vars => (TypeOK /\ CountInv /\ RecordedInv)'
  BY TypeStep, CountInvStep, RecordedInvStep
<1>3. QED
  BY <1>1, <1>2, InitType, FailuresAreCounted, PTL DEF Spec
=============================================================================
