------------------------------- MODULE BullMQ -------------------------------
(***************************************************************************)
(* The job queue "lm:writing:eval", as the Python service uses it.         *)
(*                                                                         *)
(* BullMQ is a library outside the repository: this module is the contract *)
(* that ai-service/app/queue relies on.  A job carries one session id and  *)
(* add() is called once per session, so a job is named by its session.     *)
(*                                                                         *)
(*   waiting    in the wait list, or delayed by the backoff of a retry     *)
(*   active     handed to a slot of the worker; `holder' is the slot whose *)
(*              token is on the job's lock, NoSlot once that lock is gone  *)
(*   completed, failed   final                                             *)
(*                                                                         *)
(* A lock that is not renewed expires; the stalled check then gives the    *)
(* job to another slot, while the first execution may still be running.    *)
(***************************************************************************)
EXTENDS Naturals

CONSTANTS
  Sessions,              \* writing sessions, and the jobs named after them
  Slots,                 \* concurrent executions of the worker
  NoSlot,
  Attempts,              \* "attempts" of WRITING_EVAL_JOB_OPTIONS
  MaxStalled,            \* deliveries after a stall before BullMQ gives up
  HonoursUnrecoverable,  \* does BullMQ treat the local class as its own?
  MaxLockLosses          \* bound: locks lost while the execution runs on

ASSUME SlotAssumption == NoSlot \notin Slots
ASSUME QueueAssumption ==
  /\ Attempts \in Nat \ {0}
  /\ MaxStalled \in Nat
  /\ MaxLockLosses \in Nat
  /\ HonoursUnrecoverable \in BOOLEAN

VARIABLES
  qstate,      \* state of each job
  attempts,    \* attemptsMade of each job
  stalls,      \* how often the stalled check took the job back
  holder,      \* slot holding the lock of the job, or NoSlot
  lockLosses   \* locks lost so far

queueVars == <<qstate, attempts, stalls, holder, lockLosses>>

QueueTypeOK ==
  /\ qstate \in [Sessions -> {"none", "waiting", "active", "completed", "failed"}]
  /\ attempts \in [Sessions -> Nat]
  /\ stalls \in [Sessions -> Nat]
  /\ holder \in [Sessions -> Slots \cup {NoSlot}]
  /\ lockLosses \in 0 .. MaxLockLosses

QueueInit ==
  /\ qstate = [s \in Sessions |-> "none"]
  /\ attempts = [s \in Sessions |-> 0]
  /\ stalls = [s \in Sessions |-> 0]
  /\ holder = [s \in Sessions |-> NoSlot]
  /\ lockLosses = 0

-----------------------------------------------------------------------------
\* Queue.add(name, {session_id}, options).
Add(s) ==
  /\ qstate[s] = "none"
  /\ qstate' = [qstate EXCEPT ![s] = "waiting"]
  /\ UNCHANGED <<attempts, stalls, holder, lockLosses>>

\* A free slot takes a job and its lock.
Take(s, x) ==
  /\ qstate[s] = "waiting"
  /\ qstate' = [qstate EXCEPT ![s] = "active"]
  /\ holder' = [holder EXCEPT ![s] = x]
  /\ UNCHANGED <<attempts, stalls, lockLosses>>

\* moveToCompleted: refused unless the slot still holds the lock.
Complete(s, x) ==
  IF holder[s] = x
  THEN /\ qstate' = [qstate EXCEPT ![s] = "completed"]
       /\ holder' = [holder EXCEPT ![s] = NoSlot]
       /\ UNCHANGED <<attempts, stalls, lockLosses>>
  ELSE UNCHANGED queueVars

\* Does a failed execution leave the job another attempt?
MayRetry(s, unrecoverable) ==
  /\ attempts[s] + 1 < Attempts
  /\ ~(unrecoverable /\ HonoursUnrecoverable)

\* moveToFailed: refused unless the slot still holds the lock.
Fail(s, x, unrecoverable) ==
  IF holder[s] = x
  THEN /\ attempts' = [attempts EXCEPT ![s] = @ + 1]
       /\ qstate' = [qstate EXCEPT ![s] =
                       IF MayRetry(s, unrecoverable) THEN "waiting" ELSE "failed"]
       /\ holder' = [holder EXCEPT ![s] = NoSlot]
       /\ UNCHANGED <<stalls, lockLosses>>
  ELSE UNCHANGED queueVars

\* The lock of a running execution expires: its event loop was blocked for
\* longer than lockDuration, or Redis was out of reach.
LoseLock(s) ==
  /\ lockLosses < MaxLockLosses
  /\ holder[s] # NoSlot
  /\ holder' = [holder EXCEPT ![s] = NoSlot]
  /\ lockLosses' = lockLosses + 1
  /\ UNCHANGED <<qstate, attempts, stalls>>

\* The stalled check finds an active job without a lock.  Giving up leaves
\* attemptsMade as it is.
Reclaim(s) ==
  /\ qstate[s] = "active"
  /\ holder[s] = NoSlot
  /\ IF stalls[s] < MaxStalled
     THEN /\ qstate' = [qstate EXCEPT ![s] = "waiting"]
          /\ stalls' = [stalls EXCEPT ![s] = @ + 1]
     ELSE /\ qstate' = [qstate EXCEPT ![s] = "failed"]
          /\ UNCHANGED stalls
  /\ UNCHANGED <<attempts, holder, lockLosses>>

\* The worker's process dies: nothing renews its locks any more.
DropLocks ==
  /\ holder' = [s \in Sessions |-> NoSlot]
  /\ UNCHANGED <<qstate, attempts, stalls, lockLosses>>
=============================================================================
