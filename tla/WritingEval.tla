---------------------------- MODULE WritingEval ----------------------------
(***************************************************************************)
(* The writing evaluation pipeline: POST /writing/evaluate, the queue, the *)
(* worker that scores an essay, and what the worker does when it fails.    *)
(*                                                                         *)
(* API and worker share one process.  Between two awaits nothing else      *)
(* runs, so an action is the code from one database, Redis or AI call up   *)
(* to the next.  Each statement commits on its own: the worker opens no    *)
(* transaction.  PostgreSQL survives a crash of the process, and so does   *)
(* the queue in Redis; executions, requests and tasks do not.              *)
(***************************************************************************)
EXTENDS BullMQ, Sequences, FiniteSets

CONSTANTS
  Users,
  Owner,         \* Owner[s]: the learner who submits session s
  FreeUsers,     \* learners whose access token says tier "free"
  MonthlyLimit,  \* FREE_TIER_MONTHLY_LIMIT
  NoSession,
  MaxInFlight,   \* bound: submissions of one learner in progress at once
  MaxCrashes,    \* bound: crashes of the process
  MaxIoErrors    \* bound: failed database or Redis calls

ASSUME PipelineAssumption ==
  /\ Owner \in [Sessions -> Users]
  /\ FreeUsers \subseteq Users
  /\ NoSession \notin Sessions
  /\ MonthlyLimit \in Nat /\ MaxInFlight \in Nat \ {0}
  /\ MaxCrashes \in Nat /\ MaxIoErrors \in Nat

VARIABLES
  request,   \* progress of the POST that creates each session
  status,    \* writing_sessions.status, "none" while there is no row
  result,    \* writing_sessions.ai_model_run_id with its scores, 0 for NULL
  runs,      \* number of ai_model_runs rows written for each session
  vector,    \* skill_vectors: the sessions whose scores are folded in, in order
  version,   \* skill_vectors.version
  snapshots, \* readiness_snapshots of each learner, oldest first
  pc,        \* next step of each execution of process()
  local,     \* local variables of each execution
  failTasks, \* sessions with a _mark_session_failed task outstanding
  dlqTasks,  \* sessions with a _route_to_dlq task outstanding
  dlq,       \* sessions in the dead letter queue
  crashes,
  ioErrors

sessionVars == <<status, result, runs>>
learnerVars == <<vector, version, snapshots>>
taskVars == <<failTasks, dlqTasks, dlq>>
faultVars == <<crashes, ioErrors>>
vars == <<queueVars, request, sessionVars, learnerVars, pc, local, taskVars, faultVars>>

Blank == [job |-> NoSession, seen |-> <<>>, base |-> <<>>, ver |-> 0, run |-> 0]

Locals == [job : Sessions \cup {NoSession}, seen : Seq(Sessions),
           base : Seq(Sessions), ver : Nat, run : Nat]

\* The next statement of an execution; "raise" and "unrecoverable" are the
\* exception on its way to BullMQ.
DatabaseSteps ==
  {"mark", "fetch", "reset", "run", "score", "readVector", "writeVector",
   "readSnapshot", "writeSnapshot", "return"}
Steps == DatabaseSteps \cup {"idle", "provider", "raise", "unrecoverable"}

SessionTypeOK ==
  /\ request \in [Sessions -> {"idle", "admitted", "inserted", "answered", "refused", "aborted"}]
  /\ status \in [Sessions -> {"none", "pending", "processing", "scored", "failed"}]
  /\ result \in [Sessions -> Nat]
  /\ runs \in [Sessions -> Nat]

Snapshot == [of : Sessions, shows : Seq(Sessions)]

LearnerTypeOK ==
  /\ vector \in [Users -> Seq(Sessions)]
  /\ version \in [Users -> Nat]
  /\ snapshots \in [Users -> Seq(Snapshot)]

\* An execution that is under way has a session.
WorkerTypeOK ==
  /\ pc \in [Slots -> Steps]
  /\ local \in [Slots -> Locals]
  /\ \A x \in Slots : pc[x] # "idle" => local[x].job \in Sessions

FaultTypeOK ==
  /\ failTasks \subseteq Sessions /\ dlqTasks \subseteq Sessions /\ dlq \subseteq Sessions
  /\ crashes \in 0 .. MaxCrashes
  /\ ioErrors \in 0 .. MaxIoErrors

TypeOK == QueueTypeOK /\ SessionTypeOK /\ LearnerTypeOK /\ WorkerTypeOK /\ FaultTypeOK

Init ==
  /\ QueueInit
  /\ request = [s \in Sessions |-> "idle"]
  /\ status = [s \in Sessions |-> "none"]
  /\ result = [s \in Sessions |-> 0]
  /\ runs = [s \in Sessions |-> 0]
  /\ vector = [u \in Users |-> <<>>]
  /\ version = [u \in Users |-> 0]
  /\ snapshots = [u \in Users |-> <<>>]
  /\ pc = [x \in Slots |-> "idle"]
  /\ local = [x \in Slots |-> Blank]
  /\ failTasks = {} /\ dlqTasks = {} /\ dlq = {}
  /\ crashes = 0 /\ ioErrors = 0

-----------------------------------------------------------------------------
(* POST /api/v1/writing/evaluate *)

SessionsOf(u) == {s \in Sessions : Owner[s] = u}

\* What the COUNT of _check_free_tier_limit counts.
Counted(u) == {s \in SessionsOf(u) : status[s] \notin {"none", "failed"}}

InFlight(u) == {s \in SessionsOf(u) : request[s] \in {"admitted", "inserted"}}

\* mutant: the comparison lets one more through
WithinLimit_OffByOne(u) == u \in FreeUsers => Cardinality(Counted(u)) <= MonthlyLimit

WithinLimit(u) == u \in FreeUsers => Cardinality(Counted(u)) < MonthlyLimit

\* The checks pass; the handler awaits its INSERT.
Admit(s) ==
  /\ request[s] = "idle"
  /\ Cardinality(InFlight(Owner[s])) < MaxInFlight
  /\ WithinLimit(Owner[s])
  /\ request' = [request EXCEPT ![s] = "admitted"]
  /\ UNCHANGED <<queueVars, sessionVars, learnerVars, pc, local, taskVars, faultVars>>

\* The essay is too short, or the learner is at the limit.
Refuse(s) ==
  /\ request[s] = "idle"
  /\ request' = [request EXCEPT ![s] = "refused"]
  /\ UNCHANGED <<queueVars, sessionVars, learnerVars, pc, local, taskVars, faultVars>>

InsertSession(s) ==
  /\ request[s] = "admitted"
  /\ request' = [request EXCEPT ![s] = "inserted"]
  /\ status' = [status EXCEPT ![s] = "pending"]
  /\ UNCHANGED <<queueVars, result, runs, learnerVars, pc, local, taskVars, faultVars>>

Enqueue(s) ==
  /\ request[s] = "inserted"
  /\ request' = [request EXCEPT ![s] = "answered"]
  /\ Add(s)
  /\ UNCHANGED <<sessionVars, learnerVars, pc, local, taskVars, faultVars>>

\* The INSERT or the add() fails: the client gets an error, a row stays.
RequestError(s) ==
  /\ request[s] \in {"admitted", "inserted"}
  /\ ioErrors < MaxIoErrors
  /\ ioErrors' = ioErrors + 1
  /\ request' = [request EXCEPT ![s] = "aborted"]
  /\ UNCHANGED <<queueVars, sessionVars, learnerVars, pc, local, taskVars, crashes>>

-----------------------------------------------------------------------------
(* process() of the worker *)

Goto(x, step) == pc' = [pc EXCEPT ![x] = step]

\* The execution ends and its slot is free again.
Release(x) ==
  /\ Goto(x, "idle")
  /\ local' = [local EXCEPT ![x] = Blank]

Session(x) == local[x].job
Learner(x) == Owner[local[x].job]

\* mutant: the job arrives without its data
Start_WithoutPayload(x, s) ==
  /\ pc[x] = "idle"
  /\ Take(s, x)
  /\ Goto(x, "mark")
  /\ UNCHANGED <<request, sessionVars, learnerVars, local, taskVars, faultVars>>

Start(x, s) ==
  /\ pc[x] = "idle"
  /\ Take(s, x)
  /\ Goto(x, "mark")
  /\ local' = [local EXCEPT ![x].job = s]
  /\ UNCHANGED <<request, sessionVars, learnerVars, taskVars, faultVars>>

\* UPDATE ... SET status = 'processing' WHERE status = 'pending'; the number
\* of rows it changed is not looked at.
MarkProcessing(x) ==
  /\ pc[x] = "mark"
  /\ status' = [status EXCEPT ![Session(x)] = IF @ = "pending" THEN "processing" ELSE @]
  /\ Goto(x, "fetch")
  /\ UNCHANGED <<queueVars, request, result, runs, learnerVars, local, taskVars, faultVars>>

\* mutant: the duplicate check is missing
AlreadyScored_Never(s) == FALSE

AlreadyScored(s) == status[s] = "scored"

\* One SELECT reads the session with the learner's skill vector.
FetchSession(x) ==
  /\ pc[x] = "fetch"
  /\ IF AlreadyScored(Session(x))
     THEN /\ Goto(x, "unrecoverable")
          /\ UNCHANGED local
     ELSE /\ Goto(x, "provider")
          /\ local' = [local EXCEPT ![x].seen = vector[Learner(x)]]
  /\ UNCHANGED <<queueVars, request, sessionVars, learnerVars, taskVars, faultVars>>

\* The AI provider answers, answers with an invalid schema (ValueError), or
\* fails.
CallProvider(x) ==
  /\ pc[x] = "provider"
  /\ \E next \in {"run", "unrecoverable", "reset"} : Goto(x, next)
  /\ UNCHANGED <<queueVars, request, sessionVars, learnerVars, local, taskVars, faultVars>>

\* mutant: the handler tries again itself instead of raising
ResetSession_RetriesInPlace(x) ==
  /\ pc[x] = "reset"
  /\ status' = [status EXCEPT ![Session(x)] = "pending"]
  /\ Goto(x, "mark")
  /\ UNCHANGED <<queueVars, request, result, runs, learnerVars, local, taskVars, faultVars>>

\* mutant: the exception is swallowed
ResetSession_Swallows(x) ==
  /\ pc[x] = "reset"
  /\ status' = [status EXCEPT ![Session(x)] = "pending"]
  /\ Goto(x, "return")
  /\ UNCHANGED <<queueVars, request, result, runs, learnerVars, local, taskVars, faultVars>>

\* The provider failed: the session goes back to 'pending', whatever it is.
ResetSession(x) ==
  /\ pc[x] = "reset"
  /\ status' = [status EXCEPT ![Session(x)] = "pending"]
  /\ Goto(x, "raise")
  /\ UNCHANGED <<queueVars, request, result, runs, learnerVars, local, taskVars, faultVars>>

\* mutant: the run is numbered but its INSERT is lost
CreateRun_NotStored(x) ==
  /\ pc[x] = "run"
  /\ local' = [local EXCEPT ![x].run = runs[Session(x)] + 1]
  /\ Goto(x, "score")
  /\ UNCHANGED <<queueVars, request, sessionVars, learnerVars, taskVars, faultVars>>

CreateRun(x) ==
  /\ pc[x] = "run"
  /\ runs' = [runs EXCEPT ![Session(x)] = @ + 1]
  /\ local' = [local EXCEPT ![x].run = runs[Session(x)] + 1]
  /\ Goto(x, "score")
  /\ UNCHANGED <<queueVars, request, status, result, learnerVars, taskVars, faultVars>>

ScoreSession(x) ==
  /\ pc[x] = "score"
  /\ status' = [status EXCEPT ![Session(x)] = "scored"]
  /\ result' = [result EXCEPT ![Session(x)] = local[x].run]
  /\ Goto(x, "readVector")
  /\ UNCHANGED <<queueVars, request, runs, learnerVars, local, taskVars, faultVars>>

\* update_skill_vector: the SELECT ...
ReadVector(x) ==
  /\ pc[x] = "readVector"
  /\ local' = [local EXCEPT ![x].base = vector[Learner(x)], ![x].ver = version[Learner(x)]]
  /\ Goto(x, "writeVector")
  /\ UNCHANGED <<queueVars, request, sessionVars, learnerVars, taskVars, faultVars>>

\* mutant: UPDATE without AND version = $7
VersionMatches_Always(x) == TRUE

VersionMatches(x) == version[Learner(x)] = local[x].ver

\* mutant: version = version + 1 is missing from the UPDATE
WriteVector_KeepsVersion(x) ==
  /\ pc[x] = "writeVector"
  /\ IF VersionMatches(x)
     THEN vector' = [vector EXCEPT ![Learner(x)] = Append(local[x].base, Session(x))]
     ELSE UNCHANGED vector
  /\ Goto(x, "readSnapshot")
  /\ UNCHANGED <<queueVars, request, sessionVars, version, snapshots, local, taskVars, faultVars>>

\* ... and the UPDATE, which is skipped if the version has moved on.
WriteVector(x) ==
  /\ pc[x] = "writeVector"
  /\ IF VersionMatches(x)
     THEN /\ vector' = [vector EXCEPT ![Learner(x)] = Append(local[x].base, Session(x))]
          /\ version' = [version EXCEPT ![Learner(x)] = @ + 1]
     ELSE UNCHANGED <<vector, version>>
  /\ Goto(x, "readSnapshot")
  /\ UNCHANGED <<queueVars, request, sessionVars, snapshots, local, taskVars, faultVars>>

\* The latest snapshot is read, for the difference to it ...
ReadSnapshot(x) ==
  /\ pc[x] = "readSnapshot"
  /\ Goto(x, "writeSnapshot")
  /\ UNCHANGED <<queueVars, request, sessionVars, learnerVars, local, taskVars, faultVars>>

\* ... and the new one shows the vector fetched before the essay was scored.
WriteSnapshot(x) ==
  /\ pc[x] = "writeSnapshot"
  /\ snapshots' = [snapshots EXCEPT ![Learner(x)] =
       Append(@, [of |-> Session(x), shows |-> local[x].seen])]
  /\ Goto(x, "return")
  /\ UNCHANGED <<queueVars, request, sessionVars, vector, version, local, taskVars, faultVars>>

Return(x) ==
  /\ pc[x] = "return"
  /\ Complete(Session(x), x)
  /\ Release(x)
  /\ UNCHANGED <<request, sessionVars, learnerVars, taskVars, faultVars>>

\* mutant: the threshold of on_failed is one attempt too low
Exhausted_OneEarly(s, x) == holder[s] = x /\ attempts[s] + 2 >= Attempts

\* mutant: the threshold of on_failed is one attempt too high
Exhausted_OneLate(s, x) == holder[s] = x /\ attempts[s] >= Attempts

\* on_failed runs, and sees attemptsMade >= 3.
Exhausted(s, x) == holder[s] = x /\ attempts[s] + 1 >= Attempts

\* The exception reaches BullMQ, and the "failed" event on_failed.
Raise(x) ==
  /\ pc[x] \in {"raise", "unrecoverable"}
  /\ Fail(Session(x), x, pc[x] = "unrecoverable")
  /\ IF Exhausted(Session(x), x)
     THEN /\ failTasks' = failTasks \cup {Session(x)}
          /\ dlqTasks' = dlqTasks \cup {Session(x)}
     ELSE UNCHANGED <<failTasks, dlqTasks>>
  /\ Release(x)
  /\ UNCHANGED <<request, sessionVars, learnerVars, dlq, faultVars>>

\* A statement fails, or the connection cannot be taken or given back.
DatabaseError(x) ==
  /\ pc[x] \in DatabaseSteps
  /\ ioErrors < MaxIoErrors
  /\ ioErrors' = ioErrors + 1
  /\ Goto(x, "raise")
  /\ UNCHANGED <<queueVars, request, sessionVars, learnerVars, local, taskVars, crashes>>

-----------------------------------------------------------------------------
(* Tasks started by on_failed; both swallow their errors *)

MarkFailed(s) ==
  /\ s \in failTasks
  /\ failTasks' = failTasks \ {s}
  /\ status' = [status EXCEPT ![s] = "failed"]
  /\ UNCHANGED <<queueVars, request, result, runs, learnerVars, pc, local, dlqTasks, dlq, faultVars>>

RouteToDlq(s) ==
  /\ s \in dlqTasks
  /\ dlqTasks' = dlqTasks \ {s}
  /\ dlq' = dlq \cup {s}
  /\ UNCHANGED <<queueVars, request, sessionVars, learnerVars, pc, local, failTasks, faultVars>>

TaskError(s) ==
  /\ ioErrors < MaxIoErrors
  /\ ioErrors' = ioErrors + 1
  /\ \/ s \in failTasks /\ failTasks' = failTasks \ {s} /\ UNCHANGED dlqTasks
     \/ s \in dlqTasks /\ dlqTasks' = dlqTasks \ {s} /\ UNCHANGED failTasks
  /\ UNCHANGED <<queueVars, request, sessionVars, learnerVars, pc, local, dlq, crashes>>

-----------------------------------------------------------------------------
(* Faults of the environment *)

LockExpires(s) ==
  /\ LoseLock(s)
  /\ UNCHANGED <<request, sessionVars, learnerVars, pc, local, taskVars, faultVars>>

StalledCheck(s) ==
  /\ Reclaim(s)
  /\ UNCHANGED <<request, sessionVars, learnerVars, pc, local, taskVars, faultVars>>

\* The process dies and is started again.
Crash ==
  /\ crashes < MaxCrashes
  /\ crashes' = crashes + 1
  /\ DropLocks
  /\ request' = [s \in Sessions |->
       IF request[s] \in {"admitted", "inserted"} THEN "aborted" ELSE request[s]]
  /\ pc' = [x \in Slots |-> "idle"]
  /\ local' = [x \in Slots |-> Blank]
  /\ failTasks' = {} /\ dlqTasks' = {}
  /\ UNCHANGED <<sessionVars, learnerVars, dlq, ioErrors>>

-----------------------------------------------------------------------------
Handle(s) == Admit(s) \/ Refuse(s) \/ InsertSession(s) \/ Enqueue(s)

Execute(x) ==
  \/ MarkProcessing(x) \/ FetchSession(x) \/ CallProvider(x) \/ ResetSession(x)
  \/ CreateRun(x) \/ ScoreSession(x) \/ ReadVector(x) \/ WriteVector(x)
  \/ ReadSnapshot(x) \/ WriteSnapshot(x) \/ Return(x) \/ Raise(x)

Fault ==
  \/ \E s \in Sessions : RequestError(s) \/ TaskError(s) \/ LockExpires(s)
  \/ \E x \in Slots : DatabaseError(x)
  \/ Crash

Next ==
  \/ \E s \in Sessions : Handle(s) \/ MarkFailed(s) \/ RouteToDlq(s) \/ StalledCheck(s)
  \/ \E x \in Slots : Execute(x) \/ \E s \in Sessions : Start(x, s)
  \/ Fault

Spec == Init /\ [][Next]_vars

\* Requests, executions and tasks that are started go on, the stalled check
\* is periodic, and a free slot takes a waiting job.  No fault has to happen.
Fairness ==
  /\ \A s \in Sessions :
       /\ WF_vars(InsertSession(s) \/ Enqueue(s))
       /\ WF_vars(MarkFailed(s)) /\ WF_vars(RouteToDlq(s)) /\ WF_vars(StalledCheck(s))
  /\ \A x \in Slots :
       /\ WF_vars(Execute(x))
       /\ WF_vars(\E s \in Sessions : Start(x, s))

FairSpec == Spec /\ Fairness

-----------------------------------------------------------------------------
(* Properties under every fault *)

Occurrences(seq, s) == Cardinality({i \in DOMAIN seq : seq[i] = s})

\* A score shown to a learner was recorded in ai_model_runs before, and so
\* was each evaluation that moved a skill vector (003_core_platform_schema.sql:
\* "no evaluation result exists without a traceable AI execution record").
Traceable ==
  /\ \A s \in Sessions : status[s] = "scored" => result[s] \in 1 .. runs[s]
  /\ \A s \in Sessions : Occurrences(vector[Owner[s]], s) <= runs[s]

\* Of evaluations that finish together none overwrites another's update: the
\* vector holds exactly as many as its version says (update_skill_vector).
NoLostUpdate == \A u \in Users : version[u] = Len(vector[u])

Begins(shown, history) ==
  /\ Len(shown) <= Len(history)
  /\ \A i \in 1 .. Len(shown) : shown[i] = history[i]

\* Every readiness snapshot shows a vector the learner really had: what it
\* shows is a beginning of the vector's history (_create_readiness_snapshot).
SnapshotsAreHistory ==
  \A u \in Users : \A i \in 1 .. Len(snapshots[u]) :
    Begins(snapshots[u][i].shows, vector[u])

\* Only a job that used up its attempts makes its session 'failed' or gets
\* into the dead letter queue (on_failed).
FailedIsExhausted ==
  \A s \in Sessions :
    status[s] = "failed" \/ s \in dlq => qstate[s] = "failed" /\ attempts[s] = Attempts

\* SELECT and guarded UPDATE together do what one atomic step would do: every
\* step folds one evaluation into the vector as it is, or leaves it alone.
AtomicUpdate == INSTANCE SkillVectorLog WITH Evaluations <- Sessions
UpdatesAreAtomic == AtomicUpdate!Spec

-----------------------------------------------------------------------------
(* Properties that need locks to outlive their executions, and the quota *)

\* A free learner has never more live sessions than the limit and the other
\* submissions that were in progress at once; exactly the limit if the
\* learner submits one at a time (_check_free_tier_limit).  An execution that
\* lost its lock may bring a failed session, which counts no more, back to life.
QuotaOvershoot ==
  lockLosses = 0 => \A u \in FreeUsers : Cardinality(Counted(u)) + 1 <= MonthlyLimit + MaxInFlight

\* However often a job is delivered, its session is scored into the vector
\* and the readiness history at most once (_fetch_writing_session's check),
\* unless an execution lost its lock and so ran next to another one.
AppliedOnce ==
  lockLosses = 0 =>
    \A s \in Sessions :
      /\ Occurrences(vector[Owner[s]], s) <= 1
      /\ Cardinality({i \in DOMAIN snapshots[Owner[s]] : snapshots[Owner[s]][i].of = s}) <= 1

\* A job BullMQ counts as completed has a session that shows its scores, and
\* a readiness snapshot, unless an execution lost its lock (process).
CompletedIsScored ==
  lockLosses = 0 =>
    \A s \in Sessions : qstate[s] = "completed" =>
      /\ status[s] = "scored"
      /\ \E i \in DOMAIN snapshots[Owner[s]] : snapshots[Owner[s]][i].of = s

\* A session reported as failed is never evaluated after all: the client that
\* stopped polling has seen the last word (get_evaluation_result), unless an
\* execution lost its lock and is still at work.
FailedIsFinal ==
  [][lockLosses = 0 =>
       \A s \in Sessions : status[s] = "failed" => status'[s] = "failed"]_status

-----------------------------------------------------------------------------
(* Progress *)

\* A job that was added comes to an end, whatever happens to the worker.
QueueDrains ==
  \A s \in Sessions : qstate[s] = "waiting" ~> qstate[s] \in {"completed", "failed"}

Faulted == crashes + lockLosses + ioErrors > 0

\* Unless something broke, polling ends: an essay that was accepted is scored
\* or reported as failed, even if the provider never answers.
AcceptedIsSettled ==
  \A s \in Sessions :
    request[s] = "answered" ~> (status[s] \in {"scored", "failed"} \/ Faulted)

-----------------------------------------------------------------------------
(* A statement of the repository that the code does not keep *)

\* "Async pipeline: status moves PENDING -> PROCESSING -> SCORED."
ScoredIsFinal ==
  [][\A s \in Sessions : status[s] = "scored" => status'[s] = "scored"]_status
=============================================================================
