------------------------------- MODULE Service -------------------------------
(***************************************************************************)
(* The life of one process of the service (main.py: lifespan) around the   *)
(* pool of database connections and the rate limiter: requests borrow a    *)
(* connection for as long as they run (dependencies.py: get_db), login and *)
(* registration pass the limiter with it in their hands (auth/router.py),  *)
(* executions of the worker hold one for a whole evaluation, and a failed  *)
(* evaluation starts a task that needs one too (queue/worker.py).          *)
(*                                                                         *)
(* uvicorn and BullMQ are contracts: the shutdown half of lifespan runs    *)
(* once all requests are answered, and worker.close() returns once no      *)
(* execution is running.  What requests and evaluations do with their      *)
(* connection is in the other modules; here they do one step of work.      *)
(***************************************************************************)
EXTENDS ConnectionPool, RateLimit

CONSTANTS
    Requests,
    Slots,     \* executions of process() at once
    Tasks,     \* _mark_session_failed at once
    NoKey      \* a request of an endpoint without a limit

ASSUME ClientsAssumption ==
    /\ Clients = Requests \cup Slots \cup Tasks
    /\ Requests \cap Slots = {} /\ (Requests \cup Slots) \cap Tasks = {}
ASSUME KeysAssumption == NoKey \notin Keys

VARIABLES
    phase,        \* the statement of lifespan the process is at
    step,         \* the next statement of each client
    key,          \* the counter a request is limited by
    interrupted   \* history: counters that no EXPIRE followed when they were created

clientVars == <<step, key, interrupted>>
vars == <<poolVars, limitVars, clientVars, phase>>

Startup == {"openPool", "pingRedis"}
Shutdown == {"draining", "closeWorker", "closeQueues", "closePool", "closeRedis"}
WorkerRuns == phase \in {"serving", "draining"}

Limited == {"incr", "expire", "ttl"}   \* statements of _check_rate_limit
Borrowing == Limited \cup {"work", "evaluate", "mark"}
Steps == {"idle", "ask", "conn"} \cup Borrowing

First(c) == CASE c \in Slots -> "evaluate"
              [] c \in Tasks -> "mark"
              [] OTHER -> IF key[c] = NoKey THEN "work" ELSE "incr"

Init ==
    /\ PoolInit
    /\ LimitInit
    /\ phase = "down"
    /\ step = [c \in Clients |-> "idle"]
    /\ key = [r \in Requests |-> NoKey]
    /\ interrupted = [k \in Keys |-> FALSE]

Goto(c, s) == step' = [step EXCEPT ![c] = s]

-----------------------------------------------------------------------------
(* What a client does *)

\* A request arrives, of an endpoint that counts it under k or of another one.
Receive(r, k) ==
    /\ phase = "serving" /\ step[r] = "idle"
    /\ key' = [key EXCEPT ![r] = k]
    /\ Goto(r, "ask")
    /\ UNCHANGED <<poolVars, limitVars, interrupted, phase>>

\* The worker takes jobs until close(), so also while the last requests are answered.
Take(x) ==
    /\ WorkerRuns /\ step[x] = "idle"
    /\ Goto(x, "ask")
    /\ UNCHANGED <<poolVars, limitVars, key, interrupted, phase>>

\* The end of a request, an execution or a task, by return or by exception.
Leave(c, s) ==
    /\ Release(c)
    /\ step' = s
    /\ key' = [r \in Requests |-> IF r = c THEN NoKey ELSE key[r]]

\* Mutant: the connection goes back to the pool only if all went well.
Done_Leaks(c) ==
    /\ step' = [step EXCEPT ![c] = "idle"]
    /\ IF step[c] \in {"work", "evaluate", "mark"} THEN Release(c) ELSE UNCHANGED poolVars
    /\ key' = [r \in Requests |-> IF r = c THEN NoKey ELSE key[r]]

Done(c) == Leave(c, [step EXCEPT ![c] = "idle"])

\* A task that finds the pool closing logs the exception; its session stays as it is.
AskConnection(c) ==
    /\ step[c] = "ask"
    /\ IF pool = "open" THEN Ask(c) /\ Goto(c, "conn") /\ UNCHANGED key ELSE Done(c)
    /\ UNCHANGED <<limitVars, interrupted, phase>>

Connected(c) ==
    /\ step[c] = "conn"
    /\ Grant(c)
    /\ Goto(c, First(c))
    /\ UNCHANGED <<limitVars, key, interrupted, phase>>

\* What _check_rate_limit does with the answer of INCR.  With a limit of one attempt or more
\* the first request never exceeds it.
AfterIncr(r) ==
    LET n == count'[key[r]]
    IN Goto(r, IF IsFirst(n) THEN "expire" ELSE IF Exceeds(n) THEN "ttl" ELSE "work")

Increment(r) ==
    /\ step[r] = "incr"
    /\ Incr(key[r], 1)
    /\ AfterIncr(r)
    /\ UNCHANGED <<poolVars, key, interrupted, phase>>

\* The counter k is created, and who created it will not set its time to live.
Orphan(k) == interrupted' = [interrupted EXCEPT ![k] = @ \/ count[k] = 0]

\* redis-py has sent INCR, got no answer in time and sends it again (retry_on_timeout).
RetryIncrement(r) ==
    /\ step[r] = "incr"
    /\ Incr(key[r], 2)
    /\ AfterIncr(r)
    /\ Orphan(key[r])
    /\ UNCHANGED <<poolVars, key, phase>>

\* Redis has counted the request, and the answer never arrives: the request fails.
LoseAnswer(r) ==
    /\ step[r] = "incr"
    /\ Incr(key[r], 1)
    /\ Orphan(key[r])
    /\ Done(r)
    /\ UNCHANGED phase

SetExpiry(r) ==
    /\ step[r] = "expire"
    /\ Expire(key[r])
    /\ Goto(r, "work")
    /\ UNCHANGED <<poolVars, key, interrupted, phase>>

\* Too many attempts: ValidationError, with the time to wait.
ReadTtl(r) ==
    /\ step[r] = "ttl"
    /\ Done(r)
    /\ UNCHANGED <<limitVars, interrupted, phase>>

Work(c) ==
    /\ step[c] \in {"work", "evaluate", "mark"}
    /\ Done(c)
    /\ UNCHANGED <<limitVars, interrupted, phase>>

\* Mutant: the execution fails without leaving `async with'.
FailJob_Holding(x, t) ==
    /\ step[x] = "evaluate" /\ step[t] = "idle"
    /\ step' = [step EXCEPT ![x] = "idle", ![t] = "ask"]
    /\ UNCHANGED <<poolVars, limitVars, key, interrupted, phase>>

\* The third attempt fails; on_failed runs after the execution has given its connection back.
FailJob(x, t) ==
    /\ step[x] = "evaluate" /\ step[t] = "idle"
    /\ Leave(x, [step EXCEPT ![x] = "idle", ![t] = "ask"])
    /\ UNCHANGED <<limitVars, interrupted, phase>>

\* Any statement of a client that holds a connection fails.
Fails(c) ==
    /\ step[c] \in Borrowing
    /\ interrupted' = IF step[c] = "expire" THEN [interrupted EXCEPT ![key[c]] = TRUE]
                      ELSE interrupted
    /\ Done(c)
    /\ UNCHANGED <<limitVars, phase>>

ClientStep(c) ==
    \/ AskConnection(c)
    \/ Work(c)
    \/ c \in Requests /\ (Increment(c) \/ SetExpiry(c) \/ ReadTtl(c))

-----------------------------------------------------------------------------
(* What the process does *)

Enter(p) == phase' = p /\ UNCHANGED <<clientVars, limitVars>>

Start == phase = "down" /\ Enter("openPool") /\ UNCHANGED poolVars

CreatePool == phase = "openPool" /\ OpenPool /\ Enter("pingRedis")

\* The last statement that may fail: then the registry, the worker, and `yield'.
PingRedis == phase = "pingRedis" /\ Enter("serving") /\ UNCHANGED poolVars

Sigterm == phase = "serving" /\ Enter("draining") /\ UNCHANGED poolVars

Drained ==
    /\ phase = "draining"
    /\ \A r \in Requests : step[r] = "idle"
    /\ Enter("closeWorker")
    /\ UNCHANGED poolVars

\* Mutant: the worker is told to stop, and nobody waits for it.
CloseWorker_NotAwaited == phase = "closeWorker" /\ Enter("closeQueues") /\ UNCHANGED poolVars

\* shutdown_event is set as well; nothing reads it.
CloseWorker ==
    /\ phase = "closeWorker"
    /\ \A x \in Slots : step[x] = "idle"
    /\ Enter("closeQueues")
    /\ UNCHANGED poolVars

CloseQueues == phase = "closeQueues" /\ BeginClose /\ Enter("closePool")

ClosePool == phase = "closePool" /\ EndClose /\ Enter("closeRedis")

\* The process is gone, and its coroutines and connections with it.  Redis keeps the counters.
Gone ==
    /\ phase' = "down"
    /\ DropPool
    /\ step' = [c \in Clients |-> "idle"]
    /\ key' = [r \in Requests |-> NoKey]
    /\ interrupted' = [k \in Keys |-> \/ interrupted[k]
                                      \/ \E r \in Requests : step[r] = "expire" /\ key[r] = k]
    /\ UNCHANGED limitVars

CloseRedis == phase = "closeRedis" /\ Gone

\* Killed; or a statement of lifespan raises, which ends the process: nothing there is caught.
Crash == phase # "down" /\ Gone

LifecycleStep ==
    \/ CreatePool \/ PingRedis
    \/ Drained \/ CloseWorker \/ CloseQueues \/ ClosePool \/ CloseRedis

Elapses == Elapse /\ UNCHANGED <<poolVars, clientVars, phase>>

-----------------------------------------------------------------------------
Next ==
    \/ Start \/ LifecycleStep \/ Sigterm \/ Crash \/ Elapses
    \/ \E r \in Requests, k \in Keys \cup {NoKey} : Receive(r, k)
    \/ \E r \in Requests : RetryIncrement(r) \/ LoseAnswer(r)
    \/ \E x \in Slots : Take(x) \/ (\E t \in Tasks : FailJob(x, t))
    \/ \E c \in Clients : ClientStep(c) \/ Connected(c) \/ Fails(c)

\* The event loop runs every coroutine that is ready, statements and evaluations end (they
\* have time limits), and the pool serves those who wait in turn.  Nobody has to send a
\* request, add a job, or stop or start the process.
Fairness ==
    /\ \A c \in Clients : WF_vars(ClientStep(c)) /\ SF_vars(Connected(c))
    /\ WF_vars(LifecycleStep)

Spec == Init /\ [][Next]_vars /\ Fairness

-----------------------------------------------------------------------------
(* Properties *)

ClientTypeOK ==
    /\ phase \in {"down", "serving"} \cup Startup \cup Shutdown
    /\ step \in [Clients -> Steps]
    /\ key \in [Requests -> Keys \cup {NoKey}]
    /\ interrupted \in [Keys -> BOOLEAN]
    /\ \A c \in Clients : step[c] \in Limited => c \in Requests /\ key[c] \in Keys

\* No connection is lost: a client waits for one, or holds one, exactly while a statement of it
\* says so, whatever failed before.
Accounted ==
    /\ waiting = {c \in Clients : step[c] = "conn"}
    /\ holders = {c \in Clients : step[c] \in Borrowing}

\* Types, and no connection is lost (get_db, and `async with pool.acquire()' of the worker).
TypeOK == PoolTypeOK /\ LimitTypeOK /\ ClientTypeOK /\ Accounted

\* lifespan closes in the right order: nobody but a task that records a failure meets a pool
\* that is closing, and nobody at all a closed one or a closed Redis client.
WorkerStopsFirst ==
    /\ phase \in {"closeQueues", "closePool", "closeRedis"} =>
           \A c \in Requests \cup Slots : step[c] = "idle"
    /\ pool # "open" => waiting \cup holders \subseteq Tasks
    /\ pool = "closed" => holders = {}

\* How many were let through in the last t ticks, for each t.
Through(ticks) ==
    LET sum[t \in 0..Window] == IF t = 0 THEN 0 ELSE sum[t - 1] + ticks[t] IN sum

\* The limit of _check_rate_limit, for any number of requests at once and whatever fails: in
\* no stretch as long as the window are as many as twice the limit let through (one window may
\* end, and the next begin, within it, but the attempt that began the first lies before it).
LimitHolds == \A k \in Keys : Through(admitted[k])[Window] <= 2 * MaxAttempts - 1

\* A counter without a time to live blocks its address for good.  There is none, but while the
\* request that created it is about to set one, or when that request was interrupted or its
\* INCR was sent twice.
CounterExpires ==
    \A k \in Keys : count[k] > 0 /\ ttl[k] = 0 =>
        \/ interrupted[k]
        \/ \E r \in Requests : step[r] = "expire" /\ key[r] = k

\* However small the pool, nobody waits for ever: requests, executions and tasks end, although
\* they hold a connection as long as they run, and a process that is told to stop stops.
Progress ==
    /\ \A c \in Clients : step[c] # "idle" ~> step[c] = "idle"
    /\ phase \in Startup \cup Shutdown ~> phase \in {"serving", "down"}
=============================================================================
