---------------------------- MODULE ServiceProofs ----------------------------
(***************************************************************************)
(* Theorems about Service, for any number of requests, executions, tasks,  *)
(* connections and counters.                                               *)
(***************************************************************************)
EXTENDS Service, FiniteSetTheorems, TLAPS

-----------------------------------------------------------------------------
(* The pool *)

LEMMA PoolSubset ==
  ASSUME PoolTypeOK, holders' \subseteq holders, waiting' \subseteq waiting,
         pool' \in {"none", "open", "closing", "closed"}
  PROVE  PoolTypeOK'
<1>1. IsFiniteSet(holders)
  BY PoolAssumption, FS_Subset DEF PoolTypeOK
<1>2. Cardinality(holders') <= Cardinality(holders) /\ Cardinality(holders') \in Nat
  BY <1>1, FS_Subset, FS_CardinalityType
<1>3. Cardinality(holders) \in Nat
  BY <1>1, FS_CardinalityType
<1> QED
  BY <1>2, <1>3, PoolAssumption DEF PoolTypeOK

LEMMA PoolRelease ==
  ASSUME PoolTypeOK, NEW c, Release(c)
  PROVE  PoolTypeOK'
<1>1. holders' \subseteq holders /\ waiting' \subseteq waiting /\ pool' = pool
  BY DEF Release
<1> QED
  BY <1>1, PoolSubset DEF PoolTypeOK

LEMMA PoolAsk ==
  ASSUME PoolTypeOK, NEW c \in Clients, c \notin holders, Ask(c)
  PROVE  PoolTypeOK'
  BY DEF PoolTypeOK, Ask

LEMMA PoolGrant ==
  ASSUME PoolTypeOK, NEW c \in Clients, Grant(c)
  PROVE  PoolTypeOK'
<1>1. IsFiniteSet(holders)
  BY PoolAssumption, FS_Subset DEF PoolTypeOK
<1>2. Cardinality(holders) \in Nat
  BY <1>1, FS_CardinalityType
<1>3. Cardinality(holders \cup {c}) =
         IF c \in holders THEN Cardinality(holders) ELSE Cardinality(holders) + 1
  BY <1>1, FS_AddElement
<1>4. Cardinality(holders \cup {c}) <= PoolSize
  BY <1>2, <1>3, PoolAssumption DEF Grant
<1> QED
  BY <1>4 DEF PoolTypeOK, Grant

LEMMA PoolDrop ==
  ASSUME DropPool
  PROVE  PoolTypeOK'
<1>1. Cardinality({}) = 0
  BY FS_EmptySet
<1> QED
  BY <1>1, PoolAssumption DEF PoolTypeOK, DropPool

LEMMA PoolInitType == PoolInit => PoolTypeOK
  BY FS_EmptySet, PoolAssumption DEF PoolInit, PoolTypeOK

-----------------------------------------------------------------------------
(* The counters *)

LEMMA LimitInitType == LimitInit => LimitTypeOK
  BY LimitAssumption DEF LimitInit, LimitTypeOK

LEMMA ExceptType ==
  ASSUME NEW S, NEW T, NEW f \in [S -> T], NEW a, NEW v \in T
  PROVE  [f EXCEPT ![a] = v] \in [S -> T]
  OBVIOUS

LEMMA LimitIncr ==
  ASSUME LimitTypeOK, NEW k \in Keys, NEW by \in {1, 2}, Incr(k, by)
  PROVE  LimitTypeOK' /\ count'[k] > 0
<1>1. Plus(count[k], by) \in 1..(MaxAttempts + 1)
  BY LimitAssumption DEF LimitTypeOK, Plus
<1>2. count' = [count EXCEPT ![k] = Plus(count[k], by)] /\ ttl' = ttl
  BY DEF Incr
<1>3. count' \in [Keys -> 0..(MaxAttempts + 1)] /\ count'[k] > 0
  BY <1>1, <1>2, LimitAssumption DEF LimitTypeOK
<1>4. \A j \in Keys : count'[j] = 0 => ttl'[j] = 0
  BY <1>1, <1>2 DEF LimitTypeOK
<1>5. admitted' \in [Keys -> [1..Window -> Nat]]
  <2>1. CASE admitted' = admitted
    BY <2>1 DEF LimitTypeOK
  <2>2. CASE admitted' = [admitted EXCEPT ![k][1] = @ + 1]
    <3> DEFINE now == [admitted[k] EXCEPT ![1] = admitted[k][1] + 1]
    <3>1. 1 \in 1..Window /\ admitted[k] \in [1..Window -> Nat]
      BY LimitAssumption DEF LimitTypeOK
    <3>2. \A t \in 1..Window : admitted[k][t] \in Nat
      BY ONLY <3>1
    <3>3. admitted[k][1] + 1 \in Nat
      BY ONLY <3>1, <3>2
    <3>4. now \in [1..Window -> Nat]
      BY <3>1, <3>3, ExceptType
    <3>5. admitted' = [admitted EXCEPT ![k] = now]
      BY <2>2
    <3> QED
      BY <3>4, <3>5 DEF LimitTypeOK
  <2> QED
    BY <2>1, <2>2 DEF Incr
<1> QED
  BY <1>2, <1>3, <1>4, <1>5 DEF LimitTypeOK

LEMMA LimitExpire ==
  ASSUME LimitTypeOK, NEW k \in Keys, Expire(k)
  PROVE  LimitTypeOK'
  BY LimitAssumption DEF LimitTypeOK, Expire

LEMMA LimitElapse ==
  ASSUME LimitTypeOK, Elapse
  PROVE  LimitTypeOK'
<1>1. count' \in [Keys -> 0..(MaxAttempts + 1)]
  BY LimitAssumption DEF LimitTypeOK, Elapse
<1>2. ttl' \in [Keys -> 0..Window] /\ \A k \in Keys : count'[k] = 0 => ttl'[k] = 0
  BY LimitAssumption DEF LimitTypeOK, Elapse
<1>3. \A k \in Keys, t \in 1..Window :
         (IF t = 1 THEN 0 ELSE admitted[k][t - 1]) \in Nat
  BY LimitAssumption DEF LimitTypeOK
<1>4. admitted' \in [Keys -> [1..Window -> Nat]]
  BY <1>3 DEF Elapse
<1> QED
  BY <1>1, <1>2, <1>4 DEF LimitTypeOK

-----------------------------------------------------------------------------
(* What a step does to the clients *)

StepsOK ==
    /\ step \in [Clients -> Steps]
    /\ key \in [Requests -> Keys \cup {NoKey}]
    /\ \A c \in Clients : step[c] \in Limited => c \in Requests /\ key[c] \in Keys

LEMMA GotoOK ==
  ASSUME TypeOK, NEW c \in Clients, NEW s \in Steps \ Limited, Goto(c, s), UNCHANGED key
  PROVE  StepsOK'
  BY DEF TypeOK, ClientTypeOK, StepsOK, Goto, Limited

\* A step of a client that neither gets nor gives back a connection, nor begins to wait.
LEMMA GotoAccounted ==
  ASSUME TypeOK, NEW c \in Clients, NEW s \in Steps, Goto(c, s), UNCHANGED poolVars,
         s = "conn" <=> step[c] = "conn", s \in Borrowing <=> step[c] \in Borrowing
  PROVE  PoolTypeOK' /\ Accounted'
<1>1. \A d \in Clients : step'[d] = IF d = c THEN s ELSE step[d]
  BY DEF TypeOK, ClientTypeOK, Goto
<1>2. PoolTypeOK'
  BY DEF TypeOK, PoolTypeOK, poolVars
<1>3. Accounted'
  BY <1>1 DEF TypeOK, Accounted, poolVars
<1> QED
  BY <1>2, <1>3

LEMMA DoneOK ==
  ASSUME TypeOK, NEW c \in Clients, Done(c)
  PROVE  PoolTypeOK' /\ StepsOK' /\ Accounted'
<1>1. \A d \in Clients : step'[d] = IF d = c THEN "idle" ELSE step[d]
  BY DEF TypeOK, ClientTypeOK, Done, Leave
<1>2. PoolTypeOK'
  BY PoolRelease DEF TypeOK, Done, Leave
<1>3. step' \in [Clients -> Steps]
  BY DEF TypeOK, ClientTypeOK, Done, Leave, Steps
<1>4. key' \in [Requests -> Keys \cup {NoKey}]
  BY DEF TypeOK, ClientTypeOK, Done, Leave
<1>5. \A d \in Clients : step'[d] \in Limited => d \in Requests /\ key'[d] \in Keys
  BY <1>1 DEF TypeOK, ClientTypeOK, Done, Leave, Limited
<1>6. Accounted'
  BY <1>1 DEF TypeOK, Accounted, Done, Leave, Release, Borrowing, Limited
<1> QED
  BY <1>2, <1>3, <1>4, <1>5, <1>6 DEF StepsOK

LEMMA FailJobOK ==
  ASSUME TypeOK, NEW x \in Slots, NEW t \in Tasks, FailJob(x, t)
  PROVE  PoolTypeOK' /\ StepsOK' /\ Accounted'
<1>1. x \in Clients /\ t \in Clients /\ x # t
  BY ClientsAssumption
<1>2. \A d \in Clients : step'[d] = IF d = t THEN "ask" ELSE IF d = x THEN "idle" ELSE step[d]
  BY <1>1 DEF TypeOK, ClientTypeOK, FailJob, Leave
<1>3. PoolTypeOK'
  BY PoolRelease DEF TypeOK, FailJob, Leave
<1>4. step' \in [Clients -> Steps]
  BY DEF TypeOK, ClientTypeOK, FailJob, Leave, Steps
<1>5. key' \in [Requests -> Keys \cup {NoKey}]
  BY DEF TypeOK, ClientTypeOK, FailJob, Leave
<1>6. \A d \in Clients : step'[d] \in Limited => d \in Requests /\ key'[d] \in Keys
  BY <1>2, ClientsAssumption DEF TypeOK, ClientTypeOK, FailJob, Leave, Limited
<1>7. waiting' = waiting \ {x} /\ holders' = holders \ {x} /\ step[t] = "idle"
  BY DEF FailJob, Leave, Release
<1>8. Accounted'
  <2>1. \A d \in Clients : step'[d] = "conn" <=> d # x /\ step[d] = "conn"
    BY <1>1, <1>2, <1>7
  <2>2. \A d \in Clients : step'[d] \in Borrowing <=> d # x /\ step[d] \in Borrowing
    BY <1>1, <1>2, <1>7 DEF Borrowing, Limited
  <2> QED
    BY <1>7, <2>1, <2>2 DEF TypeOK, Accounted
<1> QED
  BY <1>3, <1>4, <1>5, <1>6, <1>8 DEF StepsOK

LEMMA ConnectedOK ==
  ASSUME TypeOK, NEW c \in Clients, Connected(c)
  PROVE  PoolTypeOK' /\ StepsOK' /\ Accounted'
<1>1. First(c) \in Borrowing /\ (First(c) \in Limited => c \in Requests /\ key[c] \in Keys)
  BY ClientsAssumption DEF First, Borrowing, Limited, TypeOK, ClientTypeOK
<1>2. \A d \in Clients : step'[d] = IF d = c THEN First(c) ELSE step[d]
  BY DEF TypeOK, ClientTypeOK, Connected, Goto
<1>3. PoolTypeOK'
  BY PoolGrant DEF TypeOK, Connected
<1>4. step' \in [Clients -> Steps]
  BY <1>1 DEF TypeOK, ClientTypeOK, Connected, Goto, Steps
<1>5. StepsOK'
  BY <1>1, <1>2, <1>4 DEF TypeOK, ClientTypeOK, StepsOK, Connected
<1>6. First(c) # "conn"
  BY <1>1 DEF Borrowing, Limited
<1>7. Accounted'
  BY <1>1, <1>2, <1>6 DEF TypeOK, Accounted, Connected, Grant
<1> QED
  BY <1>3, <1>5, <1>7

LEMMA GoneOK ==
  ASSUME TypeOK, Gone
  PROVE  PoolTypeOK' /\ StepsOK' /\ Accounted'
<1>1. PoolTypeOK'
  BY PoolDrop DEF Gone
<1>2. \A d \in Clients : step'[d] = "idle"
  BY DEF Gone
<1>3. StepsOK'
  BY <1>2 DEF Gone, StepsOK, Steps, Limited
<1>4. Accounted'
  BY <1>2 DEF Gone, DropPool, Accounted, Borrowing, Limited
<1> QED
  BY <1>1, <1>3, <1>4

-----------------------------------------------------------------------------
(* Type correctness *)

\* INCR, whichever way it went: what follows is a statement of a client that keeps its connection.
LEMMA IncrOK ==
  ASSUME TypeOK, NEW r \in Requests, step[r] = "incr", NEW by \in {1, 2},
         Incr(key[r], by), AfterIncr(r), UNCHANGED <<poolVars, key>>
  PROVE  PoolTypeOK' /\ LimitTypeOK' /\ StepsOK' /\ Accounted'
<1>1. r \in Clients /\ key[r] \in Keys
  BY ClientsAssumption DEF TypeOK, ClientTypeOK, Limited
<1>2. LimitTypeOK'
  BY <1>1, LimitIncr DEF TypeOK
<1>3. PICK s \in {"expire", "ttl", "work"} : Goto(r, s)
  BY DEF AfterIncr
<1>4. s \in Steps /\ s # "conn" /\ s \in Borrowing /\ step[r] \in Borrowing
  BY DEF Steps, Borrowing, Limited
<1>5. PoolTypeOK' /\ Accounted'
  BY <1>1, <1>3, <1>4, GotoAccounted
<1>6. StepsOK'
  BY <1>1, <1>3, <1>4 DEF TypeOK, ClientTypeOK, StepsOK, Goto
<1> QED
  BY <1>2, <1>5, <1>6

LEMMA ClientStepOK ==
  ASSUME TypeOK, NEW c \in Clients, ClientStep(c)
  PROVE  PoolTypeOK' /\ LimitTypeOK' /\ StepsOK' /\ Accounted'
<1>1. CASE AskConnection(c)
  <2>1. LimitTypeOK'
    BY <1>1 DEF AskConnection, TypeOK, LimitTypeOK, limitVars
  <2>2. CASE Done(c)
    BY <2>1, <2>2, DoneOK
  <2>3. CASE Ask(c) /\ Goto(c, "conn") /\ UNCHANGED key
    <3>1. StepsOK'
      BY <2>3, GotoOK DEF Steps, Limited
    <3>2. step[c] = "ask" /\ c \notin holders
      BY <1>1 DEF AskConnection, TypeOK, Accounted, Borrowing, Limited
    <3>3. PoolTypeOK'
      BY <2>3, <3>2, PoolAsk DEF TypeOK
    <3>4. \A d \in Clients : step'[d] = IF d = c THEN "conn" ELSE step[d]
      BY <2>3 DEF TypeOK, ClientTypeOK, Goto
    <3>5. Accounted'
      BY <2>3, <3>2, <3>4 DEF TypeOK, Accounted, Ask, Borrowing, Limited
    <3> QED
      BY <2>1, <3>1, <3>3, <3>5
  <2> QED
    BY <1>1, <2>2, <2>3 DEF AskConnection
<1>2. CASE Work(c)
  BY <1>2, DoneOK DEF Work, TypeOK, LimitTypeOK, limitVars
<1>3. CASE c \in Requests /\ Increment(c)
  BY <1>3, IncrOK DEF Increment
<1>4. CASE c \in Requests /\ SetExpiry(c)
  <2>1. key[c] \in Keys
    BY <1>4 DEF SetExpiry, TypeOK, ClientTypeOK, Limited
  <2>2. LimitTypeOK'
    BY <1>4, <2>1, LimitExpire DEF SetExpiry, TypeOK
  <2>3. Goto(c, "work") /\ UNCHANGED <<poolVars, key>> /\ step[c] = "expire"
    BY <1>4 DEF SetExpiry
  <2>4. StepsOK'
    BY <2>3, GotoOK DEF Steps, Limited, Borrowing
  <2>5. PoolTypeOK' /\ Accounted'
    BY <2>3, GotoAccounted DEF Steps, Limited, Borrowing
  <2> QED
    BY <2>2, <2>4, <2>5
<1>5. CASE c \in Requests /\ ReadTtl(c)
  BY <1>5, DoneOK DEF ReadTtl, TypeOK, LimitTypeOK, limitVars
<1> QED
  BY <1>1, <1>2, <1>3, <1>4, <1>5 DEF ClientStep

LEMMA InitType == Init => TypeOK
<1> SUFFICES ASSUME Init PROVE TypeOK
  OBVIOUS
<1>1. PoolTypeOK /\ LimitTypeOK
  BY PoolInitType, LimitInitType DEF Init
<1>2. ClientTypeOK
  BY DEF Init, ClientTypeOK, Steps, Limited, Startup, Shutdown
<1>3. Accounted
  BY DEF Init, PoolInit, Accounted, Borrowing, Limited
<1> QED
  BY <1>1, <1>2, <1>3 DEF TypeOK

\* lifespan opens and closes the pool, and touches nothing of the clients.
LEMMA EnterOK ==
  ASSUME TypeOK, NEW p \in {"serving"} \cup Startup \cup Shutdown, Enter(p),
         pool' \in {"none", "open", "closing", "closed"}, UNCHANGED <<waiting, holders>>
  PROVE  TypeOK'
<1>1. PoolTypeOK'
  BY PoolSubset DEF TypeOK
<1>2. LimitTypeOK'
  BY DEF TypeOK, LimitTypeOK, Enter, limitVars
<1>3. ClientTypeOK'
  BY DEF TypeOK, ClientTypeOK, Enter, clientVars
<1>4. Accounted'
  BY DEF TypeOK, Accounted, Enter, clientVars
<1> QED
  BY <1>1, <1>2, <1>3, <1>4 DEF TypeOK

\* The steps, one by one.
LEMMA NextSplit ==
  ASSUME Next
  PROVE  \/ Start \/ Sigterm \/ (LifecycleStep /\ phase # "closeRedis")
         \/ CloseRedis \/ Crash
         \/ Elapses
         \/ \E r \in Requests, k \in Keys \cup {NoKey} : Receive(r, k)
         \/ \E r \in Requests : RetryIncrement(r)
         \/ \E r \in Requests : LoseAnswer(r)
         \/ \E x \in Slots : Take(x)
         \/ \E x \in Slots, t \in Tasks : FailJob(x, t)
         \/ \E c \in Clients : ClientStep(c)
         \/ \E c \in Clients : Connected(c)
         \/ \E c \in Clients : Fails(c)
<1>1. LifecycleStep => (LifecycleStep /\ phase # "closeRedis") \/ CloseRedis
  BY DEF LifecycleStep, CreatePool, PingRedis, Drained, CloseWorker, CloseQueues, ClosePool
<1> QED
  BY <1>1, Zenon DEF Next

LEMMA TypeStep ==
  ASSUME TypeOK, [Next]_vars
  PROVE  TypeOK'
<1> DEFINE Others == phase' \in {"down", "serving"} \cup Startup \cup Shutdown
                     /\ interrupted' \in [Keys -> BOOLEAN]
<1>0. PoolTypeOK' /\ LimitTypeOK' /\ StepsOK' /\ Accounted' /\ Others => TypeOK'
  BY DEF TypeOK, ClientTypeOK, StepsOK
<1>a. UNCHANGED <<phase, interrupted>> => Others
  BY DEF TypeOK, ClientTypeOK
<1>b. UNCHANGED limitVars => LimitTypeOK'
  BY DEF TypeOK, LimitTypeOK, limitVars
<1>c. \A k \in Keys : Orphan(k) => interrupted' \in [Keys -> BOOLEAN]
  BY DEF TypeOK, ClientTypeOK, Orphan
<1> HIDE DEF Others
<1>1. CASE Start \/ Sigterm \/ (LifecycleStep /\ phase # "closeRedis")
  <2>1. /\ pool' \in {"none", "open", "closing", "closed"} /\ UNCHANGED <<waiting, holders>>
        /\ \E p \in {"serving"} \cup Startup \cup Shutdown : Enter(p)
    <3>1. CASE Start \/ Sigterm \/ PingRedis \/ Drained \/ CloseWorker
      BY <3>1 DEF Start, Sigterm, PingRedis, Drained, CloseWorker, TypeOK, PoolTypeOK, poolVars,
                  Startup, Shutdown
    <3>2. CASE (CreatePool \/ CloseQueues \/ ClosePool)
      BY <3>2 DEF CreatePool, CloseQueues, ClosePool, OpenPool, BeginClose, EndClose, Startup, Shutdown
    <3> QED
      BY <1>1, <3>1, <3>2 DEF LifecycleStep, CloseRedis
  <2> QED
    BY <2>1, EnterOK
<1>2. CASE CloseRedis \/ Crash
  <2>1. Gone
    BY <1>2 DEF CloseRedis, Crash
  <2>2. Others
    BY <2>1 DEF Gone, Others
  <2> QED
    BY <2>1, <2>2, <1>0, <1>b, GoneOK DEF Gone
<1>3. CASE Elapses
  <2>1. UNCHANGED <<poolVars, clientVars, phase>> /\ Elapse
    BY <1>3 DEF Elapses
  <2>2. PoolTypeOK' /\ StepsOK' /\ Accounted'
    BY <2>1 DEF TypeOK, PoolTypeOK, ClientTypeOK, StepsOK, Accounted, poolVars, clientVars
  <2> QED
    BY <2>1, <2>2, <1>0, <1>a, LimitElapse DEF TypeOK, clientVars
<1>4. CASE \E r \in Requests, k \in Keys \cup {NoKey} : Receive(r, k)
  <2>1. PICK r \in Requests, k \in Keys \cup {NoKey} : Receive(r, k)
    BY <1>4
  <2>2. r \in Clients /\ step[r] = "idle" /\ Goto(r, "ask") /\ UNCHANGED poolVars
    BY <2>1, ClientsAssumption DEF Receive
  <2>3. PoolTypeOK' /\ Accounted'
    BY <2>2, GotoAccounted DEF Steps, Borrowing, Limited
  <2>4. StepsOK'
    BY <2>1, <2>2 DEF Receive, TypeOK, ClientTypeOK, StepsOK, Goto, Steps, Limited
  <2> QED
    BY <2>1, <2>3, <2>4, <1>0, <1>a, <1>b DEF Receive
<1>5. CASE \E r \in Requests : RetryIncrement(r)
  <2>1. PICK r \in Requests : RetryIncrement(r)
    BY <1>5
  <2>2. PoolTypeOK' /\ LimitTypeOK' /\ StepsOK' /\ Accounted'
    BY <2>1, IncrOK DEF RetryIncrement
  <2>3. key[r] \in Keys
    BY <2>1, ClientsAssumption DEF RetryIncrement, TypeOK, ClientTypeOK, Limited
  <2>4. Others
    BY <2>1, <2>3, <1>c DEF Others, RetryIncrement, TypeOK, ClientTypeOK
  <2> QED
    BY <2>2, <2>4, <1>0
<1>6. CASE \E r \in Requests : LoseAnswer(r)
  <2>1. PICK r \in Requests : LoseAnswer(r)
    BY <1>6
  <2>2. r \in Clients /\ key[r] \in Keys
    BY <2>1, ClientsAssumption DEF LoseAnswer, TypeOK, ClientTypeOK, Limited
  <2>3. LimitTypeOK'
    BY <2>1, <2>2, LimitIncr DEF LoseAnswer, TypeOK
  <2>4. PoolTypeOK' /\ StepsOK' /\ Accounted'
    BY <2>1, <2>2, DoneOK DEF LoseAnswer
  <2>5. Others
    BY <2>1, <2>2, <1>c DEF Others, LoseAnswer, TypeOK, ClientTypeOK
  <2> QED
    BY <2>3, <2>4, <2>5, <1>0
<1>7. CASE \E x \in Slots : Take(x)
  <2>1. PICK x \in Slots : Take(x)
    BY <1>7
  <2>2. x \in Clients /\ step[x] = "idle" /\ Goto(x, "ask") /\ UNCHANGED <<poolVars, key>>
    BY <2>1, ClientsAssumption DEF Take
  <2>3. PoolTypeOK' /\ Accounted' /\ StepsOK'
    BY <2>2, GotoAccounted, GotoOK DEF Steps, Borrowing, Limited
  <2> QED
    BY <2>1, <2>3, <1>0, <1>a, <1>b DEF Take
<1>8. CASE \E x \in Slots, t \in Tasks : FailJob(x, t)
  <2>1. PICK x \in Slots, t \in Tasks : FailJob(x, t)
    BY <1>8
  <2> QED
    BY <2>1, FailJobOK, <1>0, <1>a, <1>b DEF FailJob
<1>9. CASE \E c \in Clients : ClientStep(c)
  <2>1. PICK c \in Clients : ClientStep(c)
    BY <1>9
  <2>2. UNCHANGED <<phase, interrupted>>
    BY <2>1 DEF ClientStep, AskConnection, Work, Increment, SetExpiry, ReadTtl
  <2> QED
    BY <2>1, <2>2, ClientStepOK, <1>0, <1>a
<1>10. CASE \E c \in Clients : Connected(c)
  <2>1. PICK c \in Clients : Connected(c)
    BY <1>10
  <2> QED
    BY <2>1, ConnectedOK, <1>0, <1>a, <1>b DEF Connected
<1>11. CASE \E c \in Clients : Fails(c)
  <2>1. PICK c \in Clients : Fails(c)
    BY <1>11
  <2>2. Others
    BY <2>1 DEF Fails, Others, TypeOK, ClientTypeOK
  <2> QED
    BY <2>1, <2>2, DoneOK, <1>0, <1>b DEF Fails
<1>12. CASE UNCHANGED vars
  BY <1>12 DEF vars, clientVars, poolVars, limitVars, TypeOK, PoolTypeOK, LimitTypeOK, ClientTypeOK,
               Accounted
<1> QED
  BY <1>1, <1>2, <1>3, <1>4, <1>5, <1>6, <1>7, <1>8, <1>9, <1>10, <1>11, <1>12, NextSplit

\* Every variable of Service keeps its type, and no connection is lost, whatever fails.
THEOREM TypeCorrect == Spec => []TypeOK
<1> QED
  BY InitType, TypeStep, PTL DEF Spec

-----------------------------------------------------------------------------
(* The order of the shutdown *)

PoolFollows ==
    /\ phase \in {"down", "openPool"} => pool = "none"
    /\ phase \in {"pingRedis", "serving", "draining", "closeWorker", "closeQueues"} => pool = "open"
    /\ phase = "closePool" => pool = "closing"
    /\ phase = "closeRedis" => pool = "closed" /\ holders = {}

\* Who is idle at which statement of lifespan.
Quiet ==
    /\ phase \in {"down", "openPool", "pingRedis"} => \A c \in Clients : step[c] = "idle"
    /\ phase \in {"closeWorker", "closeQueues", "closePool", "closeRedis"} =>
           \A r \in Requests : step[r] = "idle"
    /\ phase \in {"closeQueues", "closePool", "closeRedis"} => \A x \in Slots : step[x] = "idle"

StopInv == PoolFollows /\ Quiet

\* A step of a client that is under way starts no other one.
StaysIdle ==
    /\ phase' = phase /\ pool' = pool
    /\ pool = "closed" => holders' \subseteq holders
    /\ \A c \in Clients : step[c] = "idle" => step'[c] = "idle"

LEMMA StaysIdleKeeps ==
  ASSUME StopInv, StaysIdle
  PROVE  StopInv'
<1>1. PoolFollows'
  BY DEF StopInv, PoolFollows, StaysIdle
<1>2. Quiet'
  BY ClientsAssumption DEF StopInv, Quiet, StaysIdle
<1> QED
  BY <1>1, <1>2 DEF StopInv

LEMMA DoneStaysIdle ==
  ASSUME TypeOK, NEW c \in Clients, Done(c), UNCHANGED phase
  PROVE  StaysIdle
  BY DEF TypeOK, ClientTypeOK, Done, Leave, Release, StaysIdle

LEMMA GotoStaysIdle ==
  ASSUME TypeOK, NEW c \in Clients, step[c] # "idle", NEW s, Goto(c, s),
         UNCHANGED <<phase, pool>>, pool = "closed" => holders' \subseteq holders
  PROVE  StaysIdle
  BY DEF TypeOK, ClientTypeOK, Goto, StaysIdle

LEMMA StopStep ==
  ASSUME TypeOK, StopInv, [Next]_vars
  PROVE  StopInv'
<1>1. CASE Start \/ Sigterm \/ (LifecycleStep /\ phase # "closeRedis")
  <2>1. CASE Start \/ Sigterm \/ PingRedis \/ Drained \/ CloseWorker
    BY <2>1 DEF Start, Sigterm, PingRedis, Drained, CloseWorker, Enter, clientVars, poolVars,
                StopInv, PoolFollows, Quiet
  <2>2. CASE (CreatePool \/ CloseQueues \/ ClosePool)
    BY <2>2 DEF CreatePool, CloseQueues, ClosePool, OpenPool, BeginClose, EndClose, Enter, clientVars,
                StopInv, PoolFollows, Quiet
  <2> QED
    BY <1>1, <2>1, <2>2 DEF LifecycleStep, CloseRedis
<1>2. CASE CloseRedis \/ Crash
  BY <1>2 DEF CloseRedis, Crash, Gone, DropPool, StopInv, PoolFollows, Quiet
<1>3. CASE Elapses
  <2>1. StaysIdle
    BY <1>3 DEF Elapses, StaysIdle, poolVars, clientVars
  <2> QED
    BY <2>1, StaysIdleKeeps
<1>4. CASE \E r \in Requests, k \in Keys \cup {NoKey} : Receive(r, k)
  BY <1>4 DEF Receive, poolVars, StopInv, PoolFollows, Quiet
<1>5. CASE \E r \in Requests : RetryIncrement(r)
  <2>1. PICK r \in Requests : RetryIncrement(r)
    BY <1>5
  <2>2. PICK s : Goto(r, s)
    BY <2>1 DEF RetryIncrement, AfterIncr
  <2>3. StaysIdle
    BY <2>1, <2>2, GotoStaysIdle, ClientsAssumption DEF RetryIncrement, poolVars
  <2> QED
    BY <2>3, StaysIdleKeeps
<1>6. CASE \E r \in Requests : LoseAnswer(r)
  BY <1>6, DoneStaysIdle, StaysIdleKeeps, ClientsAssumption DEF LoseAnswer
<1>7. CASE \E x \in Slots : Take(x)
  <2>1. phase \in {"serving", "draining"} /\ UNCHANGED <<phase, pool>>
    BY <1>7 DEF Take, WorkerRuns, poolVars
  <2> QED
    BY <2>1 DEF StopInv, PoolFollows, Quiet
<1>8. CASE \E x \in Slots, t \in Tasks : FailJob(x, t)
  <2>1. PICK x \in Slots, t \in Tasks : FailJob(x, t)
    BY <1>8
  <2>2. /\ x \in Clients /\ step[x] = "evaluate" /\ UNCHANGED <<phase, pool>>
        /\ \A r \in Requests : step'[r] = step[r]
    BY <2>1, ClientsAssumption DEF FailJob, Leave, Release, TypeOK, ClientTypeOK
  <2>3. phase \in {"serving", "draining", "closeWorker"}
    BY <2>2 DEF StopInv, Quiet, TypeOK, ClientTypeOK, Startup, Shutdown
  <2> QED
    BY <2>2, <2>3 DEF StopInv, PoolFollows, Quiet
<1>9. CASE \E c \in Clients : ClientStep(c)
  <2>1. PICK c \in Clients : ClientStep(c)
    BY <1>9
  <2>2. CASE Done(c)
    <3>1. UNCHANGED phase
      BY <2>1 DEF ClientStep, AskConnection, Work, Increment, SetExpiry, ReadTtl
    <3> QED
      BY <2>2, <3>1, DoneStaysIdle, StaysIdleKeeps
  <2>3. CASE AskConnection(c) /\ ~Done(c)
    BY <2>3, GotoStaysIdle, StaysIdleKeeps DEF AskConnection, Ask
  <2>4. CASE Increment(c)
    BY <2>4, GotoStaysIdle, StaysIdleKeeps DEF Increment, AfterIncr, poolVars
  <2>5. CASE SetExpiry(c)
    BY <2>5, GotoStaysIdle, StaysIdleKeeps DEF SetExpiry, poolVars
  <2> QED
    BY <2>1, <2>2, <2>3, <2>4, <2>5 DEF ClientStep, Work, ReadTtl
<1>10. CASE \E c \in Clients : Connected(c)
  BY <1>10, GotoStaysIdle, StaysIdleKeeps DEF Connected, Grant
<1>11. CASE \E c \in Clients : Fails(c)
  BY <1>11, DoneStaysIdle, StaysIdleKeeps DEF Fails
<1>12. CASE UNCHANGED vars
  BY <1>12 DEF vars, clientVars, poolVars, StopInv, PoolFollows, Quiet
<1> QED
  BY <1>1, <1>2, <1>3, <1>4, <1>5, <1>6, <1>7, <1>8, <1>9, <1>10, <1>11, <1>12, NextSplit

LEMMA StopImplies ==
  ASSUME TypeOK, StopInv
  PROVE  WorkerStopsFirst
<1>1. phase \in {"closeQueues", "closePool", "closeRedis"} =>
          \A c \in Requests \cup Slots : step[c] = "idle"
  BY DEF StopInv, Quiet
<1>2. ASSUME pool # "open" PROVE waiting \cup holders \subseteq Tasks
  <2>1. \A c \in Requests \cup Slots : step[c] = "idle"
    BY <1>1, <1>2, ClientsAssumption DEF StopInv, Quiet, PoolFollows, TypeOK, ClientTypeOK, Startup, Shutdown
  <2> QED
    BY <2>1, ClientsAssumption DEF TypeOK, Accounted, Borrowing, Limited
<1>3. pool = "closed" => holders = {}
  BY DEF StopInv, PoolFollows, TypeOK, ClientTypeOK, Startup, Shutdown
<1> QED
  BY <1>1, <1>2, <1>3 DEF WorkerStopsFirst

\* Requests and executions are over before what they use is closed (lifespan).
THEOREM StopsInOrder == Spec => []WorkerStopsFirst
<1>1. Init => StopInv
  BY DEF Init, PoolInit, StopInv, PoolFollows, Quiet
<1> QED
  BY <1>1, TypeCorrect, StopStep, StopImplies, PTL DEF Spec

-----------------------------------------------------------------------------
(* Counters expire *)

Expiring(k) == \E r \in Requests : step[r] = "expire" /\ key[r] = k

\* Who is about to send EXPIRE still is, or its counter is marked.
Pending ==
    \A k \in Keys : interrupted[k] \/ Expiring(k) => (interrupted[k] \/ Expiring(k))'

LEMMA PendingKeeps ==
  ASSUME CounterExpires, Pending, UNCHANGED <<count, ttl>>
  PROVE  CounterExpires'
  BY DEF CounterExpires, Pending, Expiring

\* All but client c stay where they are, and c was not at EXPIRE.
LEMMA PendingOthers ==
  ASSUME NEW c,
         \A r \in Requests : r # c => step'[r] = step[r] /\ key'[r] = key[r],
         c \in Requests => step[c] # "expire",
         \A k \in Keys : interrupted[k] => interrupted'[k]
  PROVE  Pending
  BY DEF Pending, Expiring

LEMMA DoneOthers ==
  ASSUME TypeOK, NEW c \in Clients, Done(c)
  PROVE  \A r \in Requests : r # c => step'[r] = step[r] /\ key'[r] = key[r]
  BY ClientsAssumption DEF TypeOK, ClientTypeOK, Done, Leave

LEMMA GotoOthers ==
  ASSUME TypeOK, NEW c \in Clients, NEW s, Goto(c, s), UNCHANGED key
  PROVE  \A r \in Requests : r # c => step'[r] = step[r] /\ key'[r] = key[r]
  BY ClientsAssumption DEF TypeOK, ClientTypeOK, Goto

\* INCR: only a counter it has created is new without a time to live.
LEMMA IncrExpires ==
  ASSUME TypeOK, CounterExpires, NEW r \in Requests, step[r] = "incr",
         NEW new \in Keys, NEW by \in {1, 2}, Incr(new, by),
         \A q \in Requests : q # r => step'[q] = step[q] /\ key'[q] = key[q],
         \A k \in Keys : interrupted[k] => interrupted'[k],
         count[new] = 0 => (interrupted[new] \/ Expiring(new))'
  PROVE  CounterExpires'
<1>1. Pending
  BY PendingOthers
<1>2. \A k \in Keys : k # new => count'[k] = count[k]
  BY DEF Incr, TypeOK, LimitTypeOK
<1>3. ttl' = ttl
  BY DEF Incr
<1>4. ASSUME NEW k \in Keys, count'[k] > 0, ttl'[k] = 0
      PROVE  (interrupted[k] \/ Expiring(k))'
  <2>1. CASE count[k] = 0
    <3>1. k = new
      BY <1>2, <1>4, <2>1
    <3> QED
      BY <2>1, <3>1
  <2>2. CASE count[k] # 0
    <3>1. count[k] > 0
      BY <2>2, LimitAssumption DEF TypeOK, LimitTypeOK
    <3>2. interrupted[k] \/ Expiring(k)
      BY <1>3, <1>4, <3>1 DEF CounterExpires, Expiring
    <3> QED
      BY <1>1, <3>2 DEF Pending
  <2> QED
    BY <2>1, <2>2
<1> QED
  BY <1>4 DEF CounterExpires, Expiring

LEMMA OrphanMarks ==
  ASSUME TypeOK, NEW k \in Keys, Orphan(k)
  PROVE  /\ \A j \in Keys : interrupted[j] => interrupted'[j]
         /\ count[k] = 0 => interrupted'[k]
  BY DEF TypeOK, ClientTypeOK, Orphan

LEMMA ExpiresStep ==
  ASSUME TypeOK, CounterExpires, [Next]_vars
  PROVE  CounterExpires'
<1>1. CASE Start \/ Sigterm \/ (LifecycleStep /\ phase # "closeRedis")
  <2>1. UNCHANGED <<clientVars, limitVars>>
    BY <1>1 DEF Start, Sigterm, LifecycleStep, CreatePool, PingRedis, Drained, CloseWorker, CloseQueues,
                ClosePool, CloseRedis, Enter
  <2> QED
    BY <2>1 DEF clientVars, limitVars, CounterExpires
<1>2. CASE CloseRedis \/ Crash
  <2>1. Gone
    BY <1>2 DEF CloseRedis, Crash
  <2>2. Pending
    BY <2>1 DEF Gone, Pending, Expiring
  <2> QED
    BY <2>1, <2>2, PendingKeeps DEF Gone, limitVars
<1>3. CASE Elapses
  <2>1. Elapse /\ UNCHANGED clientVars
    BY <1>3 DEF Elapses
  <2>2. \A k \in Keys : count'[k] > 0 /\ ttl'[k] = 0 => count[k] > 0 /\ ttl[k] = 0
    BY <2>1, LimitAssumption DEF Elapse, TypeOK, LimitTypeOK
  <2> QED
    BY <2>1, <2>2 DEF CounterExpires, clientVars
<1>4. CASE \E r \in Requests, k \in Keys \cup {NoKey} : Receive(r, k)
  <2>1. PICK r \in Requests, k \in Keys \cup {NoKey} : Receive(r, k)
    BY <1>4
  <2>2. \A q \in Requests : q # r => step'[q] = step[q] /\ key'[q] = key[q]
    BY <2>1, ClientsAssumption DEF Receive, Goto, TypeOK, ClientTypeOK
  <2>3. Pending
    BY <2>1, <2>2, PendingOthers DEF Receive
  <2> QED
    BY <2>1, <2>3, PendingKeeps DEF Receive, limitVars
<1>5. CASE \E r \in Requests : RetryIncrement(r)
  <2>1. PICK r \in Requests : RetryIncrement(r)
    BY <1>5
  <2>2. r \in Clients /\ key[r] \in Keys /\ UNCHANGED key
    BY <2>1, ClientsAssumption DEF RetryIncrement, TypeOK, ClientTypeOK, Limited
  <2>3. PICK s : Goto(r, s)
    BY <2>1 DEF RetryIncrement, AfterIncr
  <2>4. \A q \in Requests : q # r => step'[q] = step[q] /\ key'[q] = key[q]
    BY <2>2, <2>3, GotoOthers
  <2>5. step[r] = "incr" /\ Incr(key[r], 2) /\ Orphan(key[r])
    BY <2>1 DEF RetryIncrement
  <2> QED
    BY <2>2, <2>4, <2>5, OrphanMarks, IncrExpires
<1>6. CASE \E r \in Requests : LoseAnswer(r)
  <2>1. PICK r \in Requests : LoseAnswer(r)
    BY <1>6
  <2>2. r \in Clients /\ key[r] \in Keys
    BY <2>1, ClientsAssumption DEF LoseAnswer, TypeOK, ClientTypeOK, Limited
  <2>3. step[r] = "incr" /\ Incr(key[r], 1) /\ Orphan(key[r]) /\ Done(r)
    BY <2>1 DEF LoseAnswer
  <2>4. \A q \in Requests : q # r => step'[q] = step[q] /\ key'[q] = key[q]
    BY <2>2, <2>3, DoneOthers
  <2> QED
    BY <2>2, <2>3, <2>4, OrphanMarks, IncrExpires
<1>7. CASE \E x \in Slots : Take(x)
  <2>1. PICK x \in Slots : Take(x)
    BY <1>7
  <2>2. x \in Clients /\ x \notin Requests
    BY ClientsAssumption
  <2>3. Pending
    BY <2>1, <2>2, GotoOthers, PendingOthers DEF Take
  <2> QED
    BY <2>1, <2>3, PendingKeeps DEF Take, limitVars
<1>8. CASE \E x \in Slots, t \in Tasks : FailJob(x, t)
  <2>1. PICK x \in Slots, t \in Tasks : FailJob(x, t)
    BY <1>8
  <2>2. \A r \in Requests : step'[r] = step[r] /\ key'[r] = key[r]
    BY <2>1, ClientsAssumption DEF FailJob, Leave, TypeOK, ClientTypeOK
  <2>3. Pending
    BY <2>1, <2>2 DEF Pending, Expiring, FailJob
  <2> QED
    BY <2>1, <2>3, PendingKeeps DEF FailJob, limitVars
<1>9. CASE \E c \in Clients : ClientStep(c)
  <2>1. PICK c \in Clients : ClientStep(c)
    BY <1>9
  <2>2. CASE Done(c) /\ step[c] # "expire" /\ UNCHANGED <<limitVars, interrupted>>
    <3>1. Pending
      BY <2>2, DoneOthers, PendingOthers
    <3> QED
      BY <2>2, <3>1, PendingKeeps DEF limitVars
  <2>3. CASE AskConnection(c) /\ ~Done(c)
    <3>1. Goto(c, "conn") /\ UNCHANGED <<key, interrupted, count, ttl>> /\ step[c] = "ask"
      BY <2>3 DEF AskConnection, limitVars
    <3>2. Pending
      BY <3>1, GotoOthers, PendingOthers
    <3> QED
      BY <3>1, <3>2, PendingKeeps
  <2>4. CASE c \in Requests /\ Increment(c)
    <3>1. /\ step[c] = "incr" /\ Incr(key[c], 1) /\ AfterIncr(c) /\ UNCHANGED <<key, interrupted>>
          /\ key[c] \in Keys
      BY <2>4 DEF Increment, TypeOK, ClientTypeOK, Limited
    <3>2. PICK s : Goto(c, s)
      BY <3>1 DEF AfterIncr
    <3>3. \A q \in Requests : q # c => step'[q] = step[q] /\ key'[q] = key[q]
      BY <3>1, <3>2, GotoOthers
    <3>4. ASSUME count[key[c]] = 0 PROVE Expiring(key[c])'
      <4>1. count'[key[c]] = 1
        BY <3>1, <3>4, LimitAssumption DEF Incr, Plus, TypeOK, LimitTypeOK
      <4>2. step'[c] = "expire"
        BY <3>1, <4>1 DEF AfterIncr, IsFirst, Goto, TypeOK, ClientTypeOK
      <4> QED
        BY <2>4, <3>1, <4>2 DEF Expiring
    <3> QED
      BY <2>4, <3>1, <3>3, <3>4, IncrExpires
  <2>5. CASE c \in Requests /\ SetExpiry(c)
    <3>1. /\ step[c] = "expire" /\ Expire(key[c]) /\ Goto(c, "work") /\ UNCHANGED <<key, interrupted>>
          /\ key[c] \in Keys
      BY <2>5 DEF SetExpiry, TypeOK, ClientTypeOK, Limited
    <3>2. \A q \in Requests : q # c => step'[q] = step[q] /\ key'[q] = key[q]
      BY <3>1, GotoOthers
    <3>3. count'[key[c]] > 0 => ttl'[key[c]] # 0
      BY <3>1, LimitAssumption DEF Expire, TypeOK, LimitTypeOK
    <3>4. \A k \in Keys : k # key[c] => ttl'[k] = ttl[k] /\ count'[k] = count[k]
      BY <3>1 DEF Expire, TypeOK, LimitTypeOK
    <3>5. ASSUME NEW k \in Keys, count'[k] > 0, ttl'[k] = 0
          PROVE  (interrupted[k] \/ Expiring(k))'
      <4>1. k # key[c] /\ count[k] > 0 /\ ttl[k] = 0
        BY <3>3, <3>4, <3>5
      <4>2. interrupted[k] \/ \E r \in Requests : r # c /\ step[r] = "expire" /\ key[r] = k
        BY <4>1 DEF CounterExpires
      <4> QED
        BY <3>1, <3>2, <4>2 DEF Expiring
    <3> QED
      BY <3>5 DEF CounterExpires, Expiring
  <2> QED
    BY <2>1, <2>2, <2>3, <2>4, <2>5 DEF ClientStep, AskConnection, Work, ReadTtl
<1>10. CASE \E c \in Clients : Connected(c)
  <2>1. PICK c \in Clients : Connected(c)
    BY <1>10
  <2>2. Pending
    BY <2>1, GotoOthers, PendingOthers DEF Connected
  <2> QED
    BY <2>1, <2>2, PendingKeeps DEF Connected, limitVars
<1>11. CASE \E c \in Clients : Fails(c)
  <2>1. PICK c \in Clients : Fails(c)
    BY <1>11
  <2>2. \A r \in Requests : r # c => step'[r] = step[r] /\ key'[r] = key[r]
    BY <2>1, DoneOthers DEF Fails
  <2>3. Pending
    <3>1. CASE step[c] = "expire"
      <4>1. interrupted' = [interrupted EXCEPT ![key[c]] = TRUE] /\ key[c] \in Keys
        BY <2>1, <3>1 DEF Fails, TypeOK, ClientTypeOK, Limited
      <4> QED
        BY <2>2, <4>1 DEF Pending, Expiring, TypeOK, ClientTypeOK
    <3>2. CASE step[c] # "expire"
      BY <2>1, <2>2, <3>2, PendingOthers DEF Fails
    <3> QED
      BY <3>1, <3>2
  <2> QED
    BY <2>1, <2>3, PendingKeeps DEF Fails, limitVars
<1>12. CASE UNCHANGED vars
  BY <1>12 DEF vars, clientVars, limitVars, CounterExpires
<1> QED
  BY <1>1, <1>2, <1>3, <1>4, <1>5, <1>6, <1>7, <1>8, <1>9, <1>10, <1>11, <1>12, NextSplit

\* A counter has a time to live, or will, unless who created it was interrupted.
THEOREM CountersExpire == Spec => []CounterExpires
<1>1. Init => CounterExpires
  BY DEF Init, LimitInit, CounterExpires
<1> QED
  BY <1>1, TypeCorrect, ExpiresStep, PTL DEF Spec

-----------------------------------------------------------------------------
(* The limit *)

\* Induction up to n: otherwise the successor were an injection of s into s that is not onto.
LEMMA Induction ==
  ASSUME NEW n \in Nat, NEW s \in SUBSET (0..n), 0 \in s, \A i \in s : i < n => i + 1 \in s
  PROVE  n \in s
<1> SUFFICES ASSUME n \notin s PROVE FALSE
  OBVIOUS
<1> DEFINE next == [i \in s |-> i + 1]
<1>1. next \in [s -> s]
  <2>1. \A i \in s : i < n
    OBVIOUS
  <2> QED
    BY <2>1
<1>2. \A i, j \in s : next[i] = next[j] => i = j
  OBVIOUS
<1>3. \A i \in s : next[i] # 0
  OBVIOUS
<1> HIDE DEF next
<1>4. IsFiniteSet(s)
  <2>1. IsFiniteSet(0..n)
    BY FS_Interval
  <2> QED
    BY <2>1, FS_Subset
<1>5. next \in Injection(s, s)
  BY <1>1, <1>2 DEF Injection, IsInjective
<1>6. next \in Surjection(s, s)
  BY <1>4, <1>5, FS_Injection
<1>7. \E i \in s : next[i] = 0
  BY <1>6 DEF Surjection
<1> QED
  BY <1>3, <1>7

Sums(n, f, g) ==
    /\ g \in [0..n -> Nat]
    /\ g[0] = 0
    /\ \A t \in 1..n : g[t] = g[t - 1] + f[t]

LEMMA SumsExist ==
  ASSUME NEW f \in [1..Window -> Nat]
  PROVE  \E g : Sums(Window, f, g)
<1> DEFINE s == {n \in 0..Window : \E g : Sums(n, f, g)}
<1>1. 0 \in s
  <2>1. Sums(0, f, [t \in 0..0 |-> 0])
    BY DEF Sums
  <2> QED
    BY <2>1, LimitAssumption
<1>2. ASSUME NEW n \in s, n < Window
      PROVE  n + 1 \in s
  <2>1. PICK g : Sums(n, f, g)
    OBVIOUS
  <2> DEFINE h == [t \in 0..(n + 1) |-> IF t = n + 1 THEN g[n] + f[n + 1] ELSE g[t]]
  <2>2. n \in Nat /\ f[n + 1] \in Nat /\ g[n] \in Nat
    BY <1>2, <2>1, LimitAssumption DEF Sums
  <2>3. \A t \in 0..n : h[t] = g[t]
    BY <2>2
  <2>4. h[n + 1] = g[n] + f[n + 1]
    BY <2>2
  <2>5. h \in [0..(n + 1) -> Nat]
    BY <2>1, <2>2 DEF Sums
  <2> HIDE DEF h
  <2>6. \A t \in 1..(n + 1) : h[t] = h[t - 1] + f[t]
    <3> TAKE t \in 1..(n + 1)
    <3>1. CASE t = n + 1
      BY <2>2, <2>3, <2>4, <3>1
    <3>2. CASE t \in 1..n
      <4>1. h[t] = g[t] /\ h[t - 1] = g[t - 1]
        BY <2>2, <2>3, <3>2
      <4> QED
        BY <2>1, <3>2, <4>1 DEF Sums
    <3> QED
      BY <2>2, <3>1, <3>2
  <2>7. Sums(n + 1, f, h)
    BY <2>1, <2>2, <2>3, <2>5, <2>6 DEF Sums
  <2> QED
    BY <1>2, <2>2, <2>7, LimitAssumption
<1>3. s \in SUBSET (0..Window)
  OBVIOUS
<1> HIDE DEF s
<1>4. Window \in s
  BY <1>1, <1>2, <1>3, Induction, LimitAssumption
<1> QED
  BY <1>4 DEF s

LEMMA ThroughSums ==
  ASSUME NEW f \in [1..Window -> Nat]
  PROVE  Sums(Window, f, Through(f))
<1> DEFINE Unfold(g) == [t \in 0..Window |-> IF t = 0 THEN 0 ELSE g[t - 1] + f[t]]
<1>1. PICK g : Sums(Window, f, g)
  BY SumsExist
<1>2. g = Unfold(g)
  BY <1>1, LimitAssumption DEF Sums
<1>3. Through(f) = CHOOSE h : h = Unfold(h)
  BY DEF Through
<1>4. Through(f) = Unfold(Through(f))
  BY <1>2, <1>3
<1> DEFINE h == Through(f)
<1>5. h = [t \in 0..Window |-> IF t = 0 THEN 0 ELSE h[t - 1] + f[t]]
  BY <1>4
<1> HIDE DEF h, Unfold
<1>6. h[0] = 0 /\ \A t \in 1..Window : h[t] = h[t - 1] + f[t]
  BY <1>5, LimitAssumption
<1>7. \A n \in 0..Window : h[n] \in Nat
  <2> TAKE n \in 0..Window
  <2> DEFINE s == {t \in 0..n : h[t] \in Nat}
  <2>1. 0 \in s
    BY <1>6
  <2>2. \A t \in s : t < n => t + 1 \in s
    <3> SUFFICES ASSUME NEW t \in s, t < n PROVE t + 1 \in s
      OBVIOUS
    <3>1. t + 1 \in 1..Window /\ (t + 1) - 1 = t
      BY LimitAssumption
    <3>2. h[t + 1] = h[t] + f[t + 1] /\ f[t + 1] \in Nat
      BY <1>6, <3>1
    <3> QED
      BY <3>1, <3>2
  <2>3. s \in SUBSET (0..n) /\ n \in Nat
    BY LimitAssumption
  <2> HIDE DEF s
  <2>4. n \in s
    BY <2>1, <2>2, <2>3, Induction
  <2> QED
    BY <2>4 DEF s
<1>8. Sums(Window, f, h)
  BY <1>5, <1>6, <1>7 DEF Sums
<1> QED
  BY <1>8 DEF h

\* Another request is let through: the sums that have begun grow by one.
LEMMA ThroughAdmits ==
  ASSUME NEW f \in [1..Window -> Nat], NEW e \in [1..Window -> Nat],
         e[1] = f[1] + 1, \A i \in 2..Window : e[i] = f[i]
  PROVE  \A t \in 1..Window : Through(e)[t] = Through(f)[t] + 1
<1> TAKE t \in 1..Window
<1> DEFINE g == Through(f)  h == Through(e)
           s == {i \in 0..(t - 1) : h[i + 1] = g[i + 1] + 1}
<1>2. /\ g[0] = 0 /\ h[0] = 0
      /\ \A i \in 1..Window : g[i] = g[i - 1] + f[i] /\ h[i] = h[i - 1] + e[i]
      /\ \A i \in 0..Window : g[i] \in Nat /\ h[i] \in Nat
  BY ThroughSums DEF Sums
<1> HIDE DEF g, h
<1>4. 0 \in s
  <2>1. 1 \in 1..Window /\ 1 - 1 = 0 /\ 0 \in 0..(t - 1)
    BY LimitAssumption
  <2>2. g[1] = 0 + f[1] /\ h[1] = 0 + e[1] /\ f[1] \in Nat
    BY <1>2, <2>1
  <2> QED
    BY <2>1, <2>2
<1>5. \A i \in s : i < t - 1 => i + 1 \in s
  <2> SUFFICES ASSUME NEW i \in s, i < t - 1 PROVE i + 1 \in s
    OBVIOUS
  <2>1. /\ i + 2 \in 2..Window /\ (i + 2) - 1 = i + 1 /\ (i + 1) + 1 = i + 2
        /\ i + 1 \in 0..(t - 1) /\ i + 1 \in 0..Window
    BY LimitAssumption
  <2>2. g[i + 2] = g[i + 1] + f[i + 2] /\ h[i + 2] = h[i + 1] + f[i + 2]
    BY <1>2, <2>1
  <2>3. h[i + 1] = g[i + 1] + 1
    OBVIOUS
  <2>4. f[i + 2] \in Nat
    BY <2>1
  <2>5. g[i + 1] \in Nat
    BY <1>2, <2>1
  <2> QED
    BY <2>1, <2>2, <2>3, <2>4, <2>5
<1>6. t - 1 \in Nat /\ s \in SUBSET (0..(t - 1))
  BY LimitAssumption
<1> HIDE DEF s
<1>7. t - 1 \in s
  BY <1>4, <1>5, <1>6, Induction
<1> QED
  BY <1>7, LimitAssumption DEF s, g, h

\* A tick passes: a sum is now what the sum of one tick less was.
LEMMA ThroughElapses ==
  ASSUME NEW f \in [1..Window -> Nat], NEW e \in [1..Window -> Nat],
         e[1] = 0, \A i \in 2..Window : e[i] = f[i - 1]
  PROVE  \A t \in 1..Window : Through(e)[t] = Through(f)[t - 1]
<1> TAKE t \in 1..Window
<1> DEFINE g == Through(f)  h == Through(e)
           s == {i \in 0..(t - 1) : h[i + 1] = g[i]}
<1>2. /\ g[0] = 0 /\ h[0] = 0
      /\ \A i \in 1..Window : g[i] = g[i - 1] + f[i] /\ h[i] = h[i - 1] + e[i]
      /\ \A i \in 0..Window : g[i] \in Nat /\ h[i] \in Nat
  BY ThroughSums DEF Sums
<1> HIDE DEF g, h
<1>4. 0 \in s
  <2>1. 1 \in 1..Window /\ 1 - 1 = 0
    BY LimitAssumption
  <2>2. h[1] = h[0] + e[1]
    BY <1>2, <2>1
  <2>3. h[1] = 0
    BY <1>2, <2>2
  <2> QED
    BY <1>2, <2>3
<1>5. \A i \in s : i < t - 1 => i + 1 \in s
  <2> SUFFICES ASSUME NEW i \in s, i < t - 1 PROVE i + 1 \in s
    OBVIOUS
  <2>1. /\ i + 2 \in 2..Window /\ (i + 2) - 1 = i + 1 /\ (i + 1) + 1 = i + 2
        /\ i + 1 \in 0..(t - 1) /\ i + 1 \in 1..Window /\ (i + 1) - 1 = i
    BY LimitAssumption
  <2>2. h[i + 2] = h[i + 1] + f[i + 1] /\ g[i + 1] = g[i] + f[i + 1]
    BY <1>2, <2>1
  <2>3. h[i + 1] = g[i]
    OBVIOUS
  <2> QED
    BY <2>1, <2>2, <2>3
<1>6. t - 1 \in Nat /\ s \in SUBSET (0..(t - 1))
  BY LimitAssumption
<1> HIDE DEF s
<1>7. t - 1 \in s
  BY <1>4, <1>5, <1>6, Induction
<1> QED
  BY <1>7, LimitAssumption DEF s, g, h

\* Of the requests a counter has counted, those that were let through.
Passed(n) == IF n > MaxAttempts THEN MaxAttempts ELSE n

\* The window reaches back into the life of the last counter but one at most, and there not to
\* its first request: since its EXPIRE, which came later, not all of Passed were let through.
WindowInv ==
    \A k \in Keys :
        /\ Through(admitted[k])[Window] <= MaxAttempts - 1 + Passed(count[k])
        /\ ttl[k] > 0 => Through(admitted[k])[Window - ttl[k]] <= Passed(count[k]) - 1

LEMMA LimitNext ==
  ASSUME TypeOK, [Next]_vars
  PROVE  \/ UNCHANGED limitVars
         \/ Elapse
         \/ \E k \in Keys : Expire(k)
         \/ \E k \in Keys, by \in {1, 2} : Incr(k, by)
<1> DEFINE Goal == \/ UNCHANGED limitVars
                   \/ Elapse
                   \/ \E k \in Keys : Expire(k)
                   \/ \E k \in Keys, by \in {1, 2} : Incr(k, by)
<1>1. ASSUME NEW r \in Requests, step[r] \in Limited PROVE key[r] \in Keys
  BY <1>1, ClientsAssumption DEF TypeOK, ClientTypeOK
<1>2. ASSUME NEW r \in Requests, RetryIncrement(r) \/ LoseAnswer(r) \/ Increment(r) PROVE Goal
  BY <1>1, <1>2 DEF RetryIncrement, LoseAnswer, Increment, Limited
<1>3. ASSUME NEW r \in Requests, SetExpiry(r) PROVE Goal
  BY <1>1, <1>3 DEF SetExpiry, Limited
<1>4. CASE UNCHANGED limitVars
  BY <1>4
<1>5. CASE Elapses
  BY <1>5 DEF Elapses
<1> QED
  BY <1>2, <1>3, <1>4, <1>5
  DEF Next, vars, Start, LifecycleStep, CreatePool, PingRedis, Sigterm, Drained, CloseWorker,
      CloseQueues, ClosePool, CloseRedis, Crash, Gone, Enter, Receive, Take, FailJob, ClientStep,
      AskConnection, Work, ReadTtl, Connected, Fails

LEMMA AdmittedSums ==
  ASSUME TypeOK, NEW k \in Keys
  PROVE  /\ admitted[k] \in [1..Window -> Nat]
         /\ Through(admitted[k]) \in [0..Window -> Nat]
         /\ Through(admitted[k])[0] = 0
         /\ Through(admitted[k])[Window - 1] <= Through(admitted[k])[Window]
         /\ count[k] \in Nat /\ ttl[k] \in 0..Window /\ (count[k] = 0 => ttl[k] = 0)
<1>1. admitted[k] \in [1..Window -> Nat]
  BY DEF TypeOK, LimitTypeOK
<1>2. Sums(Window, admitted[k], Through(admitted[k]))
  BY <1>1, ThroughSums
<1> DEFINE f == admitted[k]  g == Through(f)
<1> HIDE DEF f, g
<1>3. g \in [0..Window -> Nat] /\ g[0] = 0 /\ \A t \in 1..Window : g[t] = g[t - 1] + f[t]
  BY <1>2 DEF Sums, f, g
<1>4. f[Window] \in Nat /\ Window \in 1..Window /\ Window - 1 \in 0..Window
  BY <1>1, LimitAssumption DEF f
<1>5. g[Window - 1] <= g[Window]
  BY <1>3, <1>4
<1>6. count[k] \in Nat /\ ttl[k] \in 0..Window /\ (count[k] = 0 => ttl[k] = 0)
  BY LimitAssumption DEF TypeOK, LimitTypeOK
<1> QED
  BY <1>1, <1>3, <1>5, <1>6 DEF f, g

LEMMA WindowStep ==
  ASSUME TypeOK, WindowInv, [Next]_vars
  PROVE  WindowInv'
<1> USE LimitAssumption
<1>1. CASE UNCHANGED limitVars
  BY <1>1 DEF limitVars, WindowInv
<1>2. CASE Elapse
  <2> SUFFICES ASSUME NEW k \in Keys
               PROVE  /\ Through(admitted'[k])[Window] <= MaxAttempts - 1 + Passed(count'[k])
                      /\ ttl'[k] > 0 =>
                            Through(admitted'[k])[Window - ttl'[k]] <= Passed(count'[k]) - 1
    BY DEF WindowInv
  <2> DEFINE g == Through(admitted[k])  h == Through(admitted'[k])
  <2>1. /\ count'[k] = IF ttl[k] = 1 THEN 0 ELSE count[k]
        /\ ttl'[k] = IF ttl[k] > 0 THEN ttl[k] - 1 ELSE 0
        /\ admitted'[k] = [t \in 1..Window |-> IF t = 1 THEN 0 ELSE admitted[k][t - 1]]
    BY <1>2 DEF Elapse
  <2>2. /\ g \in [0..Window -> Nat] /\ g[Window - 1] <= g[Window]
        /\ count[k] \in Nat /\ ttl[k] \in 0..Window
    BY AdmittedSums
  <2>3. \A t \in 1..Window : h[t] = g[t - 1]
    <3>1. admitted[k] \in [1..Window -> Nat]
      BY AdmittedSums
    <3>2. /\ admitted'[k] \in [1..Window -> Nat] /\ admitted'[k][1] = 0
          /\ \A t \in 2..Window : admitted'[k][t] = admitted[k][t - 1]
      BY <2>1, <3>1
    <3> QED
      BY <3>1, <3>2, ThroughElapses
  <2>4. /\ g[Window] <= MaxAttempts - 1 + Passed(count[k])
        /\ ttl[k] > 0 => g[Window - ttl[k]] <= Passed(count[k]) - 1
    BY DEF WindowInv
  <2> HIDE DEF g, h
  <2>5. h[Window] = g[Window - 1] /\ g[Window - 1] \in Nat /\ g[Window] \in Nat
    BY <2>2, <2>3
  <2>6. CASE ttl[k] = 0
    <3>1. ttl'[k] = 0 /\ count'[k] = count[k]
      BY <2>1, <2>6
    <3>2. Passed(count[k]) \in Nat
      BY <2>2 DEF Passed
    <3>3. h[Window] <= MaxAttempts - 1 + Passed(count[k])
      BY <2>2, <2>4, <2>5, <3>2
    <3> QED
      BY <3>1, <3>3 DEF h
  <2>7. CASE ttl[k] = 1
    <3>1. Passed(count'[k]) = 0 /\ ttl'[k] = 0 /\ Passed(count[k]) <= MaxAttempts
      BY <2>1, <2>2, <2>7 DEF Passed
    <3>2. h[Window] <= Passed(count[k]) - 1 /\ Passed(count[k]) \in Nat
      BY <2>2, <2>4, <2>5, <2>7 DEF Passed
    <3> QED
      BY <2>5, <3>1, <3>2 DEF h
  <2>8. CASE ttl[k] > 1
    <3>1. ttl'[k] = ttl[k] - 1 /\ count'[k] = count[k]
      BY <2>1, <2>2, <2>8
    <3>2. Window - ttl'[k] \in 1..Window /\ (Window - ttl'[k]) - 1 = Window - ttl[k]
      BY <2>2, <2>8, <3>1
    <3>3. h[Window - ttl'[k]] = g[Window - ttl[k]]
      BY <2>3, <3>2
    <3>4. Passed(count[k]) \in Nat
      BY <2>2 DEF Passed
    <3> QED
      BY <2>2, <2>4, <2>5, <2>8, <3>1, <3>3, <3>4 DEF g, h
  <2> QED
    BY <2>2, <2>6, <2>7, <2>8
<1>3. ASSUME NEW new \in Keys, Expire(new) PROVE WindowInv'
  <2> SUFFICES ASSUME NEW k \in Keys
               PROVE  /\ Through(admitted'[k])[Window] <= MaxAttempts - 1 + Passed(count'[k])
                      /\ ttl'[k] > 0 =>
                            Through(admitted'[k])[Window - ttl'[k]] <= Passed(count'[k]) - 1
    BY DEF WindowInv
  <2>1. admitted' = admitted /\ count' = count
    BY <1>3 DEF Expire
  <2>2. ttl'[k] = ttl[k] \/ (ttl'[k] = Window /\ count[k] > 0)
    BY <1>3 DEF Expire, TypeOK, LimitTypeOK
  <2>3. CASE ttl'[k] = ttl[k]
    BY <2>1, <2>3 DEF WindowInv
  <2>4. CASE ttl'[k] = Window /\ count[k] > 0
    <3>1. Window - ttl'[k] = 0 /\ Passed(count[k]) >= 1 /\ Passed(count[k]) \in Nat
      BY <2>4, AdmittedSums DEF Passed
    <3>2. Through(admitted[k])[0] = 0
      BY AdmittedSums
    <3>3. Through(admitted[k])[Window] <= MaxAttempts - 1 + Passed(count[k])
      BY DEF WindowInv
    <3> QED
      BY <2>1, <3>1, <3>2, <3>3
  <2> QED
    BY <2>2, <2>3, <2>4
<1>4. ASSUME NEW new \in Keys, NEW by \in {1, 2}, Incr(new, by) PROVE WindowInv'
  <2> SUFFICES ASSUME NEW k \in Keys
               PROVE  /\ Through(admitted'[k])[Window] <= MaxAttempts - 1 + Passed(count'[k])
                      /\ ttl'[k] > 0 =>
                            Through(admitted'[k])[Window - ttl'[k]] <= Passed(count'[k]) - 1
    BY DEF WindowInv
  <2>1. ttl' = ttl
    BY <1>4 DEF Incr
  <2> DEFINE g == Through(admitted[k])  h == Through(admitted'[k])  n == Plus(count[k], by)
  <2>2. /\ g[Window] <= MaxAttempts - 1 + Passed(count[k])
        /\ ttl[k] > 0 => g[Window - ttl[k]] <= Passed(count[k]) - 1
    BY DEF WindowInv
  <2>3. CASE k # new
    <3>1. count'[k] = count[k] /\ admitted'[k] = admitted[k]
      BY <1>4, <2>3 DEF Incr, TypeOK, LimitTypeOK
    <3> QED
      BY <2>1, <2>2, <3>1
  <2>4. CASE k = new /\ Exceeds(n)
    <3>1. count'[k] = n /\ admitted'[k] = admitted[k]
      BY <1>4, <2>4 DEF Incr, TypeOK, LimitTypeOK
    <3>2. Passed(count[k]) <= Passed(n) /\ Passed(count[k]) \in Nat /\ Passed(n) \in Nat
      BY <2>4, AdmittedSums DEF Passed, Exceeds, Plus
    <3>3. g \in [0..Window -> Nat] /\ ttl[k] \in 0..Window
      BY AdmittedSums
    <3> HIDE DEF g, h, n
    <3>4. g[Window] \in Nat /\ g[Window - ttl[k]] \in Nat
      BY <3>3
    <3>5. /\ g[Window] <= MaxAttempts - 1 + Passed(n)
          /\ ttl[k] > 0 => g[Window - ttl[k]] <= Passed(n) - 1
      BY <2>2, <3>2, <3>4
    <3> QED
      BY <2>1, <3>1, <3>5 DEF g
  <2>5. CASE k = new /\ ~ Exceeds(n)
    <3>1. count'[k] = n /\ admitted'[k] = [admitted[k] EXCEPT ![1] = @ + 1]
      BY <1>4, <2>5 DEF Incr, TypeOK, LimitTypeOK
    <3>2. /\ admitted[k] \in [1..Window -> Nat] /\ admitted'[k] \in [1..Window -> Nat]
          /\ admitted'[k][1] = admitted[k][1] + 1
          /\ \A t \in 2..Window : admitted'[k][t] = admitted[k][t]
      <4>1. admitted[k] \in [1..Window -> Nat]
        BY AdmittedSums
      <4>2. 1 \in 1..Window /\ admitted[k][1] + 1 \in Nat
        BY <4>1
      <4> QED
        BY <3>1, <4>1, <4>2
    <3>10. \A t \in 1..Window : h[t] = g[t] + 1
      BY <3>2, ThroughAdmits
    <3>3. Passed(count[k]) + 1 <= Passed(n) /\ Passed(count[k]) \in Nat /\ Passed(n) \in Nat
      BY <2>5, AdmittedSums DEF Passed, Exceeds, Plus
    <3>4. g \in [0..Window -> Nat] /\ ttl[k] \in 0..Window
      BY AdmittedSums
    <3>5. h[0] = 0 /\ g[0] = 0
      BY <3>2, ThroughSums DEF Sums
    <3>6. Passed(n) >= 1
      BY <3>3
    <3> HIDE DEF g, h, n
    <3>7. g[Window] \in Nat /\ g[Window - ttl[k]] \in Nat
      BY <3>4
    <3>8. h[Window] <= MaxAttempts - 1 + Passed(n)
      BY <2>2, <3>3, <3>7, <3>10
    <3>9. ttl[k] > 0 => h[Window - ttl[k]] <= Passed(n) - 1
      <4>1. CASE ttl[k] = Window
        BY <3>3, <3>5, <3>6, <4>1
      <4>2. CASE ttl[k] > 0 /\ ttl[k] # Window
        <5>1. h[Window - ttl[k]] = g[Window - ttl[k]] + 1
          <6>1. Window - ttl[k] \in 1..Window
            BY <3>4, <4>2
          <6> QED
            BY <3>10, <6>1
        <5> QED
          BY <2>2, <3>3, <3>7, <4>2, <5>1
      <4> QED
        BY <3>4, <4>1, <4>2
    <3> QED
      BY <2>1, <3>1, <3>8, <3>9 DEF h
  <2> QED
    BY <2>3, <2>4, <2>5
<1> QED
  BY <1>1, <1>2, <1>3, <1>4, LimitNext

\* In no stretch as long as the window do twice as many requests as the limit get through,
\* however they interleave and whatever fails (_check_rate_limit).
THEOREM LimitIsKept == Spec => []LimitHolds
<1>1. Init => WindowInv
  <2> SUFFICES ASSUME Init PROVE WindowInv
    OBVIOUS
  <2>1. \A k \in Keys : /\ count[k] = 0 /\ ttl[k] = 0
                        /\ admitted[k] = [t \in 1..Window |-> 0]
    BY DEF Init, LimitInit
  <2> DEFINE f == [t \in 1..Window |-> 0]  g == Through(f)
  <2>2. Sums(Window, f, g)
    BY ThroughSums
  <2> HIDE DEF g
  <2>3. g[0] = 0 /\ \A t \in 1..Window : g[t] = g[t - 1]
    <3>1. /\ g \in [0..Window -> Nat] /\ g[0] = 0
          /\ \A t \in 1..Window : g[t] = g[t - 1] + f[t] /\ f[t] = 0
      BY <2>2 DEF Sums
    <3> HIDE DEF f
    <3>2. \A t \in 1..Window : g[t - 1] \in Nat
      BY <3>1, LimitAssumption
    <3> QED
      BY <3>1, <3>2
  <2> DEFINE s == {t \in 0..Window : g[t] = 0}
  <2>4. Window \in s
    <3>1. 0 \in s
      BY <2>3, LimitAssumption
    <3>2. \A t \in s : t < Window => t + 1 \in s
      BY <2>3, LimitAssumption
    <3>3. s \in SUBSET (0..Window)
      OBVIOUS
    <3> HIDE DEF s
    <3> QED
      BY <3>1, <3>2, <3>3, Induction, LimitAssumption
  <2> QED
    BY <2>1, <2>4, LimitAssumption DEF WindowInv, Passed, g
<1>2. TypeOK /\ WindowInv => LimitHolds
  <2> SUFFICES ASSUME TypeOK, WindowInv, NEW k \in Keys
               PROVE  Through(admitted[k])[Window] <= 2 * MaxAttempts - 1
    BY DEF LimitHolds
  <2>1. Passed(count[k]) <= MaxAttempts /\ Passed(count[k]) \in Nat
    BY AdmittedSums, LimitAssumption DEF Passed
  <2>2. Through(admitted[k])[Window] \in Nat
    BY AdmittedSums, LimitAssumption
  <2>3. Through(admitted[k])[Window] <= MaxAttempts - 1 + Passed(count[k])
    BY DEF WindowInv
  <2> QED
    BY <2>1, <2>2, <2>3, LimitAssumption
<1> QED
  BY <1>1, <1>2, TypeCorrect, WindowStep, PTL DEF Spec
=============================================================================
