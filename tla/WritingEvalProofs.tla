------------------------- MODULE WritingEvalProofs -------------------------
(***************************************************************************)
(* Theorems about the evaluation pipeline, for all values of its constants *)
(***************************************************************************)
EXTENDS WritingEval, FiniteSetTheorems, TLAPS

LEMMA SessionOfBusy ==
  ASSUME WorkerTypeOK, NEW x \in Slots, pc[x] # "idle"
  PROVE  /\ Session(x) \in Sessions
         /\ Learner(x) \in Users
         /\ Learner(x) = Owner[Session(x)]
  BY PipelineAssumption DEF WorkerTypeOK, Session, Learner

-----------------------------------------------------------------------------
(* Type correctness: one lemma for each part of the state *)

LEMMA InitType == Init => TypeOK
  <1> SUFFICES ASSUME Init PROVE TypeOK
    OBVIOUS
  <1> USE QueueAssumption, PipelineAssumption DEF Init
  <1>1. QueueTypeOK  BY DEF QueueInit, QueueTypeOK
  <1>2. SessionTypeOK  BY DEF SessionTypeOK
  <1>3. LearnerTypeOK  BY DEF LearnerTypeOK
  <1>4. WorkerTypeOK  BY DEF WorkerTypeOK, Steps, Blank, Locals
  <1>5. FaultTypeOK  BY DEF FaultTypeOK
  <1> QED  BY <1>1, <1>2, <1>3, <1>4, <1>5 DEF TypeOK

LEMMA QueueType ==
  ASSUME QueueTypeOK, WorkerTypeOK, [Next]_vars
  PROVE  QueueTypeOK'
  <1> USE DEF QueueTypeOK, queueVars
  <1>1. ASSUME NEW s \in Sessions, Handle(s) PROVE QueueTypeOK'
    BY <1>1 DEF Handle, Admit, Refuse, InsertSession, Enqueue, Add
  <1>2. ASSUME NEW s \in Sessions, MarkFailed(s) \/ RouteToDlq(s) PROVE QueueTypeOK'
    BY <1>2 DEF MarkFailed, RouteToDlq
  <1>3. ASSUME NEW s \in Sessions, StalledCheck(s) PROVE QueueTypeOK'
    BY <1>3 DEF StalledCheck, Reclaim
  <1>4. ASSUME NEW x \in Slots, NEW s \in Sessions, Start(x, s) PROVE QueueTypeOK'
    BY <1>4 DEF Start, Take
  <1>5. ASSUME NEW x \in Slots, Execute(x) PROVE QueueTypeOK'
    <2>1. CASE Return(x)  BY <2>1 DEF Return, Complete
    <2>2. CASE Raise(x)
      <3>1. Session(x) \in Sessions  BY <2>2, SessionOfBusy DEF Raise
      <3>2. Fail(Session(x), x, pc[x] = "unrecoverable")  BY <2>2 DEF Raise
      <3> QED  BY <3>1, <3>2 DEF Fail
    <2>3. CASE UNCHANGED queueVars  BY <2>3
    <2> QED
      BY <1>5, <2>1, <2>2, <2>3
      DEF Execute, MarkProcessing, FetchSession, CallProvider, ResetSession, CreateRun,
          ScoreSession, ReadVector, WriteVector, ReadSnapshot, WriteSnapshot
  <1>6. ASSUME Fault PROVE QueueTypeOK'
    BY <1>6, QueueAssumption
    DEF Fault, RequestError, TaskError, LockExpires, LoseLock, DatabaseError, Crash, DropLocks
  <1>7. CASE UNCHANGED vars
    BY <1>7 DEF vars
  <1> QED
    BY <1>1, <1>2, <1>3, <1>4, <1>5, <1>6, <1>7 DEF Next

LEMMA SessionType ==
  ASSUME SessionTypeOK, WorkerTypeOK, [Next]_vars
  PROVE  SessionTypeOK'
  <1> USE DEF SessionTypeOK, sessionVars
  <1>1. ASSUME NEW s \in Sessions, Handle(s) PROVE SessionTypeOK'
    BY <1>1 DEF Handle, Admit, Refuse, InsertSession, Enqueue
  <1>2. ASSUME NEW s \in Sessions, MarkFailed(s) \/ RouteToDlq(s) \/ StalledCheck(s)
        PROVE SessionTypeOK'
    BY <1>2 DEF MarkFailed, RouteToDlq, StalledCheck
  <1>3. ASSUME NEW x \in Slots, NEW s \in Sessions, Start(x, s) PROVE SessionTypeOK'
    BY <1>3 DEF Start
  <1>4. ASSUME NEW x \in Slots, Execute(x) PROVE SessionTypeOK'
    <2>1. CASE MarkProcessing(x)  BY <2>1 DEF MarkProcessing
    <2>2. CASE ResetSession(x)  BY <2>2 DEF ResetSession
    <2>3. CASE CreateRun(x)
      <3>1. Session(x) \in Sessions  BY <2>3, SessionOfBusy DEF CreateRun
      <3>2. runs[Session(x)] + 1 \in Nat  BY <3>1
      <3> QED  BY <2>3, <3>2 DEF CreateRun
    <2>4. CASE ScoreSession(x)
      <3>1. local[x].run \in Nat  BY DEF WorkerTypeOK, Locals
      <3> QED  BY <2>4, <3>1 DEF ScoreSession
    <2>5. CASE UNCHANGED <<request, sessionVars>>  BY <2>5
    <2> QED
      BY <1>4, <2>1, <2>2, <2>3, <2>4, <2>5
      DEF Execute, FetchSession, CallProvider, ReadVector, WriteVector, ReadSnapshot,
          WriteSnapshot, Return, Raise
  <1>5. ASSUME Fault PROVE SessionTypeOK'
    BY <1>5 DEF Fault, RequestError, TaskError, LockExpires, DatabaseError, Crash
  <1>6. CASE UNCHANGED vars
    BY <1>6 DEF vars
  <1> QED
    BY <1>1, <1>2, <1>3, <1>4, <1>5, <1>6 DEF Next

LEMMA LearnerType ==
  ASSUME LearnerTypeOK, WorkerTypeOK, [Next]_vars
  PROVE  LearnerTypeOK'
  <1> USE DEF LearnerTypeOK, learnerVars
  <1>1. ASSUME NEW x \in Slots, WriteVector(x) PROVE LearnerTypeOK'
    <2>1. Learner(x) \in Users /\ Session(x) \in Sessions
      BY <1>1, SessionOfBusy DEF WriteVector
    <2>2. Append(local[x].base, Session(x)) \in Seq(Sessions)
      BY <2>1 DEF WorkerTypeOK, Locals
    <2>3. version[Learner(x)] + 1 \in Nat  BY <2>1
    <2>4. vector' \in [Users -> Seq(Sessions)]  BY <1>1, <2>2 DEF WriteVector
    <2>5. version' \in [Users -> Nat]  BY <1>1, <2>3 DEF WriteVector
    <2> QED  BY <1>1, <2>4, <2>5 DEF WriteVector
  <1>2. ASSUME NEW x \in Slots, WriteSnapshot(x) PROVE LearnerTypeOK'
    <2>1. Learner(x) \in Users /\ Session(x) \in Sessions
      BY <1>2, SessionOfBusy DEF WriteSnapshot
    <2> DEFINE entry == [of |-> Session(x), shows |-> local[x].seen]
    <2>2. entry \in Snapshot
      BY <2>1 DEF WorkerTypeOK, Locals, Snapshot
    <2>3. snapshots' = [snapshots EXCEPT ![Learner(x)] = Append(@, entry)]
      BY <1>2 DEF WriteSnapshot
    <2> HIDE DEF entry
    <2> QED  BY <1>2, <2>1, <2>2, <2>3 DEF WriteSnapshot
  <1>3. CASE UNCHANGED learnerVars  BY <1>3
  <1> QED
    BY <1>1, <1>2, <1>3
    DEF Next, Handle, Admit, Refuse, InsertSession, Enqueue, MarkFailed, RouteToDlq,
        StalledCheck, Start, Execute, MarkProcessing, FetchSession, CallProvider,
        ResetSession, CreateRun, ScoreSession, ReadVector, ReadSnapshot, Return, Raise,
        Fault, RequestError, TaskError, LockExpires, DatabaseError, Crash, vars

LEMMA WorkerType ==
  ASSUME WorkerTypeOK, SessionTypeOK, LearnerTypeOK, [Next]_vars
  PROVE  WorkerTypeOK'
  <1> USE DEF WorkerTypeOK, Goto, Steps, DatabaseSteps
  <1>1. ASSUME NEW x \in Slots, NEW s \in Sessions, Start(x, s) PROVE WorkerTypeOK'
    BY <1>1 DEF Start, Locals
  <1>2. ASSUME NEW x \in Slots, Execute(x) PROVE WorkerTypeOK'
    <2> SUFFICES ASSUME pc[x] # "idle" PROVE WorkerTypeOK'
      BY <1>2 DEF Execute, MarkProcessing, FetchSession, CallProvider, ResetSession,
         CreateRun, ScoreSession, ReadVector, WriteVector, ReadSnapshot, WriteSnapshot,
         Return, Raise
    <2>0. Session(x) \in Sessions /\ Learner(x) \in Users
      BY SessionOfBusy
    <2>1. CASE MarkProcessing(x) \/ CallProvider(x) \/ ResetSession(x) \/ ScoreSession(x)
               \/ WriteVector(x) \/ WriteSnapshot(x)
      BY <2>1
      DEF MarkProcessing, CallProvider, ResetSession, ScoreSession, WriteVector, WriteSnapshot
    <2>2. CASE FetchSession(x)
      <3>1. vector[Learner(x)] \in Seq(Sessions)  BY <2>0 DEF LearnerTypeOK
      <3>2. PICK s \in {"unrecoverable", "provider"} : pc' = [pc EXCEPT ![x] = s]
        BY <2>2 DEF FetchSession
      <3>3. local' = local \/ local' = [local EXCEPT ![x].seen = vector[Learner(x)]]
        BY <2>2 DEF FetchSession
      <3>4. local' \in [Slots -> Locals] /\ \A y \in Slots : local'[y].job = local[y].job
        <4>1. local[x] \in Locals
          OBVIOUS
        <4> DEFINE new == [local[x] EXCEPT !.seen = vector[Learner(x)]]
        <4>2. new \in Locals /\ new.job = local[x].job
          BY <3>1, <4>1 DEF Locals
        <4>3. local' = local \/ local' = [local EXCEPT ![x] = new]
          BY <3>3
        <4> HIDE DEF new
        <4> QED  BY <4>2, <4>3
      <3>5. \A y \in Slots : pc'[y] # "idle" => pc[y] # "idle"
        BY <3>2
      <3> QED  BY <3>2, <3>4, <3>5
    <2>3. CASE CreateRun(x)
      <3>1. runs[Session(x)] + 1 \in Nat  BY <2>0 DEF SessionTypeOK
      <3> QED  BY <2>3, <3>1 DEF CreateRun, Locals
    <2>4. CASE ReadVector(x)
      <3>1. vector[Learner(x)] \in Seq(Sessions) /\ version[Learner(x)] \in Nat
        BY <2>0 DEF LearnerTypeOK
      <3> QED  BY <2>4, <3>1 DEF ReadVector, Locals
    <2>5. CASE ReadSnapshot(x)
      <3>1. Len(snapshots[Learner(x)]) \in Nat  BY <2>0 DEF LearnerTypeOK
      <3> QED  BY <2>5, <3>1 DEF ReadSnapshot, Locals
    <2>6. CASE Return(x) \/ Raise(x)
      <3>1. Blank \in Locals  BY DEF Blank, Locals
      <3>2. Release(x)  BY <2>6 DEF Return, Raise
      <3> QED  BY <3>1, <3>2 DEF Release
    <2> QED
      BY <1>2, <2>1, <2>2, <2>3, <2>4, <2>5, <2>6 DEF Execute
  <1>3. ASSUME NEW x \in Slots, DatabaseError(x) PROVE WorkerTypeOK'
    BY <1>3 DEF DatabaseError
  <1>4. CASE Crash
    BY <1>4 DEF Crash, Blank, Locals
  <1>5. CASE UNCHANGED <<pc, local>>  BY <1>5
  <1> QED
    BY <1>1, <1>2, <1>3, <1>4, <1>5
    DEF Next, Handle, Admit, Refuse, InsertSession, Enqueue, MarkFailed, RouteToDlq,
        StalledCheck, Fault, RequestError, TaskError, LockExpires, vars

LEMMA FaultType ==
  ASSUME FaultTypeOK, WorkerTypeOK, [Next]_vars
  PROVE  FaultTypeOK'
  <1> USE DEF FaultTypeOK, taskVars, faultVars
  <1>1. ASSUME NEW x \in Slots, Raise(x) PROVE FaultTypeOK'
    <2>1. Session(x) \in Sessions  BY <1>1, SessionOfBusy DEF Raise
    <2> QED  BY <1>1, <2>1 DEF Raise
  <1>2. ASSUME NEW s \in Sessions, MarkFailed(s) \/ RouteToDlq(s) PROVE FaultTypeOK'
    BY <1>2 DEF MarkFailed, RouteToDlq
  <1>3. ASSUME Fault PROVE FaultTypeOK'
    BY <1>3, PipelineAssumption
    DEF Fault, RequestError, TaskError, LockExpires, DatabaseError, Crash
  <1>4. CASE UNCHANGED <<taskVars, faultVars>>  BY <1>4
  <1> QED
    BY <1>1, <1>2, <1>3, <1>4
    DEF Next, Handle, Admit, Refuse, InsertSession, Enqueue, StalledCheck, Start, Execute,
        MarkProcessing, FetchSession, CallProvider, ResetSession, CreateRun, ScoreSession,
        ReadVector, WriteVector, ReadSnapshot, WriteSnapshot, Return, vars

LEMMA TypeStep ==
  ASSUME TypeOK, [Next]_vars
  PROVE  TypeOK'
  BY QueueType, SessionType, LearnerType, WorkerType, FaultType DEF TypeOK

\* Every variable of the pipeline keeps its type, and an execution that is
\* under way has a session.
THEOREM TypeCorrect == Spec => []TypeOK
  <1>1. TypeOK /\ [Next]_vars => TypeOK'
    BY TypeStep
  <1> QED  BY InitType, <1>1, PTL DEF Spec

-----------------------------------------------------------------------------
(* The skill vector: SELECT and guarded UPDATE amount to one atomic step.    *)
(* An execution between the two holds a version that is not ahead of the     *)
(* row; if it is the row's, then the row has not changed since the SELECT.   *)

ReadsAreCurrent ==
  \A x \in Slots : pc[x] = "writeVector" =>
    /\ local[x].ver <= version[Learner(x)]
    /\ local[x].ver = version[Learner(x)] => local[x].base = vector[Learner(x)]

VectorInv == NoLostUpdate /\ ReadsAreCurrent

\* A step that does not write a vector leaves every vector alone.
LEMMA VectorFrame ==
  ASSUME [Next]_vars, \A x \in Slots : ~ WriteVector(x)
  PROVE  UNCHANGED <<vector, version>>
  BY DEF Next, Handle, Admit, Refuse, InsertSession, Enqueue, MarkFailed, RouteToDlq,
     StalledCheck, Start, Execute, MarkProcessing, FetchSession, CallProvider, ResetSession,
     CreateRun, ScoreSession, ReadVector, ReadSnapshot, WriteSnapshot, Return, Raise, Fault,
     RequestError, TaskError, LockExpires, DatabaseError, Crash, vars, learnerVars

\* A write that is not skipped appends to the vector as it is.
LEMMA WriteFolds ==
  ASSUME TypeOK, ReadsAreCurrent, NEW x \in Slots, WriteVector(x), VersionMatches(x)
  PROVE  AtomicUpdate!Fold(Learner(x), Session(x))
  <1>1. local[x].base = vector[Learner(x)]
    BY DEF ReadsAreCurrent, WriteVector, VersionMatches
  <1> QED  BY <1>1 DEF WriteVector, AtomicUpdate!Fold

\* Of all executions, a step that reads or writes moves only its own.
LEMMA ReadsStep ==
  ASSUME TypeOK, VectorInv, [Next]_vars, NEW y \in Slots, pc'[y] = "writeVector"
  PROVE  \/ /\ pc[y] = "writeVector" /\ local'[y] = local[y]
            /\ \A x \in Slots : WriteVector(x) => x # y
         \/ /\ ReadVector(y)
            /\ local'[y].job = local[y].job
            /\ local'[y].ver = version[Learner(y)]
            /\ local'[y].base = vector[Learner(y)]
  <1> USE DEF TypeOK, WorkerTypeOK, Goto
  <1>1. CASE ReadVector(y)
    <2>1. local[y] \in Locals  OBVIOUS
    <2> QED  BY <1>1, <2>1 DEF ReadVector, Locals
  <1>2. ASSUME NEW x \in Slots, x # y, Execute(x) PROVE pc[y] = pc'[y] /\ local'[y] = local[y]
    BY <1>2
    DEF Execute, MarkProcessing, FetchSession, CallProvider, ResetSession, CreateRun,
        ScoreSession, ReadVector, WriteVector, ReadSnapshot, WriteSnapshot, Return, Raise,
        Release
  <1>3. ASSUME Execute(y), ~ ReadVector(y) PROVE FALSE
    BY <1>3
    DEF Execute, MarkProcessing, FetchSession, CallProvider, ResetSession, CreateRun,
        ScoreSession, WriteVector, ReadSnapshot, WriteSnapshot, Return, Raise, Release
  <1>4. ASSUME NEW x \in Slots, NEW s \in Sessions, Start(x, s)
        PROVE  pc[y] = pc'[y] /\ local'[y] = local[y]
    BY <1>4 DEF Start
  <1>5. ASSUME NEW x \in Slots, DatabaseError(x) PROVE pc[y] = pc'[y] /\ local'[y] = local[y]
    BY <1>5 DEF DatabaseError
  <1>6. CASE Crash  BY <1>6 DEF Crash
  <1>7. ASSUME UNCHANGED <<pc, local>> PROVE pc[y] = pc'[y] /\ local'[y] = local[y]
    BY <1>7
  <1>8. ASSUME WriteVector(y) PROVE FALSE  BY <1>8 DEF WriteVector
  <1>9. ASSUME ~ ReadVector(y) PROVE pc[y] = pc'[y] /\ local'[y] = local[y]
    BY <1>2, <1>3, <1>4, <1>5, <1>6, <1>7, <1>9
    DEF Next, Handle, Admit, Refuse, InsertSession, Enqueue, MarkFailed, RouteToDlq,
        StalledCheck, Fault, RequestError, TaskError, LockExpires, vars
  <1> QED  BY <1>1, <1>8, <1>9

LEMMA VectorInvStep ==
  ASSUME TypeOK, VectorInv, [Next]_vars
  PROVE  VectorInv'
  <1>1. NoLostUpdate'
    <2>1. ASSUME NEW x \in Slots, WriteVector(x), VersionMatches(x) PROVE NoLostUpdate'
      <3>1. AtomicUpdate!Fold(Learner(x), Session(x))
        BY <2>1, WriteFolds DEF VectorInv
      <3>2. Learner(x) \in Users /\ Session(x) \in Sessions
        BY <2>1, SessionOfBusy DEF TypeOK, WriteVector
      <3> QED
        BY <3>1, <3>2 DEF AtomicUpdate!Fold, VectorInv, NoLostUpdate, TypeOK, LearnerTypeOK
    <2>2. ASSUME NEW x \in Slots, WriteVector(x), ~ VersionMatches(x) PROVE NoLostUpdate'
      BY <2>2 DEF WriteVector, VectorInv, NoLostUpdate
    <2>3. ASSUME \A x \in Slots : ~ WriteVector(x) PROVE NoLostUpdate'
      BY <2>3, VectorFrame DEF VectorInv, NoLostUpdate
    <2> QED  BY <2>1, <2>2, <2>3
  <1>2. ASSUME NEW y \in Slots, pc'[y] = "writeVector"
        PROVE  /\ local'[y].ver <= version'[Learner(y)']
               /\ local'[y].ver = version'[Learner(y)'] => local'[y].base = vector'[Learner(y)']
    <2>1. CASE ReadVector(y)
      <3>1. /\ Learner(y)' = Learner(y) /\ Learner(y) \in Users
            /\ local'[y].ver = version[Learner(y)]
            /\ local'[y].base = vector[Learner(y)]
        <4>1. Learner(y) \in Users
          BY <2>1, SessionOfBusy DEF TypeOK, ReadVector
        <4>2. local'[y].job = local[y].job /\ local'[y].ver = version[Learner(y)]
              /\ local'[y].base = vector[Learner(y)]
          BY <1>2, <2>1, ReadsStep DEF ReadVector
        <4> QED  BY <4>1, <4>2 DEF Learner
      <3>2. UNCHANGED <<vector, version>>
        BY <2>1 DEF ReadVector, learnerVars
      <3> QED  BY <3>1, <3>2 DEF TypeOK, LearnerTypeOK
    <2>2. CASE ~ ReadVector(y)
      <3>1. pc[y] = "writeVector" /\ local'[y] = local[y] /\ Learner(y)' = Learner(y)
        BY <1>2, <2>2, ReadsStep DEF Learner
      <3>2. /\ local[y].ver <= version[Learner(y)]
            /\ local[y].ver = version[Learner(y)] => local[y].base = vector[Learner(y)]
        BY <3>1 DEF VectorInv, ReadsAreCurrent
      <3>3. local[y].ver \in Nat  BY DEF TypeOK, WorkerTypeOK, Locals
      <3>4. Learner(y) \in Users  BY <3>1, SessionOfBusy DEF TypeOK
      <3>5. \/ UNCHANGED <<vector, version>>
            \/ \E x \in Slots : WriteVector(x) /\ VersionMatches(x)
        BY VectorFrame DEF WriteVector
      <3>6. ASSUME NEW x \in Slots, WriteVector(x), VersionMatches(x)
            PROVE  \/ /\ vector'[Learner(y)] = vector[Learner(y)]
                      /\ version'[Learner(y)] = version[Learner(y)]
                   \/ version'[Learner(y)] = version[Learner(y)] + 1
        BY <3>4, <3>6 DEF WriteVector, TypeOK, LearnerTypeOK
      <3>7. version[Learner(y)] \in Nat  BY <3>4 DEF TypeOK, LearnerTypeOK
      <3>8. CASE version'[Learner(y)] = version[Learner(y)] + 1
        BY <3>1, <3>2, <3>3, <3>7, <3>8
      <3>9. CASE /\ vector'[Learner(y)] = vector[Learner(y)]
                 /\ version'[Learner(y)] = version[Learner(y)]
        BY <3>1, <3>2, <3>9
      <3> QED  BY <3>5, <3>6, <3>8, <3>9
    <2> QED  BY <2>1, <2>2
  <1> QED  BY <1>1, <1>2 DEF VectorInv, ReadsAreCurrent

LEMMA VectorInvHolds == Spec => []VectorInv
  <1>1. Init => VectorInv
    BY DEF Init, VectorInv, NoLostUpdate, ReadsAreCurrent
  <1>2. TypeOK /\ VectorInv /\ [Next]_vars => VectorInv'
    BY VectorInvStep
  <1> QED  BY <1>1, <1>2, TypeCorrect, PTL DEF Spec

\* The version of a skill vector counts the evaluations in it: no evaluation
\* overwrites another's update.
THEOREM NothingOverwritten == Spec => []NoLostUpdate
  <1>1. VectorInv => NoLostUpdate  BY DEF VectorInv
  <1> QED  BY <1>1, VectorInvHolds, PTL

\* The pipeline implements the atomic log of SkillVectorLog.
THEOREM Refinement == Spec => UpdatesAreAtomic
  <1>1. Init => AtomicUpdate!Init  BY DEF Init, AtomicUpdate!Init
  <1>2. TypeOK /\ VectorInv /\ [Next]_vars => [AtomicUpdate!Next]_<<vector, version>>
    <2> SUFFICES ASSUME TypeOK, VectorInv, [Next]_vars
                 PROVE  AtomicUpdate!Next \/ UNCHANGED <<vector, version>>
      OBVIOUS
    <2>1. ASSUME NEW x \in Slots, WriteVector(x), VersionMatches(x) PROVE AtomicUpdate!Next
      <3>1. Learner(x) \in Users /\ Session(x) \in Sessions
        BY <2>1, SessionOfBusy DEF TypeOK, WriteVector
      <3>2. AtomicUpdate!Fold(Learner(x), Session(x))
        BY <2>1, WriteFolds DEF VectorInv
      <3> QED  BY <3>1, <3>2 DEF AtomicUpdate!Next
    <2>2. ASSUME NEW x \in Slots, WriteVector(x), ~ VersionMatches(x)
          PROVE  UNCHANGED <<vector, version>>
      BY <2>2 DEF WriteVector
    <2> QED  BY <2>1, <2>2, VectorFrame
  <1> QED
    BY <1>1, <1>2, TypeCorrect, VectorInvHolds, PTL DEF Spec, UpdatesAreAtomic, AtomicUpdate!Spec

-----------------------------------------------------------------------------
(* Readiness snapshots: what an execution has seen of the vector stays a     *)
(* beginning of it, because vectors only grow.                               *)

SeenIsHistory ==
  \A x \in Slots : IF pc[x] = "idle" THEN local[x].seen = <<>>
                                     ELSE Begins(local[x].seen, vector[Learner(x)])

HistoryInv == SeenIsHistory /\ SnapshotsAreHistory

LEMMA BeginsAppend ==
  ASSUME NEW S, NEW seq \in Seq(S), NEW history \in Seq(S), NEW e \in S, Begins(seq, history)
  PROVE  Begins(seq, Append(history, e))
  <1>1. Len(Append(history, e)) = Len(history) + 1  OBVIOUS
  <1>2. \A i \in 1 .. Len(history) : Append(history, e)[i] = history[i]  OBVIOUS
  <1>3. Len(seq) \in Nat /\ Len(history) \in Nat  OBVIOUS
  <1> QED  BY <1>1, <1>2, <1>3 DEF Begins

LEMMA VectorGrows ==
  ASSUME TypeOK, VectorInv, [Next]_vars, NEW u \in Users, NEW seq \in Seq(Sessions),
         Begins(seq, vector[u])
  PROVE  Begins(seq, vector[u])'
  <1>1. ASSUME NEW x \in Slots, WriteVector(x), VersionMatches(x)
        PROVE  Begins(seq, vector'[u])
    <2>1. AtomicUpdate!Fold(Learner(x), Session(x))
      BY <1>1, WriteFolds DEF VectorInv
    <2>2. Learner(x) \in Users /\ Session(x) \in Sessions
      BY <1>1, SessionOfBusy DEF TypeOK, WriteVector
    <2>3. vector[u] \in Seq(Sessions)  BY DEF TypeOK, LearnerTypeOK
    <2>4. \/ vector'[u] = vector[u]
          \/ vector'[u] = Append(vector[u], Session(x))
      BY <2>1, <2>2 DEF AtomicUpdate!Fold, TypeOK, LearnerTypeOK
    <2> QED  BY <2>2, <2>3, <2>4, BeginsAppend
  <1>2. CASE UNCHANGED vector  BY <1>2 DEF Begins
  <1> QED  BY <1>1, <1>2, VectorFrame DEF WriteVector, Begins

\* What a step does to the local variable session["skill_vector"].
LEMMA SeenStep ==
  ASSUME TypeOK, SeenIsHistory, [Next]_vars, NEW y \in Slots
  PROVE  \/ /\ pc[y] # "idle" /\ pc'[y] # "idle"
            /\ local'[y].seen = local[y].seen /\ Learner(y)' = Learner(y)
         \/ local'[y].seen = <<>>
         \/ /\ FetchSession(y) /\ Learner(y)' = Learner(y)
            /\ local'[y].seen = vector[Learner(y)]
  <1> USE DEF TypeOK, WorkerTypeOK, Goto, Learner
  <1>0. local[y] \in Locals /\ Blank.seen = <<>>  BY DEF Blank
  <1>1. ASSUME NEW x \in Slots, Execute(x) \/ DatabaseError(x), x # y
        PROVE  pc'[y] = pc[y] /\ local'[y] = local[y]
    BY <1>1
    DEF Execute, MarkProcessing, FetchSession, CallProvider, ResetSession, CreateRun,
        ScoreSession, ReadVector, WriteVector, ReadSnapshot, WriteSnapshot, Return, Raise,
        Release, DatabaseError
  <1>2. ASSUME FetchSession(y)
        PROVE  /\ pc[y] # "idle" /\ pc'[y] # "idle" /\ local'[y].job = local[y].job
               /\ local'[y].seen \in {local[y].seen, vector[Owner[local[y].job]]}
    BY <1>0, <1>2 DEF FetchSession, Session, Locals
  <1>3. ASSUME CreateRun(y) \/ ReadVector(y) \/ ReadSnapshot(y)
        PROVE  /\ pc[y] # "idle" /\ pc'[y] # "idle" /\ local'[y].job = local[y].job
               /\ local'[y].seen = local[y].seen
    BY <1>0, <1>3 DEF CreateRun, ReadVector, ReadSnapshot, Session, Locals
  <1>4. ASSUME \/ MarkProcessing(y) \/ CallProvider(y) \/ ResetSession(y) \/ ScoreSession(y)
               \/ WriteVector(y) \/ WriteSnapshot(y) \/ DatabaseError(y)
        PROVE  pc[y] # "idle" /\ pc'[y] # "idle" /\ local'[y] = local[y]
    BY <1>4
    DEF MarkProcessing, CallProvider, ResetSession, ScoreSession, WriteVector, WriteSnapshot,
        DatabaseError, DatabaseSteps
  <1>5. ASSUME Return(y) \/ Raise(y) PROVE local'[y].seen = <<>>
    BY <1>0, <1>5 DEF Return, Raise, Release
  <1>6. ASSUME NEW x \in Slots, NEW s \in Sessions, Start(x, s)
        PROVE  \/ local'[y].seen = <<>>
               \/ pc'[y] = pc[y] /\ local'[y] = local[y]
    <2>1. CASE x = y
      <3>1. local[y].seen = <<>>  BY <1>6, <2>1 DEF Start, SeenIsHistory
      <3> QED  BY <1>0, <1>6, <2>1, <3>1 DEF Start, Locals
    <2>2. CASE x # y  BY <1>6, <2>2 DEF Start
    <2> QED  BY <2>1, <2>2
  <1>7. ASSUME Crash PROVE local'[y].seen = <<>>
    BY <1>0, <1>7 DEF Crash
  <1>8. ASSUME pc'[y] = pc[y], local'[y] = local[y]
        PROVE  \/ /\ pc[y] # "idle" /\ pc'[y] # "idle"
                  /\ local'[y].seen = local[y].seen /\ Learner(y)' = Learner(y)
               \/ local'[y].seen = <<>>
    <2>1. (Learner(y))' = Owner[local'[y].job]  OBVIOUS
    <2> QED  BY <1>8, <2>1 DEF SeenIsHistory
  <1>9. \/ \E x \in Slots : Execute(x) \/ DatabaseError(x)
        \/ \E x \in Slots, s \in Sessions : Start(x, s)
        \/ Crash
        \/ UNCHANGED <<pc, local>>
    BY DEF Next, Handle, Admit, Refuse, InsertSession, Enqueue, MarkFailed, RouteToDlq,
       StalledCheck, Fault, RequestError, TaskError, LockExpires, vars
  <1>10. ASSUME Execute(y) \/ DatabaseError(y)
         PROVE  \/ FetchSession(y)
                \/ CreateRun(y) \/ ReadVector(y) \/ ReadSnapshot(y)
                \/ \/ MarkProcessing(y) \/ CallProvider(y) \/ ResetSession(y)
                   \/ ScoreSession(y) \/ WriteVector(y) \/ WriteSnapshot(y) \/ DatabaseError(y)
                \/ Return(y) \/ Raise(y)
    BY <1>10 DEF Execute
  <1> QED
    BY <1>1, <1>2, <1>3, <1>4, <1>5, <1>6, <1>7, <1>8, <1>9, <1>10

LEMMA SeenIsHistoryStep ==
  ASSUME TypeOK, VectorInv, SeenIsHistory, [Next]_vars
  PROVE  SeenIsHistory'
  <1> SUFFICES ASSUME NEW y \in Slots
               PROVE  IF pc'[y] = "idle" THEN local'[y].seen = <<>>
                      ELSE Begins(local'[y].seen, vector'[Learner(y)'])
    BY DEF SeenIsHistory
  <1>0. local[y].seen \in Seq(Sessions)  BY DEF TypeOK, WorkerTypeOK, Locals
  <1>1. CASE /\ pc[y] # "idle" /\ pc'[y] # "idle"
             /\ local'[y].seen = local[y].seen /\ Learner(y)' = Learner(y)
    <2>1. Begins(local[y].seen, vector[Learner(y)])  BY <1>1 DEF SeenIsHistory
    <2>2. Learner(y) \in Users  BY <1>1, SessionOfBusy DEF TypeOK
    <2>3. Begins(local[y].seen, vector'[Learner(y)])
      <3> DEFINE u == Learner(y)
      <3> DEFINE seq == local[y].seen
      <3>1. u \in Users /\ seq \in Seq(Sessions) /\ Begins(seq, vector[u])
        BY <1>0, <2>1, <2>2
      <3> QED  BY <3>1, VectorGrows DEF Begins
    <2> QED  BY <1>1, <2>3
  <1>2. CASE local'[y].seen = <<>>
    <2>1. TypeOK'  BY TypeStep
    <2>2. pc'[y] # "idle" => Learner(y)' \in Users
      BY <2>1, PipelineAssumption DEF TypeOK, WorkerTypeOK, Learner
    <2>3. pc'[y] # "idle" => vector'[Learner(y)'] \in Seq(Sessions)
      BY <2>1, <2>2 DEF TypeOK, LearnerTypeOK
    <2> QED  BY <1>2, <2>3 DEF Begins
  <1>3. CASE /\ FetchSession(y) /\ Learner(y)' = Learner(y)
             /\ local'[y].seen = vector[Learner(y)]
    <2>1. Learner(y) \in Users /\ pc'[y] # "idle"
      BY <1>3, SessionOfBusy DEF TypeOK, FetchSession, Goto, WorkerTypeOK
    <2>2. vector' = vector  BY <1>3 DEF FetchSession, learnerVars
    <2>3. vector[Learner(y)] \in Seq(Sessions)  BY <2>1 DEF TypeOK, LearnerTypeOK
    <2> QED  BY <1>3, <2>1, <2>2, <2>3 DEF Begins
  <1> QED  BY <1>1, <1>2, <1>3, SeenStep

LEMMA SnapshotsStep ==
  ASSUME TypeOK, VectorInv, HistoryInv, [Next]_vars
  PROVE  SnapshotsAreHistory'
  <1> SUFFICES ASSUME NEW u \in Users, NEW i \in 1 .. Len(snapshots'[u])
               PROVE  Begins(snapshots'[u][i].shows, vector'[u])
    BY DEF SnapshotsAreHistory
  <1>1. ASSUME i \in 1 .. Len(snapshots[u]), snapshots'[u][i] = snapshots[u][i]
        PROVE  Begins(snapshots'[u][i].shows, vector'[u])
    <2> DEFINE seq == snapshots[u][i].shows
    <2>1. snapshots[u] \in Seq(Snapshot)  BY DEF TypeOK, LearnerTypeOK
    <2>2. snapshots[u][i] \in Snapshot  BY <1>1, <2>1
    <2>3. seq \in Seq(Sessions)  BY <2>2 DEF Snapshot
    <2>4. Begins(seq, vector[u])  BY <1>1 DEF HistoryInv, SnapshotsAreHistory
    <2>5. Begins(seq, vector'[u])  BY <2>3, <2>4, VectorGrows DEF Begins
    <2> QED  BY <1>1, <2>5
  <1>2. ASSUME NEW x \in Slots, WriteSnapshot(x)
        PROVE  Begins(snapshots'[u][i].shows, vector'[u])
    <2> DEFINE entry == [of |-> Session(x), shows |-> local[x].seen]
    <2>1. snapshots' = [snapshots EXCEPT ![Learner(x)] = Append(snapshots[Learner(x)], entry)]
      BY <1>2 DEF WriteSnapshot
    <2>2. entry.shows = local[x].seen  OBVIOUS
    <2>3. Learner(x) \in Users /\ pc[x] # "idle"
      BY <1>2, SessionOfBusy DEF TypeOK, WriteSnapshot
    <2> HIDE DEF entry
    <2>4. Begins(local[x].seen, vector[Learner(x)]) /\ vector' = vector
      BY <1>2, <2>3 DEF HistoryInv, SeenIsHistory, WriteSnapshot
    <2>5. snapshots[u] \in Seq(Snapshot)  BY DEF TypeOK, LearnerTypeOK
    <2>6. CASE u # Learner(x)
      <3>1. snapshots'[u] = snapshots[u]  BY <2>1, <2>6
      <3> QED  BY <1>1, <3>1
    <2>7. CASE u = Learner(x)
      <3>1. snapshots'[u] = Append(snapshots[u], entry)
        BY <2>1, <2>7 DEF TypeOK, LearnerTypeOK
      <3>2. \/ i \in 1 .. Len(snapshots[u]) /\ snapshots'[u][i] = snapshots[u][i]
            \/ snapshots'[u][i] = entry
        BY <2>5, <3>1
      <3> QED  BY <1>1, <2>2, <2>4, <2>7, <3>2
    <2> QED  BY <2>6, <2>7
  <1>3. CASE snapshots' = snapshots  BY <1>1, <1>3
  <1> QED
    BY <1>2, <1>3
    DEF Next, Handle, Admit, Refuse, InsertSession, Enqueue, MarkFailed, RouteToDlq,
        StalledCheck, Start, Execute, MarkProcessing, FetchSession, CallProvider, ResetSession,
        CreateRun, ScoreSession, ReadVector, WriteVector, ReadSnapshot, Return, Raise, Fault,
        RequestError, TaskError, LockExpires, DatabaseError, Crash, vars, learnerVars

LEMMA HistoryInvHolds == Spec => []HistoryInv
  <1>1. Init => HistoryInv
    BY DEF Init, HistoryInv, SeenIsHistory, SnapshotsAreHistory, Blank
  <1>2. TypeOK /\ VectorInv /\ HistoryInv /\ [Next]_vars => HistoryInv'
    BY SeenIsHistoryStep, SnapshotsStep DEF HistoryInv
  <1> QED  BY <1>1, <1>2, TypeCorrect, VectorInvHolds, PTL DEF Spec

\* A readiness snapshot shows a vector that the learner really had.
THEOREM SnapshotsAreReal == Spec => []SnapshotsAreHistory
  <1>1. HistoryInv => SnapshotsAreHistory  BY DEF HistoryInv
  <1> QED  BY <1>1, HistoryInvHolds, PTL

-----------------------------------------------------------------------------
(* Theorems on how the queue and the rows of the sessions agree *)

\* Only an active job is locked, a job that is not finished has an attempt
\* left, and whatever on_failed started is about a job that has none.
LocksAreActive == \A s \in Sessions : holder[s] # NoSlot => qstate[s] = "active"

AttemptsLeft ==
  \A s \in Sessions : qstate[s] \in {"none", "waiting", "active"} => attempts[s] < Attempts

IsExhausted(s) == qstate[s] = "failed" /\ attempts[s] = Attempts

OnlyExhausted ==
  \A s \in Sessions :
    status[s] = "failed" \/ s \in failTasks \/ s \in dlqTasks \/ s \in dlq => IsExhausted(s)

ExhaustedInv == LocksAreActive /\ AttemptsLeft /\ OnlyExhausted

LEMMA ExhaustedInit == Init => ExhaustedInv
  BY QueueAssumption
  DEF Init, QueueInit, ExhaustedInv, LocksAreActive, AttemptsLeft, OnlyExhausted

\* moveToFailed; what on_failed then sees is a job that is exhausted.
LEMMA FailExhausts ==
  ASSUME QueueTypeOK, ExhaustedInv, NEW x \in Slots, NEW s \in Sessions,
         NEW u \in BOOLEAN, Fail(s, x, u)
  PROVE  /\ LocksAreActive' /\ AttemptsLeft'
         /\ Exhausted(s, x) => IsExhausted(s)'
         /\ \A t \in Sessions : IsExhausted(t) => IsExhausted(t)'
  <1>1. x # NoSlot  BY SlotAssumption
  <1>2. CASE holder[s] = x
    <2> DEFINE final == ~ MayRetry(s, u)
    <2>1. qstate[s] = "active" /\ attempts[s] < Attempts
      BY <1>1, <1>2 DEF ExhaustedInv, LocksAreActive, AttemptsLeft
    <2>2. /\ attempts' = [attempts EXCEPT ![s] = attempts[s] + 1]
          /\ qstate' = [qstate EXCEPT ![s] = IF final THEN "failed" ELSE "waiting"]
          /\ holder' = [holder EXCEPT ![s] = NoSlot]
      BY <1>2 DEF Fail
    <2>3. attempts[s] \in Nat /\ Attempts \in Nat
      BY QueueAssumption DEF QueueTypeOK
    <2>4. ~ final => attempts[s] + 1 < Attempts  BY DEF MayRetry
    <2>5. attempts[s] + 1 >= Attempts => final /\ attempts[s] + 1 = Attempts
      BY <2>1, <2>3, <2>4
    <2> HIDE DEF final
    <2>6. LocksAreActive'
      BY <2>2 DEF ExhaustedInv, LocksAreActive, QueueTypeOK
    <2>7. AttemptsLeft'
      BY <2>2, <2>4 DEF ExhaustedInv, AttemptsLeft, QueueTypeOK
    <2>8. Exhausted(s, x) => IsExhausted(s)'
      <3>1. /\ qstate'[s] = (IF final THEN "failed" ELSE "waiting")
            /\ attempts'[s] = attempts[s] + 1
        BY <2>2 DEF QueueTypeOK
      <3> QED  BY <2>5, <3>1 DEF Exhausted, IsExhausted
    <2>9. \A t \in Sessions : IsExhausted(t) => IsExhausted(t)'
      BY <2>1, <2>2 DEF IsExhausted, QueueTypeOK
    <2> QED  BY <2>6, <2>7, <2>8, <2>9
  <1>3. CASE holder[s] # x
    BY <1>3
    DEF Fail, Exhausted, ExhaustedInv, LocksAreActive, AttemptsLeft, IsExhausted, queueVars
  <1> QED  BY <1>2, <1>3

\* Every other step of the queue keeps the locks and the attempts in order,
\* and no step brings a job back that is exhausted.
LEMMA QueueStep ==
  ASSUME TypeOK, ExhaustedInv, [Next]_vars
  PROVE  /\ LocksAreActive' /\ AttemptsLeft'
         /\ \A t \in Sessions : IsExhausted(t) => IsExhausted(t)'
  <1> DEFINE Goal == /\ LocksAreActive' /\ AttemptsLeft'
                     /\ \A t \in Sessions : IsExhausted(t) => IsExhausted(t)'
  <1> USE DEF ExhaustedInv, LocksAreActive, AttemptsLeft, IsExhausted, QueueTypeOK, queueVars
  <1>0. QueueTypeOK  BY DEF TypeOK
  <1>1. ASSUME NEW s \in Sessions, Handle(s) PROVE Goal
    BY <1>0, <1>1, QueueAssumption DEF Handle, Admit, Refuse, InsertSession, Enqueue, Add
  <1>2. ASSUME NEW s \in Sessions, StalledCheck(s) PROVE Goal
    BY <1>0, <1>2 DEF StalledCheck, Reclaim
  <1>3. ASSUME NEW x \in Slots, NEW s \in Sessions, Start(x, s) PROVE Goal
    BY <1>0, <1>3 DEF Start, Take
  <1>4. ASSUME NEW x \in Slots, Return(x) PROVE Goal
    BY <1>0, <1>4, SlotAssumption DEF Return, Complete
  <1>5. ASSUME NEW x \in Slots, Raise(x) PROVE Goal
    <2>1. Session(x) \in Sessions  BY <1>5, SessionOfBusy DEF TypeOK, Raise
    <2>2. Fail(Session(x), x, pc[x] = "unrecoverable")  BY <1>5 DEF Raise
    <2> QED  BY <1>0, <2>1, <2>2, FailExhausts
  <1>6. ASSUME NEW s \in Sessions, LockExpires(s) PROVE Goal
    BY <1>0, <1>6 DEF LockExpires, LoseLock
  <1>7. CASE Crash
    BY <1>0, <1>7 DEF Crash, DropLocks
  <1>8. CASE UNCHANGED queueVars
    BY <1>8
  <1> QED
    BY <1>1, <1>2, <1>3, <1>4, <1>5, <1>6, <1>7, <1>8
    DEF Next, Execute, MarkProcessing, FetchSession, CallProvider, ResetSession, CreateRun,
        ScoreSession, ReadVector, WriteVector, ReadSnapshot, WriteSnapshot, MarkFailed,
        RouteToDlq, Fault, RequestError, TaskError, DatabaseError, vars

\* A session is marked as failed, or its job put into the dead letter queue,
\* only by on_failed and the tasks it starts.
LEMMA OnlyExhaustedStep ==
  ASSUME TypeOK, ExhaustedInv, [Next]_vars
  PROVE  OnlyExhausted'
  <1> SUFFICES ASSUME NEW s \in Sessions,
                      (status[s] = "failed" \/ s \in failTasks \/ s \in dlqTasks \/ s \in dlq)'
               PROVE  IsExhausted(s)'
    BY DEF OnlyExhausted
  <1> DEFINE Condemned == status[s] = "failed" \/ s \in failTasks \/ s \in dlqTasks \/ s \in dlq
  <1>1. Condemned => IsExhausted(s)'
    BY QueueStep DEF ExhaustedInv, OnlyExhausted
  <1>2. ASSUME NEW x \in Slots, Raise(x) PROVE IsExhausted(s)'
    <2>1. Session(x) \in Sessions  BY <1>2, SessionOfBusy DEF TypeOK, Raise
    <2>2. Fail(Session(x), x, pc[x] = "unrecoverable")  BY <1>2 DEF Raise
    <2>3. CASE s = Session(x) /\ Exhausted(s, x)
      BY <2>1, <2>2, <2>3, FailExhausts DEF TypeOK
    <2>4. CASE ~ (s = Session(x) /\ Exhausted(s, x))
      BY <1>1, <1>2, <2>4 DEF Raise, sessionVars
    <2> QED  BY <2>3, <2>4
  <1>3. ASSUME NEW t \in Sessions, Handle(t) \/ MarkFailed(t) \/ RouteToDlq(t) \/ StalledCheck(t)
        PROVE  Condemned
    BY <1>3
    DEF Handle, Admit, Refuse, InsertSession, Enqueue, MarkFailed, RouteToDlq, StalledCheck,
        sessionVars, taskVars, TypeOK, SessionTypeOK
  <1>4. ASSUME NEW x \in Slots, Execute(x), ~ Raise(x) PROVE Condemned
    BY <1>4
    DEF Execute, MarkProcessing, FetchSession, CallProvider, ResetSession, CreateRun,
        ScoreSession, ReadVector, WriteVector, ReadSnapshot, WriteSnapshot, Return,
        sessionVars, taskVars, TypeOK, SessionTypeOK
  <1>5. ASSUME NEW x \in Slots, NEW t \in Sessions, Start(x, t) PROVE Condemned
    BY <1>5 DEF Start, sessionVars, taskVars
  <1>6. CASE Fault
    <2>1. Condemned
      BY <1>6
      DEF Fault, RequestError, TaskError, LockExpires, DatabaseError, Crash, sessionVars, taskVars
    <2> QED  BY <1>1, <2>1
  <1>7. CASE UNCHANGED vars
    BY <1>1, <1>7 DEF vars, sessionVars, taskVars
  <1> QED  BY <1>1, <1>2, <1>3, <1>4, <1>5, <1>6, <1>7 DEF Next

LEMMA ExhaustedInvHolds == Spec => []ExhaustedInv
  <1>1. TypeOK /\ ExhaustedInv /\ [Next]_vars => ExhaustedInv'
    BY QueueStep, OnlyExhaustedStep DEF ExhaustedInv
  <1> QED  BY <1>1, ExhaustedInit, TypeCorrect, PTL DEF Spec

\* A session is marked as failed, or put into the dead letter queue, only
\* after the last attempt of its job (on_failed): no learner is told that an
\* essay failed while BullMQ would still try it again.
THEOREM FailureIsFinalAttempt == Spec => []FailedIsExhausted
  <1>1. ExhaustedInv => FailedIsExhausted
    BY DEF ExhaustedInv, OnlyExhausted, IsExhausted, FailedIsExhausted
  <1> QED  BY <1>1, ExhaustedInvHolds, PTL

-----------------------------------------------------------------------------
\* A job has a row, and only a request that is still to insert one has none.
RowInv ==
  /\ \A s \in Sessions :
       /\ status[s] # "none" => request[s] \notin {"idle", "admitted", "refused"}
       /\ request[s] \in {"inserted", "answered"} => status[s] # "none"
       /\ qstate[s] # "none" => request[s] = "answered"
  /\ \A x \in Slots : pc[x] # "idle" => qstate[Session(x)] # "none"

\* While no lock is lost, an execution holds the lock of its session's job: no
\* session is evaluated by two executions at once.
HeldWhileBusy == \A x \in Slots : pc[x] # "idle" => holder[Session(x)] = x

HeldInv == lockLosses = 0 => HeldWhileBusy

\* Steps before and after the statement that scores the session.
Unscored == {"provider", "reset", "run", "score"}
Scored == {"readVector", "writeVector", "readSnapshot", "writeSnapshot", "return"}

\* Where a session is in its learner's vector and among the snapshots.
Places(s) == {i \in DOMAIN vector[Owner[s]] : vector[Owner[s]][i] = s}
Records(s) == {i \in DOMAIN snapshots[Owner[s]] : snapshots[Owner[s]][i].of = s}

\* What an execution at a given step knows of its session.
ExecutionOK(x) ==
  LET s == Session(x)
  IN  /\ pc[x] \in Unscored => status[s] # "scored"
      /\ pc[x] \in Scored => status[s] = "scored"
      /\ pc[x] \in {"readVector", "writeVector"} => Places(s) = {}
      /\ pc[x] \in Scored \ {"return"} => Records(s) = {}
      /\ pc[x] = "return" => Records(s) # {}

\* What was applied was scored, and scored stays until the job has ended: the
\* next delivery stops at the duplicate check.
SessionOK(s) ==
  /\ Places(s) # {} \/ Records(s) # {} => status[s] = "scored" \/ IsExhausted(s)
  /\ \A i, j \in Places(s) : i = j
  /\ \A i, j \in Records(s) : i = j
  /\ qstate[s] = "completed" => status[s] = "scored" /\ Records(s) # {}

OnceInv ==
  lockLosses = 0 => /\ \A x \in Slots : ExecutionOK(x)
                    /\ \A s \in Sessions : SessionOK(s)

\* executions whose evaluation is recorded and may still reach the vector
Applying(s) == {x \in Slots : pc[x] \in {"score", "readVector", "writeVector"} /\ Session(x) = s}

\* Each recorded evaluation reaches the vector at most once: the executions on
\* their way count against the runs, too.
TraceInv ==
  /\ \A s \in Sessions : status[s] = "scored" => result[s] \in 1 .. runs[s]
  /\ \A x \in Slots : pc[x] = "score" => local[x].run \in 1 .. runs[Session(x)]
  /\ \A s \in Sessions :
       /\ IsFiniteSet(Applying(s))
       /\ Occurrences(vector[Owner[s]], s) + Cardinality(Applying(s)) <= runs[s]

\* Live(u) are the sessions the quota is about: those the check counts, and
\* those that passed it and have no row yet, which it cannot see.
Begun(u) == {s \in SessionsOf(u) : request[s] # "idle"}
Awaiting(u) == {s \in SessionsOf(u) : request[s] = "admitted"}
Live(u) == Counted(u) \cup Awaiting(u)

QuotaInv ==
  \A u \in FreeUsers :
    /\ IsFiniteSet(Begun(u))
    /\ lockLosses = 0 => Cardinality(Live(u)) + 1 <= MonthlyLimit + MaxInFlight

-----------------------------------------------------------------------------
\* What a step may do to an execution.
LEMMA SlotStep ==
  ASSUME TypeOK, [Next]_vars, NEW y \in Slots
  PROVE  \/ Execute(y) \/ DatabaseError(y)
         \/ \E s \in Sessions : Start(y, s)
         \/ Crash
         \/ pc'[y] = pc[y] /\ local'[y] = local[y]
  <1> USE DEF TypeOK, WorkerTypeOK, Goto
  <1>1. ASSUME NEW x \in Slots, x # y, Execute(x) \/ DatabaseError(x)
        PROVE  pc'[y] = pc[y] /\ local'[y] = local[y]
    BY <1>1
    DEF Execute, MarkProcessing, FetchSession, CallProvider, ResetSession, CreateRun,
        ScoreSession, ReadVector, WriteVector, ReadSnapshot, WriteSnapshot, Return, Raise,
        Release, DatabaseError
  <1>2. ASSUME NEW x \in Slots, x # y, NEW s \in Sessions, Start(x, s)
        PROVE  pc'[y] = pc[y] /\ local'[y] = local[y]
    BY <1>2 DEF Start
  <1>3. CASE UNCHANGED <<pc, local>>
    BY <1>3
  <1> QED
    BY <1>1, <1>2, <1>3
    DEF Next, Handle, Admit, Refuse, InsertSession, Enqueue, MarkFailed, RouteToDlq,
        StalledCheck, Fault, RequestError, TaskError, LockExpires, vars

\* An execution keeps its session until it ends.
LEMMA BusyStep ==
  ASSUME TypeOK, [Next]_vars, NEW y \in Slots, pc'[y] # "idle"
  PROVE  \/ /\ pc[y] # "idle" /\ Session(y)' = Session(y)
            /\ ~ (Return(y) \/ Raise(y))
         \/ \E s \in Sessions : Start(y, s) /\ Session(y)' = s /\ pc'[y] = "mark"
  <1> USE DEF TypeOK, WorkerTypeOK, Goto, Session
  <1>0. local[y] \in Locals  OBVIOUS
  <1>1. ASSUME Return(y) \/ Raise(y) PROVE FALSE
    BY <1>1 DEF Return, Raise, Release
  <1>2. CASE Execute(y) \/ DatabaseError(y)
    BY <1>0, <1>1, <1>2
    DEF Execute, MarkProcessing, FetchSession, CallProvider, ResetSession, CreateRun,
        ScoreSession, ReadVector, WriteVector, ReadSnapshot, WriteSnapshot,
        DatabaseError, DatabaseSteps, Locals
  <1>3. ASSUME NEW s \in Sessions, Start(y, s)
        PROVE  local'[y].job = s /\ pc'[y] = "mark"
    BY <1>0, <1>3 DEF Start, Locals
  <1>4. CASE Crash  BY <1>4 DEF Crash
  <1>5. CASE pc'[y] = pc[y] /\ local'[y] = local[y]
    BY <1>1, <1>5
  <1> QED  BY <1>2, <1>3, <1>4, <1>5, SlotStep

\* Who writes the status of a session.
LEMMA StatusStep ==
  ASSUME TypeOK, [Next]_vars, NEW s \in Sessions
  PROVE  \/ status'[s] = status[s]
         \/ InsertSession(s) /\ status'[s] = "pending"
         \/ MarkFailed(s) /\ status'[s] = "failed"
         \/ \E x \in Slots :
              /\ pc[x] # "idle" /\ Session(x) = s
              /\ \/ MarkProcessing(x) /\ status[s] = "pending" /\ status'[s] = "processing"
                 \/ ResetSession(x) /\ status'[s] = "pending"
                 \/ ScoreSession(x) /\ status'[s] = "scored"
  <1> DEFINE Goal == \/ status'[s] = status[s]
                     \/ InsertSession(s) /\ status'[s] = "pending"
                     \/ MarkFailed(s) /\ status'[s] = "failed"
                     \/ \E x \in Slots :
                          /\ pc[x] # "idle" /\ Session(x) = s
                          /\ \/ MarkProcessing(x) /\ status[s] = "pending" /\ status'[s] = "processing"
                             \/ ResetSession(x) /\ status'[s] = "pending"
                             \/ ScoreSession(x) /\ status'[s] = "scored"
  <1> USE DEF TypeOK, SessionTypeOK
  <1>1. ASSUME NEW t \in Sessions, InsertSession(t) PROVE Goal
    BY <1>1 DEF InsertSession
  <1>2. ASSUME NEW t \in Sessions, MarkFailed(t) PROVE Goal
    BY <1>2 DEF MarkFailed
  <1>3. ASSUME NEW x \in Slots, MarkProcessing(x) PROVE Goal
    BY <1>3 DEF MarkProcessing
  <1>4. ASSUME NEW x \in Slots, ResetSession(x) PROVE Goal
    BY <1>4 DEF ResetSession
  <1>5. ASSUME NEW x \in Slots, ScoreSession(x) PROVE Goal
    BY <1>5 DEF ScoreSession
  <1>6. CASE UNCHANGED status  BY <1>6
  <1> QED
    BY <1>1, <1>2, <1>3, <1>4, <1>5, <1>6
    DEF Next, Handle, Admit, Refuse, Enqueue, RouteToDlq, StalledCheck, Start, Execute,
        FetchSession, CallProvider, CreateRun, ReadVector, WriteVector, ReadSnapshot,
        WriteSnapshot, Return, Raise, Fault, RequestError, TaskError, LockExpires,
        DatabaseError, Crash, vars, sessionVars

\* Who moves a request on.
LEMMA RequestStep ==
  ASSUME TypeOK, [Next]_vars, NEW s \in Sessions
  PROVE  \/ request'[s] = request[s]
         \/ Admit(s) /\ request'[s] = "admitted"
         \/ Refuse(s) /\ request'[s] = "refused"
         \/ InsertSession(s) /\ request'[s] = "inserted"
         \/ Enqueue(s) /\ request'[s] = "answered"
         \/ request[s] \in {"admitted", "inserted"} /\ request'[s] = "aborted"
  <1> USE DEF TypeOK, SessionTypeOK
  <1>1. ASSUME NEW t \in Sessions, Handle(t)
        PROVE  \/ request'[s] = request[s]
               \/ Admit(s) /\ request'[s] = "admitted"
               \/ Refuse(s) /\ request'[s] = "refused"
               \/ InsertSession(s) /\ request'[s] = "inserted"
               \/ Enqueue(s) /\ request'[s] = "answered"
    <2>1. CASE t = s
      BY <1>1, <2>1 DEF Handle, Admit, Refuse, InsertSession, Enqueue
    <2>2. CASE t # s
      BY <1>1, <2>2 DEF Handle, Admit, Refuse, InsertSession, Enqueue
    <2> QED  BY <2>1, <2>2
  <1>2. ASSUME NEW t \in Sessions, RequestError(t)
        PROVE  \/ request'[s] = request[s]
               \/ request[s] \in {"admitted", "inserted"} /\ request'[s] = "aborted"
    BY <1>2 DEF RequestError
  <1>3. ASSUME Crash
        PROVE  \/ request'[s] = request[s]
               \/ request[s] \in {"admitted", "inserted"} /\ request'[s] = "aborted"
    BY <1>3 DEF Crash
  <1>4. CASE UNCHANGED request  BY <1>4
  <1> QED
    BY <1>1, <1>2, <1>3, <1>4
    DEF Next, MarkFailed, RouteToDlq, StalledCheck, Start, Execute, MarkProcessing,
        FetchSession, CallProvider, ResetSession, CreateRun, ScoreSession, ReadVector,
        WriteVector, ReadSnapshot, WriteSnapshot, Return, Raise, Fault, TaskError,
        LockExpires, DatabaseError, vars

\* A job that was added stays in the queue's books, and only Enqueue adds one.
LEMMA JobStep ==
  ASSUME TypeOK, LocksAreActive, [Next]_vars, NEW s \in Sessions
  PROVE  /\ qstate[s] # "none" => qstate'[s] # "none"
         /\ qstate[s] = "none" /\ qstate'[s] # "none" => Enqueue(s)
         /\ qstate'[s] = "completed" =>
              \/ qstate[s] = "completed"
              \/ \E x \in Slots : Return(x) /\ Session(x) = s /\ holder[s] = x
  <1> DEFINE Goal == /\ qstate[s] # "none" => qstate'[s] # "none"
                     /\ qstate[s] = "none" /\ qstate'[s] # "none" => Enqueue(s)
                     /\ qstate'[s] = "completed" =>
                          \/ qstate[s] = "completed"
                          \/ \E x \in Slots : Return(x) /\ Session(x) = s /\ holder[s] = x
  <1> USE DEF TypeOK, QueueTypeOK
  <1>1. ASSUME NEW t \in Sessions, Enqueue(t) PROVE Goal
    BY <1>1 DEF Enqueue, Add
  <1>2. ASSUME NEW t \in Sessions, StalledCheck(t) PROVE Goal
    BY <1>2 DEF StalledCheck, Reclaim
  <1>3. ASSUME NEW x \in Slots, NEW t \in Sessions, Start(x, t) PROVE Goal
    BY <1>3 DEF Start, Take
  <1>4. ASSUME NEW x \in Slots, Return(x) PROVE Goal
    <2>1. Complete(Session(x), x)  BY <1>4 DEF Return
    <2>2. Session(x) \in Sessions  BY <1>4, SessionOfBusy DEF Return
    <2>3. holder[Session(x)] = x => qstate[Session(x)] = "active"
      BY <2>2, SlotAssumption DEF LocksAreActive
    <2> QED  BY <1>4, <2>1, <2>2, <2>3 DEF Complete, queueVars
  <1>5. ASSUME NEW x \in Slots, Raise(x) PROVE Goal
    <2> DEFINE final == ~ MayRetry(Session(x), pc[x] = "unrecoverable")
    <2>1. Fail(Session(x), x, pc[x] = "unrecoverable")  BY <1>5 DEF Raise
    <2>2. Session(x) \in Sessions  BY <1>5, SessionOfBusy DEF Raise
    <2>3. holder[Session(x)] = x => qstate[Session(x)] = "active"
      BY <2>2, SlotAssumption DEF LocksAreActive
    <2>4. \/ qstate' = qstate
          \/ /\ holder[Session(x)] = x
             /\ qstate' = [qstate EXCEPT ![Session(x)] = IF final THEN "failed" ELSE "waiting"]
      BY <2>1 DEF Fail, queueVars
    <2> HIDE DEF final
    <2> QED  BY <2>2, <2>3, <2>4
  <1>6. CASE UNCHANGED qstate  BY <1>6
  <1> QED
    BY <1>1, <1>2, <1>3, <1>4, <1>5, <1>6
    DEF Next, Handle, Admit, Refuse, InsertSession, MarkFailed, RouteToDlq, Execute,
        MarkProcessing, FetchSession, CallProvider, ResetSession, CreateRun, ScoreSession,
        ReadVector, WriteVector, ReadSnapshot, WriteSnapshot, Fault, RequestError, TaskError,
        LockExpires, LoseLock, DatabaseError, Crash, DropLocks, vars, queueVars

-----------------------------------------------------------------------------
LEMMA RowInvStep ==
  ASSUME TypeOK, RowInv, ExhaustedInv, [Next]_vars
  PROVE  RowInv'
  <1>0. LocksAreActive  BY DEF ExhaustedInv
  <1>1. ASSUME NEW s \in Sessions
        PROVE  /\ status'[s] # "none" => request'[s] \notin {"idle", "admitted", "refused"}
               /\ request'[s] \in {"inserted", "answered"} => status'[s] # "none"
               /\ qstate'[s] # "none" => request'[s] = "answered"
    <2>1. /\ status[s] # "none" => request[s] \notin {"idle", "admitted", "refused"}
          /\ request[s] \in {"inserted", "answered"} => status[s] # "none"
          /\ qstate[s] # "none" => request[s] = "answered"
      BY DEF RowInv
    <2>2. MarkFailed(s) => request[s] = "answered"
      BY <2>1 DEF MarkFailed, ExhaustedInv, OnlyExhausted, IsExhausted
    <2>3. \A x \in Slots : pc[x] # "idle" /\ Session(x) = s => request[s] = "answered"
      BY <2>1 DEF RowInv
    <2>4. InsertSession(s) => request[s] = "admitted" /\ request'[s] = "inserted"
      BY DEF InsertSession, TypeOK, SessionTypeOK
    <2>5. ASSUME status'[s] # status[s]
          PROVE  status'[s] # "none" /\ request'[s] \in {"inserted", "answered"}
      <3>1. CASE InsertSession(s) /\ status'[s] = "pending"
        BY <2>4, <3>1
      <3>2. CASE MarkFailed(s) /\ status'[s] = "failed"
        BY <2>2, <3>2 DEF MarkFailed
      <3>3. ASSUME NEW x \in Slots, pc[x] # "idle", Session(x) = s,
                   \/ MarkProcessing(x) /\ status'[s] = "processing"
                   \/ ResetSession(x) /\ status'[s] = "pending"
                   \/ ScoreSession(x) /\ status'[s] = "scored"
            PROVE  status'[s] # "none" /\ request'[s] = "answered"
        BY <2>3, <3>3 DEF MarkProcessing, ResetSession, ScoreSession
      <3> QED  BY <2>5, <3>1, <3>2, <3>3, StatusStep
    <2>6. ASSUME request'[s] # request[s], status'[s] = status[s]
          PROVE  \/ /\ request[s] = "idle" /\ request'[s] \in {"admitted", "refused"}
                 \/ request[s] = "inserted" /\ request'[s] = "answered"
                 \/ request[s] \in {"admitted", "inserted"} /\ request'[s] = "aborted"
      <3>1. InsertSession(s) => status'[s] = "pending"
        BY DEF InsertSession, TypeOK, SessionTypeOK
      <3>2. InsertSession(s) => FALSE
        BY <2>1, <2>4, <2>6, <3>1
      <3> QED  BY <2>6, <3>2, RequestStep DEF Admit, Refuse, Enqueue
    <2>7. qstate'[s] # "none" => qstate[s] # "none" \/ Enqueue(s)
      BY <1>0, JobStep
    <2>8. Enqueue(s) => request'[s] = "answered"
      BY DEF Enqueue, TypeOK, SessionTypeOK
    <2>9. request[s] = "answered" => request'[s] = "answered"
      BY RequestStep DEF Admit, Refuse, InsertSession, Enqueue
    <2> QED  BY <2>1, <2>5, <2>6, <2>7, <2>8, <2>9
  <1>2. ASSUME NEW y \in Slots, pc'[y] # "idle" PROVE qstate'[Session(y)'] # "none"
    <2>1. CASE pc[y] # "idle" /\ Session(y)' = Session(y)
      BY <1>0, <2>1, JobStep, SessionOfBusy DEF RowInv, TypeOK
    <2>2. ASSUME NEW s \in Sessions, Start(y, s), Session(y)' = s
          PROVE  qstate'[Session(y)'] # "none"
      BY <2>2 DEF Start, Take, TypeOK, QueueTypeOK
    <2> QED  BY <1>2, <2>1, <2>2, BusyStep
  <1> QED  BY <1>1, <1>2 DEF RowInv

\* Locks do not come back.
LEMMA LossesStep ==
  ASSUME TypeOK, [Next]_vars, lockLosses' = 0
  PROVE  lockLosses = 0 /\ \A s \in Sessions : ~ LockExpires(s)
  <1>0. lockLosses \in Nat  BY QueueAssumption DEF TypeOK, QueueTypeOK
  <1>1. \A s \in Sessions : ~ LockExpires(s)  BY <1>0 DEF LockExpires, LoseLock
  <1>2. \/ \E s \in Sessions : LockExpires(s)
        \/ UNCHANGED lockLosses
    BY DEF Next, Handle, Admit, Refuse, InsertSession, Enqueue, Add, MarkFailed, RouteToDlq,
       StalledCheck, Reclaim, Start, Take, Execute, MarkProcessing, FetchSession,
       CallProvider, ResetSession, CreateRun, ScoreSession, ReadVector, WriteVector,
       ReadSnapshot, WriteSnapshot, Return, Complete, Raise, Fail, Fault, RequestError,
       TaskError, DatabaseError, Crash, DropLocks, vars, queueVars
  <1> QED  BY <1>1, <1>2

\* Whose lock a step takes away, if none expires.
LEMMA HolderStep ==
  ASSUME TypeOK, [Next]_vars, ~ Crash, NEW s \in Sessions, \A t \in Sessions : ~ LockExpires(t)
  PROVE  \/ holder'[s] = holder[s]
         \/ \E x \in Slots : Start(x, s) /\ holder'[s] = x
         \/ \E x \in Slots : (Return(x) \/ Raise(x)) /\ holder[s] = x
  <1> USE DEF TypeOK, QueueTypeOK
  <1>1. ASSUME NEW x \in Slots, NEW t \in Sessions, Start(x, t)
        PROVE  holder'[s] = holder[s] \/ (t = s /\ holder'[s] = x)
    <2>1. holder' = [holder EXCEPT ![t] = x]  BY <1>1 DEF Start, Take
    <2> QED  BY <2>1
  <1>2. ASSUME NEW x \in Slots, Return(x)
        PROVE  holder'[s] = holder[s] \/ holder[s] = x
    <2>1. \/ holder' = holder
          \/ holder[Session(x)] = x /\ holder' = [holder EXCEPT ![Session(x)] = NoSlot]
      BY <1>2 DEF Return, Complete, queueVars
    <2> QED  BY <2>1
  <1>3. ASSUME NEW x \in Slots, Raise(x)
        PROVE  holder'[s] = holder[s] \/ holder[s] = x
    <2>1. Fail(Session(x), x, pc[x] = "unrecoverable")  BY <1>3 DEF Raise
    <2>2. \/ holder' = holder
          \/ holder[Session(x)] = x /\ holder' = [holder EXCEPT ![Session(x)] = NoSlot]
      BY <2>1 DEF Fail, queueVars
    <2> QED  BY <2>2
  <1>4. CASE UNCHANGED holder  BY <1>4
  <1> QED
    BY <1>1, <1>2, <1>3, <1>4
    DEF Next, Handle, Admit, Refuse, InsertSession, Enqueue, Add, MarkFailed, RouteToDlq,
        StalledCheck, Reclaim, Execute, MarkProcessing, FetchSession, CallProvider,
        ResetSession, CreateRun, ScoreSession, ReadVector, WriteVector, ReadSnapshot,
        WriteSnapshot, Fault, RequestError, TaskError, DatabaseError, vars, queueVars

LEMMA HeldInvStep ==
  ASSUME TypeOK, LocksAreActive, HeldInv, [Next]_vars
  PROVE  HeldInv'
  <1> SUFFICES ASSUME lockLosses' = 0, NEW y \in Slots, pc'[y] # "idle"
               PROVE  holder'[Session(y)'] = y
    BY DEF HeldInv, HeldWhileBusy
  <1>1. HeldWhileBusy /\ \A s \in Sessions : ~ LockExpires(s)
    BY LossesStep DEF HeldInv
  <1>2. ~ Crash  BY DEF Crash
  <1>3. CASE pc[y] # "idle" /\ Session(y)' = Session(y) /\ ~ (Return(y) \/ Raise(y))
    <2>1. holder[Session(y)] = y /\ Session(y) \in Sessions
      BY <1>1, <1>3, SessionOfBusy DEF HeldWhileBusy, TypeOK
    <2>2. qstate[Session(y)] = "active"
      BY <2>1, SlotAssumption DEF LocksAreActive
    <2>3. ASSUME NEW x \in Slots, Start(x, Session(y)) PROVE FALSE
      BY <2>2, <2>3 DEF Start, Take
    <2> QED  BY <1>1, <1>2, <1>3, <2>1, <2>3, HolderStep
  <1>4. ASSUME NEW s \in Sessions, Start(y, s), Session(y)' = s PROVE holder'[Session(y)'] = y
    BY <1>4 DEF Start, Take, TypeOK, QueueTypeOK
  <1> QED  BY <1>3, <1>4, BusyStep

-----------------------------------------------------------------------------
LEMMA AppendPlaces ==
  ASSUME NEW S, NEW seq \in Seq(S), NEW e \in S, NEW s
  PROVE  LET old == {i \in DOMAIN seq : seq[i] = s}
             new == {i \in DOMAIN Append(seq, e) : Append(seq, e)[i] = s}
         IN  /\ new = IF e = s THEN old \cup {Len(seq) + 1} ELSE old
             /\ Len(seq) + 1 \notin old
  <1>1. Len(seq) \in Nat /\ DOMAIN seq = 1 .. Len(seq)  OBVIOUS
  <1>2. DOMAIN Append(seq, e) = 1 .. (Len(seq) + 1)  OBVIOUS
  <1>3. \A i \in DOMAIN seq : Append(seq, e)[i] = seq[i]  OBVIOUS
  <1>4. Append(seq, e)[Len(seq) + 1] = e  OBVIOUS
  <1>5. 1 .. (Len(seq) + 1) = (1 .. Len(seq)) \cup {Len(seq) + 1}  BY <1>1
  <1>6. Len(seq) + 1 \notin 1 .. Len(seq)  BY <1>1
  <1> QED  BY ONLY <1>1, <1>2, <1>3, <1>4, <1>5, <1>6

LEMMA AppendRecords ==
  ASSUME NEW S, NEW seq \in Seq(S), NEW e \in S, NEW s
  PROVE  LET old == {i \in DOMAIN seq : seq[i].of = s}
             new == {i \in DOMAIN Append(seq, e) : Append(seq, e)[i].of = s}
         IN  /\ new = IF e.of = s THEN old \cup {Len(seq) + 1} ELSE old
             /\ Len(seq) + 1 \notin old
  <1>1. Len(seq) \in Nat /\ DOMAIN seq = 1 .. Len(seq)  OBVIOUS
  <1>2. DOMAIN Append(seq, e) = 1 .. (Len(seq) + 1)  OBVIOUS
  <1>3. \A i \in DOMAIN seq : Append(seq, e)[i] = seq[i]  OBVIOUS
  <1>4. Append(seq, e)[Len(seq) + 1] = e  OBVIOUS
  <1>5. 1 .. (Len(seq) + 1) = (1 .. Len(seq)) \cup {Len(seq) + 1}  BY <1>1
  <1>6. Len(seq) + 1 \notin 1 .. Len(seq)  BY <1>1
  <1> QED  BY ONLY <1>1, <1>2, <1>3, <1>4, <1>5, <1>6

\* Only the UPDATE of an execution adds its session to a vector, once.
LEMMA PlacesStep ==
  ASSUME TypeOK, VectorInv, [Next]_vars, NEW s \in Sessions
  PROVE  \/ Places(s)' = Places(s)
         \/ \E x \in Slots :
              /\ WriteVector(x) /\ Session(x) = s
              /\ \E n : Places(s)' = Places(s) \cup {n} /\ n \notin Places(s)
  <1> DEFINE seq == vector[Owner[s]]
  <1>0. Owner[s] \in Users  BY PipelineAssumption
  <1>1. ASSUME NEW x \in Slots, WriteVector(x), VersionMatches(x)
        PROVE  \/ Places(s)' = Places(s)
               \/ /\ Session(x) = s
                  /\ \E n : Places(s)' = Places(s) \cup {n} /\ n \notin Places(s)
    <2>1. Learner(x) \in Users /\ Session(x) \in Sessions /\ Learner(x) = Owner[Session(x)]
      BY <1>1, SessionOfBusy DEF TypeOK, WriteVector
    <2>2. vector' = [vector EXCEPT ![Learner(x)] = Append(vector[Learner(x)], Session(x))]
      BY <1>1, WriteFolds DEF VectorInv, AtomicUpdate!Fold
    <2>3. CASE Learner(x) # Owner[s]
      BY <2>2, <2>3 DEF Places
    <2>4. CASE Learner(x) = Owner[s]
      <3>1. seq \in Seq(Sessions) /\ seq' = Append(seq, Session(x))
        BY <1>0, <2>2, <2>4 DEF TypeOK, LearnerTypeOK
      <3> DEFINE old == {i \in DOMAIN seq : seq[i] = s}
                 new == {i \in DOMAIN Append(seq, Session(x)) : Append(seq, Session(x))[i] = s}
      <3>2. Places(s) = old /\ Places(s)' = new  BY <3>1 DEF Places
      <3>3. /\ new = IF Session(x) = s THEN old \cup {Len(seq) + 1} ELSE old
            /\ Len(seq) + 1 \notin old
        BY <2>1, <3>1, AppendPlaces
      <3> HIDE DEF old, new
      <3> QED  BY <3>2, <3>3
    <2> QED  BY <2>3, <2>4
  <1>2. CASE UNCHANGED vector  BY <1>2 DEF Places
  <1> QED  BY <1>1, <1>2, VectorFrame DEF WriteVector

\* Likewise for the snapshots.
LEMMA RecordsStep ==
  ASSUME TypeOK, [Next]_vars, NEW s \in Sessions
  PROVE  \/ Records(s)' = Records(s) /\ \A x \in Slots : Session(x) = s => ~ WriteSnapshot(x)
         \/ \E x \in Slots :
              /\ WriteSnapshot(x) /\ Session(x) = s
              /\ \E n : Records(s)' = Records(s) \cup {n} /\ n \notin Records(s)
  <1> DEFINE seq == snapshots[Owner[s]]
  <1>0. Owner[s] \in Users  BY PipelineAssumption
  <1>1. ASSUME NEW x \in Slots, WriteSnapshot(x)
        PROVE  IF Session(x) = s
               THEN \E n : Records(s)' = Records(s) \cup {n} /\ n \notin Records(s)
               ELSE Records(s)' = Records(s)
    <2> DEFINE entry == [of |-> Session(x), shows |-> local[x].seen]
    <2>1. Learner(x) \in Users /\ Session(x) \in Sessions /\ Learner(x) = Owner[Session(x)]
      BY <1>1, SessionOfBusy DEF TypeOK, WriteSnapshot
    <2>2. snapshots' = [snapshots EXCEPT ![Learner(x)] = Append(snapshots[Learner(x)], entry)]
      BY <1>1 DEF WriteSnapshot
    <2>3. entry.of = Session(x) /\ entry \in Snapshot
      BY <2>1 DEF Snapshot, TypeOK, WorkerTypeOK, Locals
    <2> HIDE DEF entry
    <2>4. CASE Learner(x) # Owner[s]
      BY <2>1, <2>2, <2>4 DEF Records
    <2>5. CASE Learner(x) = Owner[s]
      <3>1. seq \in Seq(Snapshot) /\ seq' = Append(seq, entry)
        BY <1>0, <2>2, <2>5 DEF TypeOK, LearnerTypeOK
      <3> DEFINE old == {i \in DOMAIN seq : seq[i].of = s}
                 new == {i \in DOMAIN Append(seq, entry) : Append(seq, entry)[i].of = s}
      <3>2. Records(s) = old /\ Records(s)' = new  BY <3>1 DEF Records
      <3>3. /\ new = IF entry.of = s THEN old \cup {Len(seq) + 1} ELSE old
            /\ Len(seq) + 1 \notin old
        BY <2>3, <3>1, AppendRecords
      <3> HIDE DEF old, new
      <3> QED  BY <2>3, <3>2, <3>3
    <2> QED  BY <2>4, <2>5
  <1>2. ASSUME \A x \in Slots : ~ WriteSnapshot(x) PROVE UNCHANGED snapshots
    BY <1>2
    DEF Next, Handle, Admit, Refuse, InsertSession, Enqueue, MarkFailed, RouteToDlq,
        StalledCheck, Start, Execute, MarkProcessing, FetchSession, CallProvider, ResetSession,
        CreateRun, ScoreSession, ReadVector, WriteVector, ReadSnapshot, Return, Raise, Fault,
        RequestError, TaskError, LockExpires, DatabaseError, Crash, vars, learnerVars
  <1>3. ASSUME NEW x \in Slots, NEW y \in Slots, WriteSnapshot(x), WriteSnapshot(y)
        PROVE  x = y
    BY <1>3 DEF WriteSnapshot, Goto, TypeOK, WorkerTypeOK
  <1>4. CASE \A x \in Slots : ~ WriteSnapshot(x)
    BY <1>2, <1>4 DEF Records
  <1>5. ASSUME NEW x \in Slots, WriteSnapshot(x), Session(x) # s
        PROVE  Records(s)' = Records(s) /\ \A y \in Slots : Session(y) = s => ~ WriteSnapshot(y)
    BY <1>1, <1>3, <1>5
  <1> QED  BY <1>1, <1>4, <1>5

-----------------------------------------------------------------------------
\* As long as no lock is lost, a job is executed by one execution at a time,
\* and it is neither finished nor given up meanwhile.
LEMMA Alone ==
  ASSUME TypeOK, LocksAreActive, HeldWhileBusy, NEW y \in Slots, pc[y] # "idle"
  PROVE  /\ Session(y) \in Sessions /\ qstate[Session(y)] = "active" /\ ~ IsExhausted(Session(y))
         /\ \A x \in Slots : pc[x] # "idle" /\ Session(x) = Session(y) => x = y
  <1>1. Session(y) \in Sessions  BY SessionOfBusy DEF TypeOK
  <1>2. holder[Session(y)] = y  BY DEF HeldWhileBusy
  <1>3. qstate[Session(y)] = "active"
    BY <1>1, <1>2, SlotAssumption DEF LocksAreActive
  <1>4. \A x \in Slots : pc[x] # "idle" /\ Session(x) = Session(y) => x = y
    BY <1>2 DEF HeldWhileBusy
  <1> QED  BY <1>1, <1>3, <1>4 DEF IsExhausted

\* ... so nobody else touches what it writes.
LEMMA AloneStep ==
  ASSUME TypeOK, RowInv, ExhaustedInv, VectorInv, HeldWhileBusy, [Next]_vars,
         NEW y \in Slots, pc[y] # "idle", NEW s \in Sessions, s = Session(y)
  PROVE  /\ \/ status'[s] = status[s]
            \/ MarkProcessing(y) /\ status[s] = "pending" /\ status'[s] = "processing"
            \/ ResetSession(y) \/ (ScoreSession(y) /\ status'[s] = "scored")
         /\ Places(s)' = Places(s) \/ WriteVector(y)
         /\ Records(s)' = Records(s) \/ (WriteSnapshot(y) /\ Records(s)' # {})
  <1>0. LocksAreActive  BY DEF ExhaustedInv
  <1>1. /\ qstate[s] = "active" /\ ~ IsExhausted(s)
        /\ \A x \in Slots : pc[x] # "idle" /\ Session(x) = s => x = y
    BY <1>0, Alone
  <1>2. ~ InsertSession(s)
    BY <1>1 DEF RowInv, InsertSession
  <1>3. ~ MarkFailed(s)
    BY <1>1 DEF MarkFailed, ExhaustedInv, OnlyExhausted
  <1>4. \/ status'[s] = status[s]
        \/ MarkProcessing(y) /\ status[s] = "pending" /\ status'[s] = "processing"
        \/ ResetSession(y) \/ (ScoreSession(y) /\ status'[s] = "scored")
    BY <1>1, <1>2, <1>3, StatusStep
  <1>5. \A x \in Slots : (WriteVector(x) \/ WriteSnapshot(x)) /\ Session(x) = s => x = y
    BY <1>1 DEF WriteVector, WriteSnapshot
  <1>6. Places(s)' = Places(s) \/ WriteVector(y)
    BY <1>5, PlacesStep
  <1>7. Records(s)' = Records(s) \/ (WriteSnapshot(y) /\ Records(s)' # {})
    BY <1>5, RecordsStep
  <1> QED  BY <1>4, <1>6, <1>7

\* The way of an execution through process().
LEMMA PcStep ==
  ASSUME TypeOK, [Next]_vars, NEW y \in Slots, pc[y] # "idle", pc'[y] # "idle"
  PROVE  \/ pc'[y] = pc[y] /\ ~ Execute(y)
         \/ pc'[y] \in {"fetch", "raise", "unrecoverable"}
         \/ FetchSession(y) /\ pc'[y] = "provider" /\ ~ AlreadyScored(Session(y))
         \/ CallProvider(y) /\ pc'[y] \in {"run", "reset"}
         \/ CreateRun(y) /\ pc'[y] = "score"
         \/ ScoreSession(y) /\ pc'[y] = "readVector"
         \/ ReadVector(y) /\ pc'[y] = "writeVector"
         \/ WriteVector(y) /\ pc'[y] = "readSnapshot"
         \/ ReadSnapshot(y) /\ pc'[y] = "writeSnapshot"
         \/ WriteSnapshot(y) /\ pc'[y] = "return"
  <1> USE DEF TypeOK, WorkerTypeOK, Goto
  <1>1. ASSUME NEW s \in Sessions, Start(y, s) PROVE FALSE  BY <1>1 DEF Start
  <1>2. CASE DatabaseError(y)  BY <1>2 DEF DatabaseError
  <1>3. CASE Crash  BY <1>3 DEF Crash
  <1>4. CASE MarkProcessing(y)  BY <1>4 DEF MarkProcessing
  <1>5. CASE FetchSession(y)  BY <1>5 DEF FetchSession
  <1>6. CASE CallProvider(y)  BY <1>6 DEF CallProvider
  <1>7. CASE ResetSession(y)  BY <1>7 DEF ResetSession
  <1>8. CASE CreateRun(y)  BY <1>8 DEF CreateRun
  <1>9. CASE ScoreSession(y)  BY <1>9 DEF ScoreSession
  <1>10. CASE ReadVector(y)  BY <1>10 DEF ReadVector
  <1>11. CASE WriteVector(y)  BY <1>11 DEF WriteVector
  <1>12. CASE ReadSnapshot(y)  BY <1>12 DEF ReadSnapshot
  <1>13. CASE WriteSnapshot(y)  BY <1>13 DEF WriteSnapshot
  <1>14. ASSUME Return(y) \/ Raise(y) PROVE FALSE
    BY <1>14 DEF Return, Raise, Release
  <1>15. CASE ~ Execute(y) /\ pc'[y] = pc[y]  BY <1>15
  <1> QED
    BY <1>1, <1>2, <1>3, <1>4, <1>5, <1>6, <1>7, <1>8, <1>9, <1>10, <1>11, <1>12, <1>13,
       <1>14, <1>15, SlotStep DEF Execute

LEMMA ExecutionOKStep ==
  ASSUME TypeOK, RowInv, ExhaustedInv, VectorInv, HeldWhileBusy, [Next]_vars,
         NEW y \in Slots, pc'[y] # "idle", ExecutionOK(y), \A s \in Sessions : SessionOK(s)
  PROVE  ExecutionOK(y)'
  <1> USE DEF Unscored, Scored
  <1>1. ASSUME NEW s \in Sessions, Start(y, s), pc'[y] = "mark" PROVE ExecutionOK(y)'
    BY <1>1 DEF ExecutionOK
  <1>2. ASSUME pc[y] # "idle", Session(y)' = Session(y) PROVE ExecutionOK(y)'
    <2>1. PICK s \in Sessions : s = Session(y) /\ ~ IsExhausted(s)
      BY <1>2, Alone DEF ExhaustedInv
    <2>2. /\ \/ status'[s] = status[s]
             \/ MarkProcessing(y) /\ status[s] = "pending" /\ status'[s] = "processing"
             \/ ResetSession(y) \/ (ScoreSession(y) /\ status'[s] = "scored")
          /\ Places(s)' = Places(s) \/ WriteVector(y)
          /\ Records(s)' = Records(s) \/ (WriteSnapshot(y) /\ Records(s)' # {})
      BY <1>2, <2>1, AloneStep
    <2>3. /\ pc[y] \in Unscored => status[s] # "scored"
          /\ pc[y] \in Scored => status[s] = "scored"
          /\ pc[y] \in {"readVector", "writeVector"} => Places(s) = {}
          /\ pc[y] \in Scored \ {"return"} => Records(s) = {}
          /\ pc[y] = "return" => Records(s) # {}
      BY <2>1 DEF ExecutionOK
    <2>4. Places(s) # {} \/ Records(s) # {} => status[s] = "scored"
      BY <2>1 DEF SessionOK
    <2>5. /\ pc'[y] \in Unscored => status'[s] # "scored"
          /\ pc'[y] \in Scored => status'[s] = "scored"
          /\ pc'[y] \in {"readVector", "writeVector"} => Places(s)' = {}
          /\ pc'[y] \in Scored \ {"return"} => Records(s)' = {}
          /\ pc'[y] = "return" => Records(s)' # {}
      <3>1. CASE pc'[y] = pc[y] /\ ~ Execute(y)
        BY <2>2, <2>3, <3>1 DEF Execute
      <3>2. CASE pc'[y] \in {"fetch", "raise", "unrecoverable"}
        BY <3>2
      <3>3. CASE FetchSession(y) /\ pc'[y] = "provider" /\ ~ AlreadyScored(Session(y))
        BY <2>1, <2>2, <3>3
        DEF FetchSession, MarkProcessing, ResetSession, ScoreSession, AlreadyScored
      <3>4. CASE CallProvider(y) /\ pc'[y] \in {"run", "reset"}
        BY <2>2, <2>3, <3>4 DEF CallProvider, MarkProcessing, ResetSession, ScoreSession
      <3>5. CASE CreateRun(y) /\ pc'[y] = "score"
        BY <2>2, <2>3, <3>5 DEF CreateRun, MarkProcessing, ResetSession, ScoreSession
      <3>6. CASE ScoreSession(y) /\ pc'[y] = "readVector"
        <4>1. status'[s] = "scored"
          BY <2>1, <3>6 DEF ScoreSession, TypeOK, SessionTypeOK
        <4> QED
          BY <2>2, <2>3, <2>4, <3>6, <4>1 DEF ScoreSession, WriteVector, WriteSnapshot
      <3>7. CASE ReadVector(y) /\ pc'[y] = "writeVector"
        BY <2>2, <2>3, <3>7
        DEF ReadVector, MarkProcessing, ResetSession, ScoreSession, WriteVector, WriteSnapshot
      <3>8. CASE WriteVector(y) /\ pc'[y] = "readSnapshot"
        BY <2>2, <2>3, <3>8 DEF WriteVector, MarkProcessing, ResetSession, ScoreSession, WriteSnapshot
      <3>9. CASE ReadSnapshot(y) /\ pc'[y] = "writeSnapshot"
        BY <2>2, <2>3, <3>9
        DEF ReadSnapshot, MarkProcessing, ResetSession, ScoreSession, WriteSnapshot
      <3>10. CASE WriteSnapshot(y) /\ pc'[y] = "return"
        <4>1. Records(s)' # {}
          BY <2>1, <3>10, RecordsStep
        <4> QED
          BY <2>2, <2>3, <3>10, <4>1 DEF WriteSnapshot, MarkProcessing, ResetSession, ScoreSession
      <3> QED
        BY <1>2, <3>1, <3>2, <3>3, <3>4, <3>5, <3>6, <3>7, <3>8, <3>9, <3>10, PcStep
    <2> QED  BY <1>2, <2>1, <2>5 DEF ExecutionOK
  <1> QED  BY <1>1, <1>2, BusyStep

\* What is scored stays scored, unless its job is used up.
LEMMA ScoredStays ==
  ASSUME TypeOK, RowInv, ExhaustedInv, HeldWhileBusy, [Next]_vars, \A x \in Slots : ExecutionOK(x),
         NEW s \in Sessions, status[s] = "scored"
  PROVE  status'[s] = "scored" \/ (IsExhausted(s) /\ IsExhausted(s)')
  <1>1. CASE MarkFailed(s)
    BY <1>1, QueueStep DEF MarkFailed, ExhaustedInv, OnlyExhausted
  <1>2. ASSUME InsertSession(s) PROVE FALSE
    BY <1>2 DEF InsertSession, RowInv
  <1>3. ASSUME NEW x \in Slots, Session(x) = s, ResetSession(x) PROVE FALSE
    BY <1>3 DEF ResetSession, ExecutionOK, Unscored
  <1> QED  BY <1>1, <1>2, <1>3, StatusStep

LEMMA SessionOKStep ==
  ASSUME TypeOK, RowInv, ExhaustedInv, VectorInv, HeldWhileBusy, [Next]_vars,
         \A x \in Slots : ExecutionOK(x), NEW s \in Sessions, SessionOK(s)
  PROVE  SessionOK(s)'
  <1>1. \/ Places(s)' = Places(s)
        \/ status[s] = "scored" /\ Places(s) = {} /\ \E n : Places(s)' = {n}
    <2>1. ASSUME NEW x \in Slots, WriteVector(x), Session(x) = s
          PROVE  status[s] = "scored" /\ Places(s) = {}
      BY <2>1 DEF WriteVector, ExecutionOK, Scored
    <2> QED  BY <2>1, PlacesStep
  <1>2. \/ Records(s)' = Records(s)
        \/ status[s] = "scored" /\ Records(s) = {} /\ \E n : Records(s)' = {n}
    <2>1. ASSUME NEW x \in Slots, WriteSnapshot(x), Session(x) = s
          PROVE  status[s] = "scored" /\ Records(s) = {}
      BY <2>1 DEF WriteSnapshot, ExecutionOK, Scored
    <2> QED  BY <2>1, RecordsStep
  <1>3. (Places(s) # {} \/ Records(s) # {} => status[s] = "scored" \/ IsExhausted(s))'
    <2>1. IsExhausted(s) => IsExhausted(s)'  BY QueueStep
    <2>2. status[s] = "scored" => status'[s] = "scored" \/ IsExhausted(s)'
      BY ScoredStays
    <2> QED  BY <1>1, <1>2, <2>1, <2>2 DEF SessionOK
  <1>4. (\A i, j \in Places(s) : i = j)'
    BY <1>1 DEF SessionOK
  <1>5. (\A i, j \in Records(s) : i = j)'
    BY <1>2 DEF SessionOK
  <1>6. ASSUME qstate'[s] = "completed"
        PROVE  status'[s] = "scored" /\ Records(s)' # {}
    <2>1. CASE qstate[s] = "completed"
      <3>1. status[s] = "scored" /\ Records(s) # {} /\ ~ IsExhausted(s)
        BY <2>1 DEF SessionOK, IsExhausted
      <3> QED  BY <1>2, <3>1, ScoredStays
    <2>2. ASSUME NEW x \in Slots, Return(x), Session(x) = s
          PROVE  status'[s] = "scored" /\ Records(s)' # {}
      <3>1. status[s] = "scored" /\ Records(s) # {}
        BY <2>2 DEF Return, ExecutionOK, Scored
      <3>2. status' = status /\ snapshots' = snapshots
        BY <2>2 DEF Return, sessionVars, learnerVars
      <3> QED  BY <3>1, <3>2 DEF Records
    <2> QED  BY <1>6, <2>1, <2>2, JobStep DEF ExhaustedInv
  <1> QED  BY <1>3, <1>4, <1>5, <1>6 DEF SessionOK

LEMMA OnceInvStep ==
  ASSUME TypeOK, RowInv, ExhaustedInv, VectorInv, HeldInv, OnceInv, [Next]_vars
  PROVE  OnceInv'
  <1> SUFFICES ASSUME lockLosses' = 0
               PROVE  /\ \A x \in Slots : ExecutionOK(x)'
                      /\ \A s \in Sessions : SessionOK(s)'
    BY DEF OnceInv
  <1>1. /\ HeldWhileBusy
        /\ \A x \in Slots : ExecutionOK(x)
        /\ \A s \in Sessions : SessionOK(s)
    BY LossesStep DEF HeldInv, OnceInv
  <1>2. ASSUME NEW y \in Slots PROVE ExecutionOK(y)'
    <2>1. CASE pc'[y] = "idle"  BY <2>1 DEF ExecutionOK, Unscored, Scored
    <2>2. CASE pc'[y] # "idle"  BY <1>1, <2>2, ExecutionOKStep
    <2> QED  BY <2>1, <2>2
  <1>3. ASSUME NEW s \in Sessions PROVE SessionOK(s)'
    BY <1>1, SessionOKStep
  <1> QED  BY <1>2, <1>3

LEMMA OnceInvHolds == Spec => [](RowInv /\ HeldInv /\ OnceInv)
  <1>1. Init => RowInv /\ HeldInv
    BY DEF Init, QueueInit, RowInv, HeldInv, HeldWhileBusy
  <1>2. Init => OnceInv
    <2> SUFFICES ASSUME Init PROVE OnceInv  OBVIOUS
    <2>1. \A x \in Slots : ExecutionOK(x)
      BY DEF Init, ExecutionOK, Unscored, Scored
    <2>2. \A s \in Sessions : Places(s) = {} /\ Records(s) = {}
      <3> TAKE s \in Sessions
      <3>1. vector[Owner[s]] = <<>> /\ snapshots[Owner[s]] = <<>>
        BY PipelineAssumption DEF Init
      <3> QED  BY <3>1 DEF Places, Records
    <2>3. \A s \in Sessions : qstate[s] # "completed"
      BY DEF Init, QueueInit
    <2> QED  BY <2>1, <2>2, <2>3 DEF OnceInv, SessionOK
  <1>3. /\ TypeOK /\ ExhaustedInv /\ VectorInv
        /\ RowInv /\ HeldInv /\ OnceInv /\ [Next]_vars
        => (RowInv /\ HeldInv /\ OnceInv)'
    BY RowInvStep, HeldInvStep, OnceInvStep DEF ExhaustedInv
  <1> QED
    BY <1>1, <1>2, <1>3, TypeCorrect, ExhaustedInvHolds, VectorInvHolds, PTL DEF Spec

\* While no lock is lost, no session is evaluated by two executions at once
\* (Worker of writing_evaluation.py, with a concurrency above one).
THEOREM SingleFlight ==
  Spec => [](lockLosses = 0 =>
               \A x, y \in Slots :
                 pc[x] # "idle" /\ pc[y] # "idle" /\ Session(x) = Session(y) => x = y)
  <1>1. TypeOK /\ ExhaustedInv /\ HeldInv
        => (lockLosses = 0 =>
              \A x, y \in Slots :
                pc[x] # "idle" /\ pc[y] # "idle" /\ Session(x) = Session(y) => x = y)
    BY Alone DEF HeldInv, ExhaustedInv
  <1> QED  BY <1>1, TypeCorrect, ExhaustedInvHolds, OnceInvHolds, PTL

LEMMA AtMostOne ==
  ASSUME NEW S, \A i, j \in S : i = j
  PROVE  IsFiniteSet(S) /\ Cardinality(S) <= 1
  <1>1. CASE S = {}  BY <1>1, FS_EmptySet
  <1>2. ASSUME NEW i \in S PROVE IsFiniteSet(S) /\ Cardinality(S) <= 1
    <2>1. S = {i}  OBVIOUS
    <2>2. IsFiniteSet({i}) /\ Cardinality({i}) = 1  BY FS_Singleton
    <2> QED  BY <2>1, <2>2
  <1> QED  BY <1>1, <1>2

\* However often BullMQ delivers a job, its session gets into the skill vector
\* and the readiness history at most once, unless a lock was lost
\* (_fetch_writing_session).
THEOREM DeliveredAgainAppliedOnce == Spec => []AppliedOnce
  <1>1. OnceInv => AppliedOnce
    <2> SUFFICES ASSUME lockLosses = 0, OnceInv, NEW s \in Sessions
                 PROVE  Cardinality(Places(s)) <= 1 /\ Cardinality(Records(s)) <= 1
      BY DEF AppliedOnce, Occurrences, Places, Records
    <2> QED  BY AtMostOne DEF OnceInv, SessionOK
  <1> QED  BY <1>1, OnceInvHolds, PTL

\* A job that BullMQ counts as completed left its scores and its readiness
\* snapshot, unless a lock was lost (process).
THEOREM CompletionIsResult == Spec => []CompletedIsScored
  <1>1. OnceInv => CompletedIsScored
    <2> SUFFICES ASSUME lockLosses = 0, OnceInv, NEW s \in Sessions, qstate[s] = "completed"
                 PROVE  status[s] = "scored" /\ Records(s) # {}
      BY DEF CompletedIsScored, Records
    <2> QED  BY DEF OnceInv, SessionOK
  <1> QED  BY <1>1, OnceInvHolds, PTL

\* A client that was told that its essay failed was told the last word,
\* unless a lock was lost (get_evaluation_result).
THEOREM FailureIsTheLastWord == Spec => FailedIsFinal
  <1>1. TypeOK /\ ExhaustedInv /\ RowInv /\ HeldInv /\ [Next]_vars
        => [lockLosses = 0 =>
              \A s \in Sessions : status[s] = "failed" => status'[s] = "failed"]_status
    <2> SUFFICES ASSUME TypeOK, ExhaustedInv, RowInv, HeldInv, [Next]_vars, lockLosses = 0,
                        NEW s \in Sessions, status[s] = "failed"
                 PROVE  status'[s] = "failed"
      OBVIOUS
    <2>1. IsExhausted(s)  BY DEF ExhaustedInv, OnlyExhausted
    <2>2. \A x \in Slots : pc[x] # "idle" => Session(x) # s
      BY <2>1, Alone DEF HeldInv, ExhaustedInv
    <2>3. ~ InsertSession(s)  BY DEF InsertSession, RowInv
    <2> QED  BY <2>2, <2>3, StatusStep
  <1> QED
    BY <1>1, TypeCorrect, ExhaustedInvHolds, OnceInvHolds, PTL DEF Spec, FailedIsFinal

\* What can overwrite a scored session, while no lock is lost, is the UPDATE of
\* _mark_session_failed alone: with "AND status <> 'scored'" in it, "SCORED"
\* would be the last status that the schema says it is (see ScoredIsFinal).
THEOREM OnlyFailureOverwritesScored ==
  Spec => [][lockLosses = 0 =>
               \A s \in Sessions :
                 status[s] = "scored" /\ status'[s] # "scored" => MarkFailed(s)]_vars
  <1>1. TypeOK /\ RowInv /\ HeldInv /\ OnceInv /\ [Next]_vars
        => [lockLosses = 0 =>
              \A s \in Sessions :
                status[s] = "scored" /\ status'[s] # "scored" => MarkFailed(s)]_vars
    <2> SUFFICES ASSUME TypeOK, RowInv, HeldInv, OnceInv, [Next]_vars, lockLosses = 0,
                        NEW s \in Sessions, status[s] = "scored", status'[s] # "scored",
                        ~ MarkFailed(s)
                 PROVE  FALSE
      OBVIOUS
    <2>1. ASSUME InsertSession(s) PROVE FALSE
      BY <2>1 DEF InsertSession, RowInv
    <2>2. ASSUME NEW x \in Slots, Session(x) = s, ResetSession(x) PROVE FALSE
      BY <2>2 DEF OnceInv, ResetSession, ExecutionOK, Unscored
    <2> QED  BY <2>1, <2>2, StatusStep
  <1> QED
    BY <1>1, TypeCorrect, OnceInvHolds, PTL DEF Spec

-----------------------------------------------------------------------------
(* The audit trail: each execution that may still reach the vector has a row *)
(* in ai_model_runs of its own, and so has each evaluation that got there.   *)

LEMMA RunsStep ==
  ASSUME TypeOK, [Next]_vars, NEW s \in Sessions
  PROVE  /\ \/ runs'[s] = runs[s]
            \/ \E x \in Slots : CreateRun(x) /\ Session(x) = s /\ runs'[s] = runs[s] + 1
         /\ \/ result'[s] = result[s]
            \/ \E x \in Slots : ScoreSession(x) /\ Session(x) = s /\ result'[s] = local[x].run
  <1> DEFINE Goal ==
        /\ \/ runs'[s] = runs[s]
           \/ \E x \in Slots : CreateRun(x) /\ Session(x) = s /\ runs'[s] = runs[s] + 1
        /\ \/ result'[s] = result[s]
           \/ \E x \in Slots : ScoreSession(x) /\ Session(x) = s /\ result'[s] = local[x].run
  <1> USE DEF TypeOK, SessionTypeOK
  <1>1. ASSUME NEW x \in Slots, CreateRun(x) PROVE Goal
    <2>1. runs' = [runs EXCEPT ![Session(x)] = runs[Session(x)] + 1] /\ result' = result
      BY <1>1 DEF CreateRun
    <2> QED  BY <1>1, <2>1
  <1>2. ASSUME NEW x \in Slots, ScoreSession(x) PROVE Goal
    <2>1. result' = [result EXCEPT ![Session(x)] = local[x].run] /\ runs' = runs
      BY <1>2 DEF ScoreSession
    <2> QED  BY <1>2, <2>1
  <1>3. CASE UNCHANGED <<runs, result>>  BY <1>3
  <1> QED
    BY <1>1, <1>2, <1>3
    DEF Next, Handle, Admit, Refuse, InsertSession, Enqueue, MarkFailed, RouteToDlq,
        StalledCheck, Start, Execute, MarkProcessing, FetchSession, CallProvider,
        ResetSession, ReadVector, WriteVector, ReadSnapshot, WriteSnapshot, Return, Raise,
        Fault, RequestError, TaskError, LockExpires, DatabaseError, Crash, vars, sessionVars

LEMMA RunsGrow ==
  ASSUME TypeOK, [Next]_vars, NEW s \in Sessions
  PROVE  runs[s] \in Nat /\ runs'[s] \in Nat /\ runs[s] <= runs'[s]
  <1>1. runs[s] \in Nat  BY DEF TypeOK, SessionTypeOK
  <1> QED  BY <1>1, RunsStep

\* An execution arrives at "score" with the run that it has just recorded.
LEMMA ScoreStep ==
  ASSUME TypeOK, [Next]_vars, NEW y \in Slots, pc'[y] = "score"
  PROVE  /\ pc[y] # "idle" /\ Session(y)' = Session(y) /\ Session(y) \in Sessions
         /\ \/ pc[y] = "score" /\ local'[y] = local[y]
            \/ CreateRun(y) /\ local'[y].run = runs[Session(y)] + 1
  <1>1. pc[y] # "idle" /\ Session(y)' = Session(y)
    BY BusyStep
  <1>2. Session(y) \in Sessions  BY <1>1, SessionOfBusy DEF TypeOK
  <1>3. ASSUME Execute(y) PROVE CreateRun(y)
    BY <1>1, <1>3, PcStep
    DEF FetchSession, CallProvider, ScoreSession, ReadVector, WriteVector, ReadSnapshot,
        WriteSnapshot
  <1>4. CreateRun(y) => local'[y].run = runs[Session(y)] + 1
    BY DEF CreateRun, TypeOK, WorkerTypeOK, Locals
  <1>5. ~ Execute(y) => pc[y] = "score" /\ local'[y] = local[y]
    BY <1>1, SlotStep DEF DatabaseError, Start, Crash, Goto, TypeOK, WorkerTypeOK
  <1> QED  BY <1>1, <1>2, <1>3, <1>4, <1>5

LEMMA ResultsStep ==
  ASSUME TypeOK, TraceInv, [Next]_vars
  PROVE  /\ \A s \in Sessions : status'[s] = "scored" => result'[s] \in 1 .. runs'[s]
         /\ \A y \in Slots : pc'[y] = "score" => local'[y].run \in 1 .. runs'[Session(y)']
  <1>1. ASSUME NEW s \in Sessions, status'[s] = "scored"
        PROVE  result'[s] \in 1 .. runs'[s]
    <2>1. ASSUME NEW x \in Slots, ScoreSession(x), Session(x) = s
          PROVE  result'[s] \in 1 .. runs'[s]
      <3>1. local[x].run \in 1 .. runs[s]
        BY <2>1 DEF TraceInv, ScoreSession
      <3>2. result'[s] = local[x].run
        BY <2>1 DEF ScoreSession, TypeOK, SessionTypeOK
      <3> QED  BY <3>1, <3>2, RunsGrow
    <2>2. CASE \A x \in Slots : Session(x) = s => ~ ScoreSession(x)
      <3>1. status[s] = "scored" /\ result'[s] = result[s]
        BY <1>1, <2>2, StatusStep, RunsStep
      <3>2. result[s] \in 1 .. runs[s]  BY <3>1 DEF TraceInv
      <3> QED  BY <3>1, <3>2, RunsGrow
    <2> QED  BY <2>1, <2>2
  <1>2. ASSUME NEW y \in Slots, pc'[y] = "score"
        PROVE  local'[y].run \in 1 .. runs'[Session(y)']
    <2>1. PICK s \in Sessions : s = Session(y) /\ Session(y)' = s
      BY <1>2, ScoreStep
    <2>2. CASE pc[y] = "score" /\ local'[y] = local[y]
      <3>1. local[y].run \in 1 .. runs[s]  BY <2>1, <2>2 DEF TraceInv
      <3> QED  BY <2>1, <2>2, <3>1, RunsGrow
    <2>3. CASE CreateRun(y) /\ local'[y].run = runs[s] + 1
      <3>1. runs'[s] = runs[s] + 1
        BY <2>1, <2>3 DEF CreateRun, TypeOK, SessionTypeOK
      <3> QED  BY <2>1, <2>3, <3>1, RunsGrow
    <2> QED  BY <1>2, <2>1, <2>2, <2>3, ScoreStep
  <1> QED  BY <1>1, <1>2

\* Who joins the executions that may reach the vector, and who leaves them.
LEMMA ApplyingStep ==
  ASSUME TypeOK, [Next]_vars, NEW s \in Sessions
  PROVE  /\ \A y \in Applying(s)' : y \in Applying(s) \/ (CreateRun(y) /\ Session(y) = s)
         /\ \A x \in Slots : WriteVector(x) /\ Session(x) = s =>
              x \in Applying(s) /\ x \notin Applying(s)'
  <1>1. ASSUME NEW y \in Applying(s)'
        PROVE  y \in Applying(s) \/ (CreateRun(y) /\ Session(y) = s)
    <2>1. /\ y \in Slots /\ pc'[y] \in {"score", "readVector", "writeVector"}
          /\ Session(y)' = s
      BY <1>1 DEF Applying
    <2>2. pc[y] # "idle" /\ Session(y) = s
      BY <2>1, BusyStep
    <2>3. pc[y] \in {"score", "readVector", "writeVector"} \/ CreateRun(y)
      BY <2>1, <2>2, PcStep
      DEF FetchSession, CallProvider, ScoreSession, ReadVector, WriteVector, ReadSnapshot,
          WriteSnapshot
    <2> QED  BY <2>1, <2>2, <2>3 DEF Applying
  <1>2. ASSUME NEW x \in Slots, WriteVector(x), Session(x) = s
        PROVE  x \in Applying(s) /\ x \notin Applying(s)'
    <2>1. pc[x] = "writeVector" /\ pc'[x] = "readSnapshot"
      BY <1>2 DEF WriteVector, Goto, TypeOK, WorkerTypeOK
    <2> QED  BY <1>2, <2>1 DEF Applying
  <1> QED  BY <1>1, <1>2

LEMMA PlacesFinite ==
  ASSUME TypeOK, NEW s \in Sessions
  PROVE  /\ IsFiniteSet(Places(s)) /\ Cardinality(Places(s)) \in Nat
         /\ Occurrences(vector[Owner[s]], s) = Cardinality(Places(s))
  <1>1. vector[Owner[s]] \in Seq(Sessions)
    BY PipelineAssumption DEF TypeOK, LearnerTypeOK
  <1>2. Len(vector[Owner[s]]) \in Int /\ Places(s) \subseteq 1 .. Len(vector[Owner[s]])
    BY <1>1 DEF Places
  <1>3. IsFiniteSet(1 .. Len(vector[Owner[s]]))
    BY <1>2, FS_Interval
  <1>4. IsFiniteSet(Places(s))
    <2> HIDE DEF Places
    <2> QED  BY <1>2, <1>3, FS_Subset
  <1>5. Cardinality(Places(s)) \in Nat  BY <1>4, FS_CardinalityType
  <1> QED  BY <1>4, <1>5 DEF Occurrences, Places

LEMMA CountStep ==
  ASSUME TypeOK, VectorInv, TraceInv, [Next]_vars, NEW s \in Sessions
  PROVE  /\ IsFiniteSet(Applying(s)')
         /\ Cardinality(Places(s)') + Cardinality(Applying(s)') <= runs'[s]
  <1> DEFINE a == Applying(s)  b == Applying(s)'  p == Places(s)  q == Places(s)'
             r == runs[s]  t == runs'[s]
  <1>1. IsFiniteSet(a) /\ IsFiniteSet(p) /\ Cardinality(p) + Cardinality(a) <= r
    BY PlacesFinite DEF TraceInv
  <1>2. Cardinality(a) \in Nat /\ Cardinality(p) \in Nat
    BY <1>1, FS_CardinalityType
  <1>3. r \in Nat /\ t \in Nat /\ r <= t  BY RunsGrow
  <1>4. \A y \in b : y \in a \/ (CreateRun(y) /\ Session(y) = s)
    BY ApplyingStep
  <1>5. ASSUME NEW x \in Slots, CreateRun(x), Session(x) = s
        PROVE  /\ b \subseteq a \cup {x} /\ t = r + 1 /\ q = p
    <2>1. \A y \in Slots : CreateRun(y) => y = x
      BY <1>5 DEF CreateRun, Goto, TypeOK, WorkerTypeOK
    <2>2. b \subseteq Slots  BY DEF Applying
    <2>3. t = r + 1  BY <1>5 DEF CreateRun, TypeOK, SessionTypeOK
    <2>4. q = p  BY <1>5 DEF CreateRun, learnerVars, Places
    <2> HIDE DEF a, b
    <2> QED  BY <1>4, <2>1, <2>2, <2>3, <2>4
  <1>6. ASSUME NEW x \in Slots, WriteVector(x), Session(x) = s
        PROVE  b \subseteq a \ {x} /\ x \in a
    <2>1. x \in a /\ x \notin b  BY <1>6, ApplyingStep
    <2>2. \A y \in b : ~ CreateRun(y)
      BY <1>6 DEF CreateRun, WriteVector, Goto, TypeOK, WorkerTypeOK, Applying
    <2> HIDE DEF a, b
    <2> QED  BY <1>4, <2>1, <2>2
  <1>7. \/ q = p
        \/ \E x \in Slots : /\ WriteVector(x) /\ Session(x) = s
                            /\ \E n : q = p \cup {n} /\ n \notin p
    BY PlacesStep
  <1> HIDE DEF a, b, p, q, r, t
  <1>8. CASE \E x \in Slots : CreateRun(x) /\ Session(x) = s
    <2>1. PICK x \in Slots : b \subseteq a \cup {x} /\ t = r + 1 /\ q = p
      BY <1>5, <1>8
    <2>2. IsFiniteSet(a \cup {x}) /\ Cardinality(a \cup {x}) <= Cardinality(a) + 1
      <3>1. /\ IsFiniteSet(a \cup {x})
            /\ Cardinality(a \cup {x}) =
                 IF x \in a THEN Cardinality(a) ELSE Cardinality(a) + 1
        BY <1>1, FS_AddElement
      <3> QED  BY <1>2, <3>1
    <2>3. IsFiniteSet(b) /\ Cardinality(b) <= Cardinality(a \cup {x})
      BY <2>1, <2>2, FS_Subset
    <2>4. Cardinality(b) \in Nat /\ Cardinality(a \cup {x}) \in Nat
      BY <2>2, <2>3, FS_CardinalityType
    <2> QED  BY <1>1, <1>2, <1>3, <2>1, <2>2, <2>3, <2>4 DEF b, q, t
  <1>9. CASE \E x \in Slots : WriteVector(x) /\ Session(x) = s
    <2>1. PICK x \in a : b \subseteq a \ {x}
      BY <1>6, <1>9
    <2>2. IsFiniteSet(a \ {x}) /\ Cardinality(a \ {x}) = Cardinality(a) - 1
      BY <1>1, <2>1, FS_RemoveElement
    <2>3. IsFiniteSet(b) /\ Cardinality(b) <= Cardinality(a) - 1
      BY <2>1, <2>2, FS_Subset
    <2>4. Cardinality(q) \in Nat /\ Cardinality(q) <= Cardinality(p) + 1
      BY <1>1, <1>2, <1>7, FS_AddElement
    <2>5. Cardinality(b) \in Nat
      BY <2>3, FS_CardinalityType
    <2> QED  BY <1>1, <1>2, <1>3, <2>3, <2>4, <2>5 DEF b, q, t
  <1>10. CASE /\ ~ \E x \in Slots : CreateRun(x) /\ Session(x) = s
              /\ ~ \E x \in Slots : WriteVector(x) /\ Session(x) = s
    <2>1. b \subseteq Slots  BY DEF b, Applying
    <2>2. b \subseteq a /\ q = p  BY <1>4, <1>7, <1>10, <2>1
    <2>3. IsFiniteSet(b) /\ Cardinality(b) <= Cardinality(a)
      BY <1>1, <2>2, FS_Subset
    <2>4. Cardinality(b) \in Nat  BY <2>3, FS_CardinalityType
    <2> QED  BY <1>1, <1>2, <1>3, <2>2, <2>3, <2>4 DEF b, q, t
  <1> QED  BY <1>8, <1>9, <1>10

LEMMA TraceInvHolds == Spec => []TraceInv
  <1>1. Init => TraceInv
    <2> SUFFICES ASSUME Init PROVE TraceInv  OBVIOUS
    <2>1. \A s \in Sessions : Applying(s) = {}
      BY DEF Init, Applying
    <2>2. TypeOK  BY InitType
    <2>3. ASSUME NEW s \in Sessions
          PROVE  IsFiniteSet(Applying(s))
                 /\ Occurrences(vector[Owner[s]], s) + Cardinality(Applying(s)) <= runs[s]
      <3>1. vector[Owner[s]] = <<>> /\ runs[s] = 0
        BY PipelineAssumption DEF Init
      <3>2. Places(s) = {}  BY <3>1 DEF Places
      <3>3. Occurrences(vector[Owner[s]], s) = Cardinality(Places(s))
        BY DEF Occurrences, Places
      <3>4. IsFiniteSet({}) /\ Cardinality({}) = 0
        BY FS_EmptySet
      <3>5. IsFiniteSet(Applying(s)) /\ Cardinality(Applying(s)) = 0
        BY <2>1, <3>4
      <3>6. Occurrences(vector[Owner[s]], s) = 0
        BY <3>2, <3>3, <3>4
      <3> QED  BY <3>1, <3>5, <3>6
    <2> QED  BY <2>3 DEF Init, TraceInv
  <1>2. TypeOK /\ TypeOK' /\ VectorInv /\ TraceInv /\ [Next]_vars => TraceInv'
    <2> SUFFICES ASSUME TypeOK, TypeOK', VectorInv, TraceInv, [Next]_vars PROVE TraceInv'
      OBVIOUS
    <2>1. \A s \in Sessions : status'[s] = "scored" => result'[s] \in 1 .. runs'[s]
      BY ResultsStep
    <2>2. \A x \in Slots : pc'[x] = "score" => local'[x].run \in 1 .. runs'[Session(x)']
      BY ResultsStep
    <2>3. ASSUME NEW s \in Sessions
          PROVE  (/\ IsFiniteSet(Applying(s))
                  /\ Occurrences(vector[Owner[s]], s) + Cardinality(Applying(s)) <= runs[s])'
      <3>1. Occurrences(vector'[Owner[s]], s) = Cardinality(Places(s)')
        BY DEF Occurrences, Places
      <3> QED  BY <3>1, CountStep
    <2> QED  BY <2>1, <2>2, <2>3 DEF TraceInv
  <1> QED  BY <1>1, <1>2, TypeCorrect, VectorInvHolds, PTL DEF Spec

\* No score without a trace: what a learner is shown was recorded in
\* ai_model_runs, and no evaluation moved a skill vector more often than it
\* was recorded, whatever locks were lost (process).
THEOREM EveryScoreIsTraceable == Spec => []Traceable
  <1>1. TypeOK /\ TraceInv => Traceable
    <2> SUFFICES ASSUME TypeOK, TraceInv, NEW s \in Sessions
                 PROVE  Occurrences(vector[Owner[s]], s) <= runs[s]
      BY DEF Traceable, TraceInv
    <2>1. /\ Cardinality(Applying(s)) \in Nat
          /\ Occurrences(vector[Owner[s]], s) \in Nat /\ runs[s] \in Nat
          /\ Occurrences(vector[Owner[s]], s) + Cardinality(Applying(s)) <= runs[s]
      BY PlacesFinite, FS_CardinalityType DEF TraceInv, TypeOK, SessionTypeOK
    <2> QED  BY <2>1
  <1> QED  BY <1>1, TypeCorrect, TraceInvHolds, PTL

-----------------------------------------------------------------------------
\* One session begins at a time.
LEMMA BegunStep ==
  ASSUME TypeOK, [Next]_vars, NEW u \in Users
  PROVE  \/ Begun(u)' \subseteq Begun(u)
         \/ \E s \in Sessions : Begun(u)' \subseteq Begun(u) \cup {s}
  <1>1. ASSUME NEW s \in Sessions, Admit(s) \/ Refuse(s)
        PROVE  Begun(u)' \subseteq Begun(u) \cup {s}
    <2>1. \A t \in Sessions : t # s => request'[t] = request[t]
      BY <1>1 DEF Admit, Refuse, TypeOK, SessionTypeOK
    <2> QED  BY <2>1 DEF Begun, SessionsOf
  <1>2. ASSUME \A s \in Sessions : ~ (Admit(s) \/ Refuse(s))
        PROVE  Begun(u)' \subseteq Begun(u)
    <2>1. \A t \in Sessions : request[t] = "idle" => request'[t] = "idle"
      BY <1>2, RequestStep DEF InsertSession, Enqueue
    <2> QED  BY <2>1 DEF Begun, SessionsOf
  <1> QED  BY <1>1, <1>2

\* Only a request that passes the check adds a live session.
LEMMA LiveStep ==
  ASSUME TypeOK, RowInv, ExhaustedInv, HeldWhileBusy, [Next]_vars,
         NEW u \in Users, NEW s \in Live(u)'
  PROVE  s \in SessionsOf(u) /\ (s \in Live(u) \/ Admit(s))
  <1>1. /\ s \in Sessions /\ s \in SessionsOf(u)
        /\ status'[s] \notin {"none", "failed"} \/ request'[s] = "admitted"
    BY DEF Live, Counted, Awaiting, SessionsOf
  <1>2. CASE request'[s] = "admitted"
    <2>1. request[s] = "admitted" \/ Admit(s)
      BY <1>1, <1>2, RequestStep
    <2> QED  BY <1>1, <2>1 DEF Live, Awaiting
  <1>3. CASE status'[s] \notin {"none", "failed"}
    <2>1. CASE status'[s] = status[s]
      BY <1>1, <1>3, <2>1 DEF Live, Counted
    <2>2. CASE InsertSession(s)
      BY <1>1, <2>2 DEF Live, Awaiting, InsertSession
    <2>3. ASSUME NEW x \in Slots, pc[x] # "idle", Session(x) = s
          PROVE  s \in Live(u)
      <3>1. status[s] # "none"  BY <1>1, <2>3 DEF RowInv
      <3>2. ~ IsExhausted(s)  BY <2>3, Alone DEF ExhaustedInv
      <3>3. status[s] # "failed"  BY <1>1, <3>2 DEF ExhaustedInv, OnlyExhausted
      <3> QED  BY <1>1, <3>1, <3>3 DEF Live, Counted
    <2> QED  BY <1>1, <1>3, <2>1, <2>2, <2>3, StatusStep
  <1> QED  BY <1>1, <1>2, <1>3

\* What the check admits: the sessions it counts, those it cannot see yet, and
\* the one it lets through.
LEMMA AdmitStep ==
  ASSUME RowInv, NEW s \in Sessions, Owner[s] \in FreeUsers, Admit(s),
         IsFiniteSet(Begun(Owner[s])),
         NEW S, S \subseteq Live(Owner[s]) \cup {s}
  PROVE  Cardinality(S) + 1 <= MonthlyLimit + MaxInFlight
  <1> DEFINE u == Owner[s]
             counted == Counted(u)  waiting == Awaiting(u)  flight == InFlight(u)
             begun == Begun(u)
  <1>1. Cardinality(counted) < MonthlyLimit /\ Cardinality(flight) < MaxInFlight
    BY DEF Admit, WithinLimit
  <1>2. counted \subseteq begun
    BY DEF RowInv, Counted, Begun, SessionsOf
  <1>3. flight \subseteq begun /\ waiting \subseteq flight
    BY DEF InFlight, Awaiting, Begun, SessionsOf
  <1>4. S \subseteq counted \cup (waiting \cup {s})  BY DEF Live
  <1>5. MonthlyLimit \in Nat /\ MaxInFlight \in Nat  BY PipelineAssumption
  <1>6. IsFiniteSet(begun)  OBVIOUS
  <1> HIDE DEF u, counted, waiting, flight, begun
  <1>7. IsFiniteSet(counted) /\ IsFiniteSet(flight)
    BY <1>2, <1>3, <1>6, FS_Subset
  <1>8. IsFiniteSet(waiting) /\ Cardinality(waiting) <= Cardinality(flight)
    BY <1>3, <1>7, FS_Subset
  <1>9. /\ Cardinality(counted) \in Nat /\ Cardinality(flight) \in Nat
        /\ Cardinality(waiting) \in Nat
    BY <1>7, <1>8, FS_CardinalityType
  <1> DEFINE more == waiting \cup {s}
  <1>10. IsFiniteSet(more) /\ Cardinality(more) <= Cardinality(waiting) + 1
    <2>1. /\ IsFiniteSet(more)
          /\ Cardinality(more) =
               IF s \in waiting THEN Cardinality(waiting) ELSE Cardinality(waiting) + 1
      BY <1>8, FS_AddElement
    <2> QED  BY <1>9, <2>1
  <1> HIDE DEF more
  <1>11. Cardinality(more) \in Nat /\ IsFiniteSet(counted \cap more)
    BY <1>7, <1>10, FS_CardinalityType, FS_Subset
  <1>12. Cardinality(counted \cap more) \in Nat
    BY <1>11, FS_CardinalityType
  <1>13. /\ IsFiniteSet(counted \cup more)
         /\ Cardinality(counted \cup more) =
              Cardinality(counted) + Cardinality(more) - Cardinality(counted \cap more)
    BY <1>7, <1>10, FS_Union
  <1>14. IsFiniteSet(S) /\ Cardinality(S) <= Cardinality(counted \cup more)
    BY <1>4, <1>13, FS_Subset DEF more
  <1>15. Cardinality(S) \in Nat  BY <1>14, FS_CardinalityType
  <1> QED  BY <1>1, <1>5, <1>8, <1>9, <1>10, <1>11, <1>12, <1>13, <1>14, <1>15

LEMMA QuotaStep ==
  ASSUME TypeOK, RowInv, ExhaustedInv, HeldInv, QuotaInv, [Next]_vars
  PROVE  QuotaInv'
  <1> SUFFICES ASSUME NEW u \in FreeUsers
               PROVE  /\ IsFiniteSet(Begun(u)')
                      /\ lockLosses' = 0 => Cardinality(Live(u)') + 1 <= MonthlyLimit + MaxInFlight
    BY DEF QuotaInv
  <1>0. u \in Users /\ MonthlyLimit \in Nat /\ MaxInFlight \in Nat
    BY PipelineAssumption
  <1>1. IsFiniteSet(Begun(u))  BY DEF QuotaInv
  <1>2. IsFiniteSet(Begun(u)')
    <2> DEFINE begun == Begun(u)  begun2 == Begun(u)'
    <2>1. \/ begun2 \subseteq begun
          \/ \E s \in Sessions : begun2 \subseteq begun \cup {s}
      BY <1>0, BegunStep
    <2>2. IsFiniteSet(begun)  BY <1>1
    <2> HIDE DEF begun, begun2
    <2>3. \A s : IsFiniteSet(begun \cup {s})  BY <2>2, FS_AddElement
    <2>4. IsFiniteSet(begun2)  BY <2>1, <2>2, <2>3, FS_Subset
    <2> QED  BY <2>4 DEF begun2
  <1>3. ASSUME lockLosses' = 0
        PROVE  Cardinality(Live(u)') + 1 <= MonthlyLimit + MaxInFlight
    <2>1. lockLosses = 0 /\ HeldWhileBusy  BY <1>3, LossesStep DEF HeldInv
    <2>2. Cardinality(Live(u)) + 1 <= MonthlyLimit + MaxInFlight
      BY <2>1 DEF QuotaInv
    <2>3. \A s \in Live(u)' : s \in SessionsOf(u) /\ (s \in Live(u) \/ Admit(s))
      BY <1>0, <2>1, LiveStep
    <2>4. ASSUME NEW s \in SessionsOf(u), Admit(s)
          PROVE  Cardinality(Live(u)') + 1 <= MonthlyLimit + MaxInFlight
      <3>1. s \in Sessions /\ Owner[s] = u  BY DEF SessionsOf
      <3>2. \A t \in Sessions : Admit(t) => t = s
        BY <2>4, <3>1 DEF Admit, TypeOK, SessionTypeOK
      <3>3. Live(u)' \subseteq Live(u) \cup {s}
        BY <2>3, <3>2 DEF SessionsOf
      <3> QED  BY <1>1, <2>4, <3>1, <3>3, AdmitStep
    <2>5. CASE \A s \in SessionsOf(u) : ~ Admit(s)
      <3> DEFINE live == Live(u)  live2 == Live(u)'
      <3>1. live2 \subseteq live  BY <2>3, <2>5
      <3>2. live \subseteq Begun(u)
        BY DEF Live, Counted, Awaiting, Begun, RowInv, SessionsOf
      <3> HIDE DEF live, live2
      <3>3. IsFiniteSet(live)  BY <1>1, <3>2, FS_Subset
      <3>4. IsFiniteSet(live2) /\ Cardinality(live2) <= Cardinality(live)
        BY <3>1, <3>3, FS_Subset
      <3>5. Cardinality(live2) \in Nat /\ Cardinality(live) \in Nat
        BY <3>3, <3>4, FS_CardinalityType
      <3>6. Cardinality(live) + 1 <= MonthlyLimit + MaxInFlight  BY <2>2 DEF live
      <3>7. Cardinality(live2) + 1 <= MonthlyLimit + MaxInFlight
        BY <1>0, <3>4, <3>5, <3>6
      <3> QED  BY <3>7 DEF live2
    <2> QED  BY <2>4, <2>5
  <1> QED  BY <1>2, <1>3

LEMMA QuotaInvHolds == Spec => [](RowInv /\ QuotaInv)
  <1>1. Init => QuotaInv
    <2> SUFFICES ASSUME Init, NEW u \in FreeUsers
                 PROVE  /\ IsFiniteSet(Begun(u))
                        /\ Cardinality(Live(u)) + 1 <= MonthlyLimit + MaxInFlight
      BY DEF QuotaInv
    <2>1. Begun(u) = {} /\ Live(u) = {}
      BY DEF Init, Begun, Live, Counted, Awaiting, SessionsOf
    <2>2. IsFiniteSet({}) /\ Cardinality({}) = 0  BY FS_EmptySet
    <2> QED  BY <2>1, <2>2, PipelineAssumption
  <1>2. TypeOK /\ RowInv /\ ExhaustedInv /\ HeldInv /\ QuotaInv /\ [Next]_vars => QuotaInv'
    BY QuotaStep
  <1> QED  BY <1>1, <1>2, TypeCorrect, ExhaustedInvHolds, OnceInvHolds, PTL DEF Spec

\* The free tier's limit can be overrun by the submissions in progress at
\* once, and by no more than that, while executions keep their locks
\* (_check_free_tier_limit, evaluate_writing).
THEOREM QuotaOverrunIsBounded == Spec => []QuotaOvershoot
  <1>1. RowInv /\ QuotaInv => QuotaOvershoot
    <2> SUFFICES ASSUME RowInv, QuotaInv, lockLosses = 0, NEW u \in FreeUsers
                 PROVE  Cardinality(Counted(u)) + 1 <= MonthlyLimit + MaxInFlight
      BY DEF QuotaOvershoot
    <2> DEFINE live == Live(u)  counted == Counted(u)
    <2>1. /\ IsFiniteSet(Begun(u))
          /\ Cardinality(live) + 1 <= MonthlyLimit + MaxInFlight
      BY DEF QuotaInv
    <2>2. live \subseteq Begun(u) /\ counted \subseteq live
      BY DEF Live, Counted, Awaiting, Begun, RowInv, SessionsOf
    <2> HIDE DEF live, counted
    <2>3. IsFiniteSet(live)  BY <2>1, <2>2, FS_Subset
    <2>4. IsFiniteSet(counted) /\ Cardinality(counted) <= Cardinality(live)
      BY <2>2, <2>3, FS_Subset
    <2>5. Cardinality(counted) \in Nat /\ Cardinality(live) \in Nat
      BY <2>3, <2>4, FS_CardinalityType
    <2>6. Cardinality(counted) + 1 <= MonthlyLimit + MaxInFlight
      BY <2>1, <2>4, <2>5, PipelineAssumption
    <2> QED  BY <2>6 DEF counted
  <1> QED  BY <1>1, QuotaInvHolds, PTL
=============================================================================
