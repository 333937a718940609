------------------------ MODULE CalibrationRunProofs ------------------------
(***************************************************************************)
(* Theorems about CalibrationRun: a run scores each of its essays once and *)
(* keeps count of them, and verdicts and the baseline rest on scores that  *)
(* pass.                                                                   *)
(***************************************************************************)
EXTENDS CalibrationRun, FiniteSetTheorems, SequenceTheorems, TLAPS

-----------------------------------------------------------------------------
(* Type correctness *)

LEMMA IdleType == Idle \in RequestType /\ RequestOK(Idle) /\ Idle.at = "idle"
BY DEF Idle, RequestType, RequestOK, Steps

LEMMA InitType == Init => TypeOK
BY IdleType DEF Init, TypeOK, Baseline, NoBaseline, RunType

LEMMA BusyRun ==
  ASSUME TypeOK, NEW q \in Requests, request[q].at # "idle"
  PROVE  /\ Run(q) \in Runs
         /\ request[q] \in RequestType
         /\ RequestOK(request[q])
BY DEF TypeOK, RequestOK, RequestType, Run

\* A request that changes, with the record it changes to.
Becomes(q, new) ==
    /\ new \in RequestType
    /\ RequestOK(new)
    /\ request' = [request EXCEPT ![q] = new]

LEMMA BecomesType ==
  ASSUME TypeOK, NEW q \in Requests, NEW new, Becomes(q, new)
  PROVE  /\ request' \in [Requests -> RequestType]
         /\ \A p \in Requests : RequestOK(request'[p])
BY DEF Becomes, TypeOK

LEMMA BecomesThis ==
  ASSUME TypeOK, NEW q \in Requests, NEW new, Becomes(q, new)
  PROVE  /\ request'[q] = new
         /\ \A p \in Requests \ {q} : request'[p] = request[p]
BY DEF Becomes, TypeOK

LEMMA DoneBecomes ==
  ASSUME NEW q \in Requests, Done(q)
  PROVE  Becomes(q, Idle)
BY IdleType DEF Done, Becomes

Moved(q, step) == [request[q] EXCEPT !.at = step]

LEMMA GotoBecomes ==
  ASSUME TypeOK, NEW q \in Requests, NEW step, request[q].at # "idle", Goto(q, step),
         \/ step = "call" /\ request[q].todo # {}
         \/ step = "complete"
         \/ step = "select"
         \/ step = "count"
  PROVE  Becomes(q, Moved(q, step))
<1>1. request[q] \in RequestType /\ Run(q) \in Runs
  BY BusyRun
<1>2. Moved(q, step) \in RequestType /\ RequestOK(Moved(q, step))
  BY <1>1 DEF RequestType, RequestOK, Run, Steps, Moved
<1>3. request' = [request EXCEPT ![q] = Moved(q, step)]
  BY <1>1 DEF Goto, RequestType, TypeOK, Moved
<1>4. QED
  BY <1>2, <1>3 DEF Becomes

\* The records of requests that begin.
Scoring(r) == [Idle EXCEPT !.at = "fetch", !.run = r]
Correlating(r) == [Idle EXCEPT !.at = "select", !.run = r]
Approving(r) == [Idle EXCEPT !.at = "passed", !.run = r, !.approving = TRUE]

LEMMA BeginBecomes ==
  ASSUME NEW q \in Requests, NEW r \in Runs
  PROVE  /\ StartRun(q, r) => Becomes(q, Scoring(r))
         /\ Correlate(q, r) => Becomes(q, Correlating(r))
         /\ StoreBaseline(q, r) => Becomes(q, Approving(r))
<1>1. /\ Scoring(r) \in RequestType /\ RequestOK(Scoring(r))
      /\ Correlating(r) \in RequestType /\ RequestOK(Correlating(r))
      /\ Approving(r) \in RequestType /\ RequestOK(Approving(r))
  BY IdleType DEF Scoring, Correlating, Approving, RequestType, RequestOK, Steps
<1>2. QED
  BY <1>1 DEF StartRun, Correlate, StoreBaseline, Becomes, Scoring, Correlating, Approving

Fetched(q) == [request[q] EXCEPT !.at = "call", !.todo = Pending(Run(q))]

LEMMA FetchBecomes ==
  ASSUME TypeOK, NEW q \in Requests, FetchPending(q)
  PROVE  \/ Pending(Run(q)) = {} /\ Becomes(q, Idle)
         \/ Pending(Run(q)) # {} /\ Becomes(q, Fetched(q))
<1>1. request[q] \in RequestType /\ Run(q) \in Runs
  BY BusyRun DEF FetchPending, At
<1>2. CASE Pending(Run(q)) = {}
  BY <1>2, DoneBecomes DEF FetchPending
<1>3. CASE Pending(Run(q)) # {}
  <2>1. Pending(Run(q)) \in SUBSET Essays
    BY DEF Pending, TypeOK
  <2>2. Fetched(q) \in RequestType /\ RequestOK(Fetched(q))
    BY <1>1, <1>3, <2>1 DEF RequestType, RequestOK, Steps, Run, Fetched
  <2>3. request' = [request EXCEPT ![q] = Fetched(q)]
    BY <1>1, <1>3 DEF FetchPending, RequestType, TypeOK, Fetched
  <2>4. QED
    BY <1>3, <2>2, <2>3 DEF Becomes
<1>4. QED
  BY <1>2, <1>3

Answered(q, a) == [request[q] EXCEPT !.at = "insert", !.answer = a]

LEMMA AnswersBecomes ==
  ASSUME TypeOK, NEW q \in Requests, NEW a \in Answers, ProviderAnswers(q, a)
  PROVE  Becomes(q, Answered(q, a))
<1>1. request[q] \in RequestType /\ Run(q) \in Runs /\ request[q].todo # {}
  BY BusyRun DEF ProviderAnswers, At, RequestOK
<1>2. Answered(q, a) \in RequestType /\ RequestOK(Answered(q, a))
  BY <1>1 DEF RequestType, RequestOK, Steps, Run, Answered
<1>3. request' = [request EXCEPT ![q] = Answered(q, a)]
  BY <1>1 DEF ProviderAnswers, RequestType, TypeOK, Answered
<1>4. QED
  BY <1>2, <1>3 DEF Becomes

Retried(q) == [request[q] EXCEPT !.attempt = 2]

LEMMA RetryBecomes ==
  ASSUME TypeOK, NEW q \in Requests, RetryInvalid(q)
  PROVE  Becomes(q, Retried(q))
<1>1. request[q] \in RequestType /\ RequestOK(request[q])
  BY BusyRun DEF RetryInvalid, At
<1>2. Retried(q) \in RequestType /\ RequestOK(Retried(q))
  BY <1>1 DEF RequestType, RequestOK, Steps, Retried
<1>3. request' = [request EXCEPT ![q] = Retried(q)]
  BY <1>1 DEF RetryInvalid, RequestType, TypeOK, Retried
<1>4. QED
  BY <1>2, <1>3 DEF Becomes

\* The record after essay e; the counter of failures never makes the loop break.
Ended(q, e, scored) ==
    [request[q] EXCEPT !.at = "progress", !.todo = @ \ {e}, !.attempt = 1, !.answer = << >>,
                       !.scored = scored, !.consecutive = 0]

LEMMA EndBecomes ==
  ASSUME TypeOK, NEW q \in Requests, NEW e, NEW scored \in Nat, request[q].at # "idle",
         EndEssay(q, e, scored, 0)
  PROVE  Becomes(q, Ended(q, e, scored))
<1>1. request[q] \in RequestType /\ Run(q) \in Runs
  BY BusyRun
<1>2. Ended(q, e, scored) \in RequestType /\ RequestOK(Ended(q, e, scored))
  BY <1>1 DEF RequestType, RequestOK, Steps, Run, Ended
<1>3. request' = [request EXCEPT ![q] = Ended(q, e, scored)]
  <2>1. ~(0 >= ABORT_AFTER)
    BY DEF ABORT_AFTER
  <2> DEFINE new == [request[q] EXCEPT
                       !.at = IF 0 >= ABORT_AFTER THEN "complete" ELSE "progress",
                       !.todo = @ \ {e}, !.attempt = 1, !.answer = << >>,
                       !.scored = scored, !.consecutive = 0]
  <2>2. request' = [request EXCEPT ![q] = new]
    BY DEF EndEssay
  <2>3. new = Ended(q, e, scored)
    BY <1>1, <2>1 DEF Ended, RequestType
  <2>4. QED
    BY <2>2, <2>3
<1>4. QED
  BY <1>2, <1>3 DEF Becomes

LEMMA FailBecomes ==
  ASSUME TypeOK, NEW q \in Requests, NEW e \in Essays, request[q].at # "idle", FailEssay(q, e)
  PROVE  Becomes(q, Ended(q, e, request[q].scored))
<1>1. request[q].scored \in Nat
  BY BusyRun DEF RequestType
<1>2. EndEssay(q, e, request[q].scored, 0)
  BY DEF FailEssay, AfterFailure
<1>3. QED
  BY <1>1, <1>2, EndBecomes

LEMMA InsertBecomes ==
  ASSUME TypeOK, NEW q \in Requests, NEW e \in Essays, InsertScore(q, e)
  PROVE  Becomes(q, Ended(q, e, request[q].scored + 1))
<1>1. request[q].scored + 1 \in Nat /\ request[q].at # "idle"
  BY BusyRun DEF RequestType, InsertScore, At
<1>2. EndEssay(q, e, request[q].scored + 1, 0)
  BY DEF InsertScore
<1>3. QED
  BY <1>1, <1>2, EndBecomes

LEMMA ProgressBecomes ==
  ASSUME TypeOK, NEW q \in Requests, Progress(q)
  PROVE  \/ request[q].todo = {} /\ Becomes(q, Moved(q, "complete"))
         \/ request[q].todo # {} /\ Becomes(q, Moved(q, "call"))
<1>1. request[q].at # "idle"
  BY DEF Progress, At
<1>2. QED
  BY <1>1, GotoBecomes DEF Progress

LEMMA CheckBecomes ==
  ASSUME TypeOK, NEW q \in Requests, CheckPassed(q)
  PROVE  Becomes(q, Idle) \/ Becomes(q, Moved(q, "select"))
BY DoneBecomes, GotoBecomes DEF CheckPassed, At

Selected(q) == [request[q] EXCEPT !.at = "update", !.report = aiScores[Run(q)],
                                  !.settled = (run[Run(q)].state = "completed")]

LEMMA SelectBecomes ==
  ASSUME TypeOK, NEW q \in Requests, SelectPairs(q)
  PROVE  \/ Becomes(q, Idle)
         \/ Len(aiScores[Run(q)]) >= 2 /\ Becomes(q, Selected(q))
<1>1. request[q] \in RequestType /\ Run(q) \in Runs
  BY BusyRun DEF SelectPairs, At
<1>2. aiScores[Run(q)] \in Seq(Row) /\ Len(aiScores[Run(q)]) \in Nat
  BY <1>1 DEF TypeOK
<1>3. CASE Len(aiScores[Run(q)]) < 2
  BY <1>3, DoneBecomes DEF SelectPairs
<1>4. CASE ~(Len(aiScores[Run(q)]) < 2)
  <2>1. Selected(q) \in RequestType /\ RequestOK(Selected(q))
    BY <1>1, <1>2 DEF RequestType, RequestOK, Steps, Run, Selected
  <2>2. request' = [request EXCEPT ![q] = Selected(q)]
    BY <1>1, <1>4 DEF SelectPairs, RequestType, TypeOK, Selected
  <2>3. QED
    BY <1>2, <1>4, <2>1, <2>2 DEF Becomes
<1>5. QED
  BY <1>3, <1>4

LEMMA UpdateBecomes ==
  ASSUME TypeOK, NEW q \in Requests, UpdateRun(q)
  PROVE  \/ Becomes(q, Idle)
         \/ Passes(request[q].report) /\ Becomes(q, Moved(q, "count"))
BY DoneBecomes, GotoBecomes DEF UpdateRun, At

Counted(q) == [request[q] EXCEPT !.at = "store", !.count = run[Run(q)].essaysScored]

LEMMA CountBecomes ==
  ASSUME TypeOK, NEW q \in Requests, ReadCount(q)
  PROVE  Becomes(q, Counted(q))
<1>1. request[q] \in RequestType /\ Run(q) \in Runs
  BY BusyRun DEF ReadCount, At
<1>2. run[Run(q)].essaysScored \in Nat
  BY <1>1 DEF TypeOK, RunType
<1>3. Counted(q) \in RequestType /\ RequestOK(Counted(q))
  BY <1>1, <1>2 DEF RequestType, RequestOK, Steps, Run, Counted
<1>4. request' = [request EXCEPT ![q] = Counted(q)]
  BY <1>1 DEF ReadCount, RequestType, TypeOK, Counted
<1>5. QED
  BY <1>3, <1>4 DEF Becomes

\* Steps of a request that leave the shared state alone.
RequestOnly(q) ==
    \/ CheckPassed(q) \/ SelectPairs(q) \/ ReadCount(q) \/ StatementFails(q)
    \/ \E r \in Runs : Correlate(q, r) \/ StoreBaseline(q, r)

LEMMA RequestTypeStep ==
  ASSUME TypeOK, [Next]_vars
  PROVE  /\ request' \in [Requests -> RequestType]
         /\ \A p \in Requests : RequestOK(request'[p])
<1> DEFINE Goal == /\ request' \in [Requests -> RequestType]
                   /\ \A p \in Requests : RequestOK(request'[p])
<1>1. ASSUME request' = request PROVE Goal
  BY <1>1 DEF TypeOK
<1>2. ASSUME NEW q \in Requests, NEW new, Becomes(q, new) PROVE Goal
  BY <1>2, BecomesType
<1> HIDE DEF Goal
<1>3. ASSUME NEW q \in Requests, NEW r \in Runs,
             StartRun(q, r) \/ Correlate(q, r) \/ StoreBaseline(q, r)
      PROVE  Goal
  BY <1>2, <1>3, BeginBecomes
<1>4. ASSUME NEW q \in Requests, FetchPending(q) PROVE Goal
  BY <1>2, <1>4, FetchBecomes
<1>5. ASSUME NEW q \in Requests, NEW a \in Answers, ProviderAnswers(q, a) PROVE Goal
  BY <1>2, <1>5, AnswersBecomes
<1>6. ASSUME NEW q \in Requests, RetryInvalid(q) PROVE Goal
  BY <1>2, <1>6, RetryBecomes
<1>7. ASSUME NEW q \in Requests, NEW e \in Essays, ProviderFails(q, e) \/ InsertFails(q, e)
      PROVE  Goal
  <2>1. request[q].at # "idle" /\ FailEssay(q, e)
    BY <1>7 DEF ProviderFails, InsertFails, At
  <2>2. QED
    BY <1>2, <2>1, FailBecomes
<1>8. ASSUME NEW q \in Requests, NEW e \in Essays, InsertScore(q, e) PROVE Goal
  BY <1>2, <1>8, InsertBecomes
<1>9. ASSUME NEW q \in Requests, Progress(q) PROVE Goal
  BY <1>2, <1>9, ProgressBecomes
<1>10. ASSUME NEW q \in Requests, Complete(q) \/ InsertBaseline(q) \/ StatementFails(q) PROVE Goal
  BY <1>2, <1>10, DoneBecomes DEF Complete, InsertBaseline, StatementFails
<1>11. ASSUME NEW q \in Requests, CheckPassed(q) PROVE Goal
  BY <1>2, <1>11, CheckBecomes
<1>12. ASSUME NEW q \in Requests, SelectPairs(q) PROVE Goal
  BY <1>2, <1>12, SelectBecomes
<1>13. ASSUME NEW q \in Requests, UpdateRun(q) PROVE Goal
  BY <1>2, <1>13, UpdateBecomes
<1>14. ASSUME NEW q \in Requests, ReadCount(q) PROVE Goal
  BY <1>2, <1>14, CountBecomes
<1>15. ASSUME Crash PROVE Goal
  BY <1>15, IdleType DEF Crash, Goal
<1>16. ASSUME NEW e \in Essays, GradingCompletes(e) PROVE Goal
  BY <1>1, <1>16 DEF GradingCompletes
<1>17. ASSUME UNCHANGED vars PROVE Goal
  BY <1>1, <1>17 DEF vars
<1>18. Goal
  BY ONLY [Next]_vars, <1>3, <1>4, <1>5, <1>6, <1>7, <1>8, <1>9, <1>10, <1>11, <1>12, <1>13, <1>14,
          <1>15, <1>16, <1>17 DEF Next, Step
<1>19. QED
  BY <1>18 DEF Goal

LEMMA TypeStep == TypeOK /\ [Next]_vars => TypeOK'
<1> SUFFICES ASSUME TypeOK, [Next]_vars PROVE TypeOK'
  OBVIOUS
<1> DEFINE Rest == /\ gradingComplete' \in SUBSET Essays
                   /\ run' \in [Runs -> RunType]
                   /\ aiScores' \in [Runs -> Seq(Row)]
                   /\ baseline' \in Baseline
                   /\ batch' \in [Runs -> SUBSET Essays]
                   /\ failedOn' \in [Runs -> SUBSET Essays]
                   /\ streak' \in [Runs -> Nat]
<1>1. ASSUME UNCHANGED <<gradingComplete, run, aiScores, baseline, history>> PROVE Rest
  BY <1>1 DEF history, TypeOK
<1>2. ASSUME NEW r \in Runs, NEW row \in RunType, run' = [run EXCEPT ![r] = row],
             UNCHANGED <<gradingComplete, aiScores, baseline, history>>
      PROVE  Rest
  BY <1>2 DEF history, TypeOK
<1>3. ASSUME NEW q \in Requests, NEW r \in Runs, StartRun(q, r) PROVE Rest
  <2>1. run[r] \in RunType
    BY DEF TypeOK
  <2>2. [run[r] EXCEPT !.state = "started"] \in RunType
    BY <2>1 DEF RunType
  <2>3. run' = [run EXCEPT ![r] = [run[r] EXCEPT !.state = "started"]]
    BY <1>3, <2>1 DEF StartRun, TypeOK, RunType
  <2>4. UNCHANGED <<gradingComplete, aiScores, baseline, history>>
    BY <1>3 DEF StartRun
  <2>5. QED
    BY <1>2, <2>2, <2>3, <2>4
<1>4. ASSUME NEW q \in Requests, FetchPending(q) PROVE Rest
  <2>1. Run(q) \in Runs /\ Pending(Run(q)) \in SUBSET Essays
    BY <1>4, BusyRun DEF FetchPending, At, Pending, TypeOK
  <2>2. QED
    BY <1>4, <2>1 DEF FetchPending, TypeOK
<1>5. ASSUME NEW q \in Requests, NEW e \in Essays, ProviderFails(q, e) \/ InsertFails(q, e)
      PROVE  Rest
  <2>1. Run(q) \in Runs /\ FailEssay(q, e)
    BY <1>5, BusyRun DEF ProviderFails, InsertFails, At
  <2>2. QED
    BY <2>1 DEF FailEssay, TypeOK
<1>6. ASSUME NEW q \in Requests, NEW e \in Essays, InsertScore(q, e) PROVE Rest
  <2> DEFINE row == [essay |-> e, score |-> request[q].answer]
  <2>1. Run(q) \in Runs /\ row \in Row
    BY <1>6, BusyRun DEF InsertScore, At, RequestOK, Row
  <2>2. aiScores' = [aiScores EXCEPT ![Run(q)] = Append(@, row)]
    BY <1>6 DEF InsertScore
  <2>3. /\ UNCHANGED <<gradingComplete, run, baseline, batch, failedOn>>
        /\ streak' = [streak EXCEPT ![Run(q)] = 0]
    BY <1>6 DEF InsertScore
  <2> HIDE DEF row
  <2>4. QED
    BY <2>1, <2>2, <2>3 DEF TypeOK
<1>7. ASSUME NEW q \in Requests, Progress(q) PROVE Rest
  <2>1. Run(q) \in Runs /\ request[q].scored \in Nat /\ run[Run(q)] \in RunType
    BY <1>7, BusyRun DEF Progress, At, RequestType, TypeOK
  <2>2. [run[Run(q)] EXCEPT !.essaysScored = request[q].scored] \in RunType
    BY <2>1 DEF RunType
  <2>3. run' = [run EXCEPT ![Run(q)] = [run[Run(q)] EXCEPT !.essaysScored = request[q].scored]]
    BY <1>7, <2>1 DEF Progress, TypeOK, RunType
  <2>4. UNCHANGED <<gradingComplete, aiScores, baseline, history>>
    BY <1>7 DEF Progress
  <2>5. QED
    BY <1>2, <2>1, <2>2, <2>3, <2>4
<1>8. ASSUME NEW q \in Requests, Complete(q) PROVE Rest
  <2>1. Run(q) \in Runs /\ run[Run(q)] \in RunType
    BY <1>8, BusyRun DEF Complete, At, TypeOK
  <2>2. [run[Run(q)] EXCEPT !.state = "completed"] \in RunType
    BY <2>1 DEF RunType
  <2>3. run' = [run EXCEPT ![Run(q)] = [run[Run(q)] EXCEPT !.state = "completed"]]
    BY <1>8, <2>1 DEF Complete, TypeOK, RunType
  <2>4. UNCHANGED <<gradingComplete, aiScores, baseline, history>>
    BY <1>8 DEF Complete
  <2>5. QED
    BY <1>2, <2>1, <2>2, <2>3, <2>4
<1>9. ASSUME NEW q \in Requests, UpdateRun(q) PROVE Rest
  <2> DEFINE verdict == Passes(request[q].report)
  <2>1. verdict \in BOOLEAN
    BY DEF Passes
  <2>2. Run(q) \in Runs /\ run[Run(q)] \in RunType
    BY <1>9, BusyRun DEF UpdateRun, At, TypeOK
  <2>3. run' = [run EXCEPT ![Run(q)] = [run[Run(q)] EXCEPT !.passed = verdict]]
    BY <1>9, <2>2 DEF UpdateRun, TypeOK, RunType
  <2>4. UNCHANGED <<gradingComplete, aiScores, baseline, history>>
    BY <1>9 DEF UpdateRun
  <2> HIDE DEF verdict
  <2>5. [run[Run(q)] EXCEPT !.passed = verdict] \in RunType
    BY <2>1, <2>2 DEF RunType
  <2>6. QED
    BY <1>2, <2>2, <2>3, <2>4, <2>5
<1>10. ASSUME NEW q \in Requests, InsertBaseline(q) PROVE Rest
  <2> DEFINE row == [run |-> Run(q), evidence |-> request[q].report,
                     settled |-> request[q].settled, essaysCount |-> request[q].count]
  <2>1. Run(q) \in Runs /\ request[q] \in RequestType
    BY <1>10, BusyRun DEF InsertBaseline, At
  <2>2. row \in Baseline
    BY <2>1 DEF RequestType, Baseline
  <2>3. baseline' = baseline \/ baseline' = row
    BY <1>10 DEF InsertBaseline
  <2>4. UNCHANGED <<gradingComplete, run, aiScores, history>>
    BY <1>10 DEF InsertBaseline
  <2> HIDE DEF row
  <2>5. QED
    BY <2>2, <2>3, <2>4 DEF history, TypeOK
<1>11. ASSUME NEW e \in Essays, GradingCompletes(e) PROVE Rest
  BY <1>11 DEF GradingCompletes, history, TypeOK
<1>12. ASSUME NEW q \in Requests, RequestOnly(q) PROVE Rest
  BY <1>1, <1>12 DEF RequestOnly, CheckPassed, SelectPairs, ReadCount, StatementFails, Correlate,
                     StoreBaseline
<1>13. ASSUME NEW q \in Requests, RetryInvalid(q) \/ \E a \in Answers : ProviderAnswers(q, a)
       PROVE  Rest
  BY <1>1, <1>13 DEF RetryInvalid, ProviderAnswers
<1>14. ASSUME Crash PROVE Rest
  BY <1>1, <1>14 DEF Crash
<1>15. ASSUME UNCHANGED vars PROVE Rest
  BY <1>1, <1>15 DEF vars
<1> HIDE DEF Rest
<1>16. Rest
  BY ONLY [Next]_vars, <1>3, <1>4, <1>5, <1>6, <1>7, <1>8, <1>9, <1>10, <1>11, <1>12, <1>13, <1>14,
          <1>15 DEF Next, Step, RequestOnly
<1>17. QED
  BY <1>16, RequestTypeStep DEF Rest, TypeOK

\* The type invariant, for any number of runs, essays and requests.
THEOREM TypeCorrect == Spec => []TypeOK
BY InitType, TypeStep, PTL DEF Spec

-----------------------------------------------------------------------------
(* The rows of a run, and the request that scores it *)

EssaysOf(rows) == {rows[k].essay : k \in DOMAIN rows}

Once(rows) == \A j, k \in DOMAIN rows : rows[j].essay = rows[k].essay => j = k

LEMMA ScoredAppend ==
  ASSUME NEW rows \in Seq(Row), NEW row \in Row
  PROVE  /\ EssaysOf(Append(rows, row)) = EssaysOf(rows) \cup {row.essay}
         /\ Once(rows) /\ row.essay \notin EssaysOf(rows) => Once(Append(rows, row))
         /\ Len(Append(rows, row)) = Len(rows) + 1
<1>1. /\ DOMAIN Append(rows, row) = 1..(Len(rows) + 1)
      /\ DOMAIN rows = 1..Len(rows)
      /\ Len(rows) \in Nat
      /\ \A k \in 1..Len(rows) : Append(rows, row)[k] = rows[k]
      /\ Append(rows, row)[Len(rows) + 1] = row
      /\ Len(Append(rows, row)) = Len(rows) + 1
  OBVIOUS
<1> DEFINE longer == Append(rows, row)
<1> HIDE DEF longer
<1>2. DOMAIN longer = DOMAIN rows \cup {Len(rows) + 1} /\ Len(rows) + 1 \notin DOMAIN rows
  BY <1>1 DEF longer
<1>3. \A k \in DOMAIN rows : longer[k] = rows[k]
  BY <1>1 DEF longer
<1>4. longer[Len(rows) + 1] = row
  BY <1>1 DEF longer
<1>5. EssaysOf(longer) = EssaysOf(rows) \cup {row.essay}
  BY <1>2, <1>3, <1>4 DEF EssaysOf
<1>6. ASSUME Once(rows), row.essay \notin EssaysOf(rows) PROVE Once(longer)
  BY <1>2, <1>3, <1>4, <1>6 DEF Once, EssaysOf
<1>7. QED
  BY <1>1, <1>5, <1>6 DEF longer

\* Of a run: its rows, its essays that failed and its counter fit together, ...
RowsOK(row, rows, tried, failed) ==
    /\ Once(rows)
    /\ EssaysOf(rows) \cap failed = {}
    /\ Len(rows) - row.essaysScored \in {0, 1}
    /\ row.state = "none" => rows = << >> /\ failed = {} /\ row.essaysScored = 0
    /\ row.state = "completed" =>
         row.essaysScored = Len(rows) /\ tried = EssaysOf(rows) \cup failed

\* ... and of the request that scores it: its essays to come are those of the batch not tried.
ScorerOK(own, row, rows, tried, failed) ==
    /\ row.state = "started"
    /\ Len(rows) = own.scored
    /\ own.at = "fetch" => rows = << >> /\ failed = {}
    /\ own.at # "fetch" =>
         /\ tried = EssaysOf(rows) \cup failed \cup own.todo
         /\ own.todo \cap (EssaysOf(rows) \cup failed) = {}
    /\ own.at # "progress" => row.essaysScored = own.scored
    /\ own.at = "complete" => own.todo = {}

IsScoring(p) == request[p].at \in ScoringSteps

RunInv(r) == RowsOK(run[r], aiScores[r], batch[r], failedOn[r])

ScorerInv(p) ==
    IsScoring(p) =>
        ScorerOK(request[p], run[Run(p)], aiScores[Run(p)], batch[Run(p)], failedOn[Run(p)])

\* No two requests score one run.
Exclusive ==
    \A p, q \in Requests : IsScoring(p) /\ IsScoring(q) /\ Run(p) = Run(q) => p = q

ScoringInv ==
    /\ TypeOK
    /\ \A r \in Runs : RunInv(r)
    /\ \A p \in Requests : ScorerInv(p)
    /\ Exclusive

LEMMA ScoringInvInit == Init => ScoringInv
<1> SUFFICES ASSUME Init PROVE ScoringInv
  OBVIOUS
<1>1. ASSUME NEW r \in Runs PROVE RunInv(r)
  <2>1. /\ run[r] = [state |-> "none", essaysScored |-> 0, passed |-> FALSE]
        /\ aiScores[r] = << >> /\ failedOn[r] = {}
    BY DEF Init
  <2>2. QED
    BY <2>1 DEF RunInv, RowsOK, Once, EssaysOf
<1>2. ASSUME NEW p \in Requests PROVE ~IsScoring(p)
  BY IdleType DEF Init, IsScoring, ScoringSteps
<1>3. QED
  BY <1>1, <1>2, InitType DEF ScoringInv, ScorerInv, Exclusive

\* What a step leaves of run s.
Kept(s) ==
    /\ aiScores'[s] = aiScores[s] /\ batch'[s] = batch[s] /\ failedOn'[s] = failedOn[s]
    /\ run'[s].state = run[s].state /\ run'[s].essaysScored = run[s].essaysScored

LEMMA RunKept ==
  ASSUME NEW s, RunInv(s), Kept(s)
  PROVE  RunInv(s)'
BY DEF RunInv, RowsOK, Kept

LEMMA ScorerKept ==
  ASSUME NEW p, ScorerInv(p), request'[p] = request[p], Kept(Run(p))
  PROVE  ScorerInv(p)'
BY DEF ScorerInv, IsScoring, ScorerOK, Kept, Run

\* A step of one request in the scoring of run r, which it has to itself.
LEMMA ScorerStep ==
  ASSUME ScoringInv, TypeOK', NEW q \in Requests, NEW r \in Runs,
         request'[q].at \in ScoringSteps => request'[q].run = r,
         \A p \in Requests \ {q} : request'[p] = request[p],
         \A p \in Requests \ {q} : IsScoring(p) => Run(p) # r,
         \A s \in Runs \ {r} : Kept(s),
         RunInv(r)', ScorerInv(q)'
  PROVE  ScoringInv'
<1>1. ASSUME NEW s \in Runs PROVE RunInv(s)'
  BY <1>1, RunKept DEF ScoringInv
<1>2. ASSUME NEW p \in Requests \ {q} PROVE ScorerInv(p)'
  <2>1. request'[p] = request[p] /\ ScorerInv(p)
    BY DEF ScoringInv
  <2>2. CASE IsScoring(p)
    <3>1. Run(p) \in Runs \ {r}
      BY <2>2, BusyRun DEF ScoringInv, IsScoring, ScoringSteps
    <3>2. QED
      BY <2>1, <3>1, ScorerKept
  <2>3. CASE ~IsScoring(p)
    BY <2>1, <2>3 DEF ScorerInv, IsScoring
  <2>4. QED
    BY <2>2, <2>3
<1>3. Exclusive'
  BY DEF Exclusive, ScoringInv, IsScoring, Run
<1>4. QED
  BY <1>1, <1>2, <1>3 DEF ScoringInv

\* A record that the invariant does not tell from the present one of p.
Alike(p, own) ==
    \/ own.at \notin ScoringSteps
    \/ /\ IsScoring(p)
       /\ own.run = Run(p) /\ own.todo = request[p].todo /\ own.scored = request[p].scored
       /\ \/ own.at = request[p].at
          \/ request[p].at = "call" /\ own.at = "insert"

LEMMA QuietStep ==
  ASSUME ScoringInv, TypeOK',
         \A s \in Runs : Kept(s),
         \A p \in Requests : Alike(p, request'[p])
  PROVE  ScoringInv'
<1>1. ASSUME NEW s \in Runs PROVE RunInv(s)'
  BY <1>1, RunKept DEF ScoringInv
<1>2. ASSUME NEW p \in Requests PROVE ScorerInv(p)'
  <2>1. CASE request'[p].at \notin ScoringSteps
    BY <2>1 DEF ScorerInv, IsScoring
  <2>2. CASE request'[p].at \in ScoringSteps
    <3>1. IsScoring(p) /\ Run(p)' = Run(p) /\ request'[p].todo = request[p].todo
      BY <2>2 DEF Alike, Run
    <3>2. request'[p].scored = request[p].scored
      BY <2>2 DEF Alike
    <3>3. \/ request'[p].at = request[p].at
          \/ request[p].at = "call" /\ request'[p].at = "insert"
      BY <2>2 DEF Alike
    <3>4. Kept(Run(p))
      BY <3>1, BusyRun DEF ScoringInv, IsScoring, ScoringSteps
    <3>5. ScorerOK(request[p], run[Run(p)], aiScores[Run(p)], batch[Run(p)], failedOn[Run(p)])
      BY <3>1 DEF ScoringInv, ScorerInv
    <3>6. ScorerOK(request'[p], run'[Run(p)], aiScores'[Run(p)], batch'[Run(p)],
                   failedOn'[Run(p)])
      BY <3>1, <3>2, <3>3, <3>4, <3>5 DEF ScorerOK, Kept
    <3>7. QED
      BY <3>1, <3>6 DEF ScorerInv
  <2>3. QED
    BY <2>1, <2>2
<1>3. Exclusive'
  BY DEF Exclusive, ScoringInv, Alike, IsScoring, Run
<1>4. QED
  BY <1>1, <1>2, <1>3 DEF ScoringInv

-----------------------------------------------------------------------------
(* The steps of the scoring loop *)

LEMMA ScorerAt ==
  ASSUME ScoringInv, NEW q \in Requests, IsScoring(q)
  PROVE  /\ Run(q) \in Runs /\ request[q] \in RequestType /\ RequestOK(request[q])
         /\ \A p \in Requests \ {q} : IsScoring(p) => Run(p) # Run(q)
         /\ ScorerOK(request[q], run[Run(q)], aiScores[Run(q)], batch[Run(q)], failedOn[Run(q)])
         /\ RowsOK(run[Run(q)], aiScores[Run(q)], batch[Run(q)], failedOn[Run(q)])
<1>1. Run(q) \in Runs /\ request[q] \in RequestType /\ RequestOK(request[q])
  BY BusyRun DEF ScoringInv, IsScoring, ScoringSteps
<1>2. QED
  BY <1>1 DEF ScoringInv, ScorerInv, RunInv, Exclusive

\* The step of a request that scores run r: others and other runs are not concerned.
LEMMA OwnStep ==
  ASSUME ScoringInv, TypeOK', NEW q \in Requests, IsScoring(q), NEW new, Becomes(q, new),
         new.at \in ScoringSteps => new.run = Run(q),
         \A s \in Runs \ {Run(q)} : Kept(s),
         RowsOK(run'[Run(q)], aiScores'[Run(q)], batch'[Run(q)], failedOn'[Run(q)]),
         new.at \in ScoringSteps =>
           ScorerOK(new, run'[Run(q)], aiScores'[Run(q)], batch'[Run(q)], failedOn'[Run(q)])
  PROVE  ScoringInv'
<1>1. request'[q] = new /\ \A p \in Requests \ {q} : request'[p] = request[p]
  BY BecomesThis DEF ScoringInv
<1>2. Run(q) \in Runs /\ \A p \in Requests \ {q} : IsScoring(p) => Run(p) # Run(q)
  BY ScorerAt
<1> DEFINE r == Run(q)
<1>3. ASSUME NEW r1 \in Runs, r1 = r PROVE RunInv(r1)'
  BY <1>3 DEF RunInv
<1>4. ScorerInv(q)'
  BY <1>1 DEF ScorerInv, IsScoring, Run
<1>5. PICK r1 \in Runs : r1 = r
  BY <1>2
<1>6. RunInv(r1)'
  BY <1>3, <1>5
<1>7. QED
  BY ONLY ScoringInv, TypeOK', <1>1, <1>2, <1>4, <1>5, <1>6, ScorerStep,
          new.at \in ScoringSteps => new.run = Run(q), \A s \in Runs \ {Run(q)} : Kept(s)

LEMMA StartScoring ==
  ASSUME ScoringInv, TypeOK', NEW q \in Requests, NEW r \in Runs, StartRun(q, r)
  PROVE  ScoringInv'
<1>1. Becomes(q, Scoring(r))
  BY BeginBecomes
<1>2. request'[q] = Scoring(r) /\ \A p \in Requests \ {q} : request'[p] = request[p]
  BY <1>1, BecomesThis DEF ScoringInv
<1>3. /\ run'[r].state = "started" /\ run'[r].essaysScored = run[r].essaysScored
      /\ UNCHANGED <<aiScores, batch, failedOn>>
      /\ run[r].state = "none"
      /\ \A s \in Runs \ {r} : Kept(s)
  BY DEF StartRun, history, Kept, ScoringInv, TypeOK, RunType
<1>4. RowsOK(run[r], aiScores[r], batch[r], failedOn[r])
  BY DEF ScoringInv, RunInv
<1>5. RunInv(r)'
  BY <1>3, <1>4 DEF RunInv, RowsOK
<1>6. Scoring(r).at = "fetch" /\ Scoring(r).run = r /\ Scoring(r).scored = 0
  BY DEF Scoring, Idle
<1>7. ScorerInv(q)'
  BY <1>2, <1>3, <1>4, <1>6 DEF ScorerInv, ScorerOK, RowsOK, IsScoring, Run
<1>8. ASSUME NEW p \in Requests \ {q}, IsScoring(p) PROVE Run(p) # r
  BY <1>3, <1>8, ScorerAt DEF ScorerOK
<1>9. QED
  BY ONLY ScoringInv, TypeOK', <1>2, <1>3, <1>5, <1>6, <1>7, <1>8, ScorerStep

LEMMA FetchScoring ==
  ASSUME ScoringInv, TypeOK', NEW q \in Requests, FetchPending(q)
  PROVE  ScoringInv'
<1> DEFINE r == Run(q)
<1>1. request[q].at = "fetch" /\ IsScoring(q)
  BY DEF FetchPending, At, IsScoring, ScoringSteps
<1>2. /\ r \in Runs /\ request[q] \in RequestType
      /\ ScorerOK(request[q], run[r], aiScores[r], batch[r], failedOn[r])
      /\ RowsOK(run[r], aiScores[r], batch[r], failedOn[r])
  BY <1>1, ScorerAt
<1>3. /\ batch'[r] = Pending(r)
      /\ UNCHANGED <<run, aiScores, failedOn>>
      /\ \A s \in Runs \ {r} : Kept(s)
  BY <1>2 DEF FetchPending, Kept, ScoringInv, TypeOK
<1>4. EssaysOf(aiScores[r]) = {} /\ failedOn[r] = {} /\ run[r].state = "started"
  BY <1>1, <1>2 DEF ScorerOK, EssaysOf
<1>5. RowsOK(run'[r], aiScores'[r], batch'[r], failedOn'[r])
  BY <1>2, <1>3, <1>4 DEF RowsOK
<1>6. ASSUME Becomes(q, Idle) PROVE ScoringInv'
  BY <1>1, <1>3, <1>5, <1>6, OwnStep, IdleType DEF ScoringSteps
<1>7. ASSUME Becomes(q, Fetched(q)) PROVE ScoringInv'
  <2>1. /\ Fetched(q).at = "call" /\ Fetched(q).run = r /\ Fetched(q).todo = Pending(r)
        /\ Fetched(q).scored = request[q].scored
    BY <1>2 DEF Fetched, RequestType, Run
  <2>2. ScorerOK(Fetched(q), run'[r], aiScores'[r], batch'[r], failedOn'[r])
    BY <1>1, <1>2, <1>3, <1>4, <2>1 DEF ScorerOK
  <2>3. QED
    BY <1>1, <1>3, <1>5, <1>7, <2>1, <2>2, OwnStep
<1>8. QED
  BY <1>6, <1>7, FetchBecomes DEF ScoringInv

LEMMA FailScoring ==
  ASSUME ScoringInv, TypeOK', NEW q \in Requests, NEW e \in Essays,
         At(q, "call") \/ At(q, "insert"), Current(q, e), FailEssay(q, e)
  PROVE  ScoringInv'
<1> DEFINE r == Run(q)
           new == Ended(q, e, request[q].scored)
<1>1. IsScoring(q) /\ request[q].at \notin {"idle", "fetch", "progress"} /\ e \in request[q].todo
  BY DEF At, IsScoring, ScoringSteps, Current
<1>2. /\ r \in Runs /\ request[q] \in RequestType
      /\ ScorerOK(request[q], run[r], aiScores[r], batch[r], failedOn[r])
      /\ RowsOK(run[r], aiScores[r], batch[r], failedOn[r])
  BY <1>1, ScorerAt
<1>3. /\ failedOn'[r] = failedOn[r] \cup {e}
      /\ UNCHANGED <<run, aiScores, batch>>
      /\ \A s \in Runs \ {r} : Kept(s)
  BY <1>2 DEF FailEssay, Kept, ScoringInv, TypeOK
<1>4. Becomes(q, new)
  BY <1>1, FailBecomes DEF ScoringInv
<1>5. /\ new.at = "progress" /\ new.run = r /\ new.todo = request[q].todo \ {e}
      /\ new.scored = request[q].scored
  BY <1>2 DEF Ended, RequestType, Run
<1> HIDE DEF new
<1>6. RowsOK(run'[r], aiScores'[r], batch'[r], failedOn'[r])
  BY <1>1, <1>2, <1>3 DEF RowsOK, ScorerOK
<1>7. ScorerOK(new, run'[r], aiScores'[r], batch'[r], failedOn'[r])
  BY <1>1, <1>2, <1>3, <1>5 DEF ScorerOK
<1>8. QED
  BY <1>1, <1>3, <1>4, <1>5, <1>6, <1>7, OwnStep

LEMMA InsertScoring ==
  ASSUME ScoringInv, TypeOK', NEW q \in Requests, NEW e \in Essays, InsertScore(q, e)
  PROVE  ScoringInv'
<1> DEFINE r == Run(q)
           row == [essay |-> e, score |-> request[q].answer]
           new == Ended(q, e, request[q].scored + 1)
<1>1. IsScoring(q) /\ request[q].at = "insert" /\ e \in request[q].todo
  BY DEF InsertScore, At, IsScoring, ScoringSteps, Current
<1>2. /\ r \in Runs /\ request[q] \in RequestType /\ RequestOK(request[q])
      /\ ScorerOK(request[q], run[r], aiScores[r], batch[r], failedOn[r])
      /\ RowsOK(run[r], aiScores[r], batch[r], failedOn[r])
  BY <1>1, ScorerAt
<1>3. row \in Row /\ row.essay = e /\ aiScores[r] \in Seq(Row)
  BY <1>1, <1>2 DEF RequestOK, Row, ScoringInv, TypeOK
<1>4. /\ aiScores'[r] = Append(aiScores[r], row)
      /\ UNCHANGED <<run, batch, failedOn>>
      /\ \A s \in Runs \ {r} : Kept(s)
  BY <1>2 DEF InsertScore, Kept, ScoringInv, TypeOK
<1>5. Becomes(q, new)
  BY InsertBecomes DEF ScoringInv
<1>6. /\ new.at = "progress" /\ new.run = r /\ new.todo = request[q].todo \ {e}
      /\ new.scored = request[q].scored + 1
  BY <1>2 DEF Ended, RequestType, Run
<1> HIDE DEF new, row
<1>7. e \notin EssaysOf(aiScores[r]) /\ e \notin failedOn[r] /\ Once(aiScores[r])
  BY <1>1, <1>2 DEF ScorerOK, RowsOK
<1>8. /\ EssaysOf(aiScores'[r]) = EssaysOf(aiScores[r]) \cup {e}
      /\ Once(aiScores'[r])
      /\ Len(aiScores'[r]) = Len(aiScores[r]) + 1
  BY <1>3, <1>4, <1>7, ScoredAppend
<1>9. /\ run[r].state = "started" /\ Len(aiScores[r]) = request[q].scored
      /\ run[r].essaysScored = request[q].scored /\ request[q].scored \in Nat
      /\ batch[r] = EssaysOf(aiScores[r]) \cup failedOn[r] \cup request[q].todo
      /\ request[q].todo \cap (EssaysOf(aiScores[r]) \cup failedOn[r]) = {}
      /\ EssaysOf(aiScores[r]) \cap failedOn[r] = {}
  BY <1>1, <1>2 DEF ScorerOK, RowsOK, RequestType
<1>10. RowsOK(run'[r], aiScores'[r], batch'[r], failedOn'[r])
  BY <1>1, <1>4, <1>7, <1>8, <1>9 DEF RowsOK
<1>11. ScorerOK(new, run'[r], aiScores'[r], batch'[r], failedOn'[r])
  BY <1>1, <1>4, <1>6, <1>7, <1>8, <1>9 DEF ScorerOK
<1>12. QED
  BY <1>1, <1>4, <1>5, <1>6, <1>10, <1>11, OwnStep

LEMMA ProgressScoring ==
  ASSUME ScoringInv, TypeOK', NEW q \in Requests, Progress(q)
  PROVE  ScoringInv'
<1> DEFINE r == Run(q)
<1>1. IsScoring(q) /\ request[q].at = "progress"
  BY DEF Progress, At, IsScoring, ScoringSteps
<1>2. /\ r \in Runs /\ request[q] \in RequestType
      /\ ScorerOK(request[q], run[r], aiScores[r], batch[r], failedOn[r])
      /\ RowsOK(run[r], aiScores[r], batch[r], failedOn[r])
  BY <1>1, ScorerAt
<1>3. /\ run'[r].state = run[r].state /\ run'[r].essaysScored = request[q].scored
      /\ UNCHANGED <<aiScores, batch, failedOn>>
      /\ \A s \in Runs \ {r} : Kept(s)
  BY <1>2 DEF Progress, Kept, history, ScoringInv, TypeOK, RunType
<1>4. Len(aiScores[r]) \in Nat
  BY <1>2 DEF ScoringInv, TypeOK
<1>5. RowsOK(run'[r], aiScores'[r], batch'[r], failedOn'[r])
  BY <1>2, <1>3, <1>4 DEF RowsOK, ScorerOK
<1>6. ASSUME NEW step, step = "call" \/ (step = "complete" /\ request[q].todo = {}),
             Becomes(q, Moved(q, step))
      PROVE  ScoringInv'
  <2>1. /\ Moved(q, step).at = step /\ Moved(q, step).run = r
        /\ Moved(q, step).todo = request[q].todo /\ Moved(q, step).scored = request[q].scored
    BY <1>2 DEF Moved, RequestType, Run
  <2>2. ScorerOK(Moved(q, step), run'[r], aiScores'[r], batch'[r], failedOn'[r])
    BY <1>1, <1>2, <1>3, <1>6, <2>1 DEF ScorerOK
  <2>3. QED
    BY <1>1, <1>3, <1>5, <1>6, <2>1, <2>2, OwnStep
<1>7. \/ request[q].todo = {} /\ Becomes(q, Moved(q, "complete"))
      \/ request[q].todo # {} /\ Becomes(q, Moved(q, "call"))
  BY ProgressBecomes DEF ScoringInv
<1>8. CASE request[q].todo = {} /\ Becomes(q, Moved(q, "complete"))
  BY <1>6, <1>8
<1>9. CASE Becomes(q, Moved(q, "call"))
  BY <1>6, <1>9
<1>10. QED
  BY ONLY <1>7, <1>8, <1>9

LEMMA CompleteScoring ==
  ASSUME ScoringInv, TypeOK', NEW q \in Requests, Complete(q)
  PROVE  ScoringInv'
<1> DEFINE r == Run(q)
<1>1. IsScoring(q) /\ request[q].at = "complete"
  BY DEF Complete, At, IsScoring, ScoringSteps
<1>2. /\ r \in Runs
      /\ ScorerOK(request[q], run[r], aiScores[r], batch[r], failedOn[r])
      /\ RowsOK(run[r], aiScores[r], batch[r], failedOn[r])
  BY <1>1, ScorerAt
<1>3. /\ run'[r].state = "completed" /\ run'[r].essaysScored = run[r].essaysScored
      /\ UNCHANGED <<aiScores, batch, failedOn>>
      /\ \A s \in Runs \ {r} : Kept(s)
  BY <1>2 DEF Complete, Kept, history, ScoringInv, TypeOK, RunType
<1>4. RowsOK(run'[r], aiScores'[r], batch'[r], failedOn'[r])
  BY <1>1, <1>2, <1>3 DEF RowsOK, ScorerOK
<1>5. Becomes(q, Idle)
  BY DoneBecomes DEF Complete
<1>6. QED
  BY <1>1, <1>3, <1>4, <1>5, OwnStep, IdleType DEF ScoringSteps

-----------------------------------------------------------------------------
(* The other steps *)

LEMMA AlikeSame ==
  ASSUME NEW p \in Requests
  PROVE  Alike(p, request[p])
<1>1. CASE IsScoring(p)
  BY <1>1 DEF Alike, Run
<1>2. CASE ~IsScoring(p)
  BY <1>2 DEF Alike, IsScoring
<1>3. QED
  BY <1>1, <1>2

\* A step of one request in which the runs keep their rows and their counters.
LEMMA QuietBecomes ==
  ASSUME ScoringInv, TypeOK', NEW q \in Requests, NEW new, Becomes(q, new), Alike(q, new),
         \A s \in Runs : Kept(s)
  PROVE  ScoringInv'
<1>1. request'[q] = new /\ \A p \in Requests \ {q} : request'[p] = request[p]
  BY BecomesThis DEF ScoringInv
<1>2. ASSUME NEW p \in Requests PROVE Alike(p, request'[p])
  <2>1. CASE p = q
    BY <1>1, <2>1
  <2>2. CASE p # q
    BY <1>1, <2>2, AlikeSame
  <2>3. QED
    BY <2>1, <2>2
<1>3. QED
  BY <1>2, QuietStep

LEMMA UpdateKeeps ==
  ASSUME TypeOK, NEW q \in Requests, UpdateRun(q), NEW s \in Runs
  PROVE  Kept(s)
<1>1. UNCHANGED <<aiScores, batch, failedOn>>
  BY DEF UpdateRun, history
<1>2. run'[s] = run[s] \/ run'[s] = [run[s] EXCEPT !.passed = Passes(request[q].report)]
  BY DEF UpdateRun, TypeOK
<1>3. run[s] \in RunType
  BY DEF TypeOK
<1>4. run'[s].state = run[s].state /\ run'[s].essaysScored = run[s].essaysScored
  BY <1>2, <1>3 DEF RunType
<1>5. QED
  BY <1>1, <1>4 DEF Kept

LEMMA ScoringInvStep == ScoringInv /\ [Next]_vars => ScoringInv'
<1> SUFFICES ASSUME ScoringInv, [Next]_vars PROVE ScoringInv'
  OBVIOUS
<1>1. TypeOK /\ TypeOK'
  BY TypeStep DEF ScoringInv
<1>2. ASSUME UNCHANGED <<run, aiScores, batch, failedOn>>, NEW s \in Runs PROVE Kept(s)
  BY <1>2 DEF Kept
<1>3. ASSUME NEW q \in Requests, CheckPassed(q) PROVE ScoringInv'
  <2>1. \A s \in Runs : Kept(s)
    BY <1>2, <1>3 DEF CheckPassed, history
  <2>2. Idle.at \notin ScoringSteps /\ Moved(q, "select").at \notin ScoringSteps
    BY <1>1, IdleType DEF ScoringSteps, Moved, TypeOK, RequestType
  <2>3. QED
    BY <1>1, <1>3, <2>1, <2>2, CheckBecomes, QuietBecomes DEF Alike
<1>4. ASSUME NEW q \in Requests, SelectPairs(q) PROVE ScoringInv'
  <2>1. \A s \in Runs : Kept(s)
    BY <1>2, <1>4 DEF SelectPairs, history
  <2>2. Idle.at \notin ScoringSteps /\ Selected(q).at \notin ScoringSteps
    BY <1>1, IdleType DEF ScoringSteps, Selected, TypeOK, RequestType
  <2>3. QED
    BY <1>1, <1>4, <2>1, <2>2, SelectBecomes, QuietBecomes DEF Alike
<1>5. ASSUME NEW q \in Requests, UpdateRun(q) PROVE ScoringInv'
  <2>1. \A s \in Runs : Kept(s)
    BY <1>1, <1>5, UpdateKeeps
  <2>2. Idle.at \notin ScoringSteps /\ Moved(q, "count").at \notin ScoringSteps
    BY <1>1, IdleType DEF ScoringSteps, Moved, TypeOK, RequestType
  <2>3. QED
    BY <1>1, <1>5, <2>1, <2>2, UpdateBecomes, QuietBecomes DEF Alike
<1>6. ASSUME NEW q \in Requests, ReadCount(q) PROVE ScoringInv'
  <2>1. \A s \in Runs : Kept(s)
    BY <1>2, <1>6 DEF ReadCount, history
  <2>2. Counted(q).at \notin ScoringSteps
    BY <1>1 DEF ScoringSteps, Counted, TypeOK, RequestType
  <2>3. QED
    BY <1>1, <1>6, <2>1, <2>2, CountBecomes, QuietBecomes DEF Alike
<1>7. ASSUME NEW q \in Requests, InsertBaseline(q) \/ StatementFails(q) PROVE ScoringInv'
  <2>1. (\A s \in Runs : Kept(s)) /\ Becomes(q, Idle)
    BY <1>2, <1>7, DoneBecomes DEF InsertBaseline, StatementFails, history
  <2>2. Alike(q, Idle)
    BY IdleType DEF ScoringSteps, Alike
  <2>3. QED
    BY <1>1, <2>1, <2>2, QuietBecomes
<1>8. ASSUME NEW q \in Requests, NEW r \in Runs, Correlate(q, r) \/ StoreBaseline(q, r)
      PROVE  ScoringInv'
  <2>1. \A s \in Runs : Kept(s)
    BY <1>2, <1>8 DEF Correlate, StoreBaseline, history
  <2>2. Alike(q, Correlating(r)) /\ Alike(q, Approving(r))
    BY DEF ScoringSteps, Alike, Correlating, Approving, Idle
  <2>3. Becomes(q, Correlating(r)) \/ Becomes(q, Approving(r))
    BY <1>8, BeginBecomes
  <2>4. QED
    BY <1>1, <2>1, <2>2, <2>3, QuietBecomes
<1>9. ASSUME NEW q \in Requests, RetryInvalid(q) PROVE ScoringInv'
  <2>1. (\A s \in Runs : Kept(s)) /\ request[q].at = "call"
    BY <1>2, <1>9 DEF RetryInvalid, history, At
  <2>2. Becomes(q, Retried(q)) /\ request[q] \in RequestType
    BY <1>1, <1>9, RetryBecomes DEF TypeOK
  <2>3. Alike(q, Retried(q))
    <3>1. /\ Retried(q).at = "call" /\ Retried(q).run = request[q].run
          /\ Retried(q).todo = request[q].todo /\ Retried(q).scored = request[q].scored
      BY <2>1, <2>2 DEF Retried, RequestType
    <3>2. QED
      BY <2>1, <3>1 DEF ScoringSteps, Alike, IsScoring, Run
  <2>4. QED
    BY <1>1, <2>1, <2>2, <2>3, QuietBecomes
<1>10. ASSUME NEW q \in Requests, NEW a \in Answers, ProviderAnswers(q, a) PROVE ScoringInv'
  <2>1. (\A s \in Runs : Kept(s)) /\ request[q].at = "call"
    BY <1>2, <1>10 DEF ProviderAnswers, history, At
  <2>2. Becomes(q, Answered(q, a)) /\ request[q] \in RequestType
    BY <1>1, <1>10, AnswersBecomes DEF TypeOK
  <2>3. Alike(q, Answered(q, a))
    BY <2>1, <2>2 DEF ScoringSteps, Alike, Answered, RequestType, IsScoring, Run
  <2>4. QED
    BY <1>1, <2>1, <2>2, <2>3, QuietBecomes
<1>11. ASSUME Crash PROVE ScoringInv'
  <2>1. \A s \in Runs : Kept(s)
    BY <1>2, <1>11 DEF Crash, history
  <2>2. \A p \in Requests : Alike(p, request'[p])
    BY <1>11, IdleType DEF Crash, Alike, ScoringSteps
  <2>3. QED
    BY <1>1, <2>1, <2>2, QuietStep
<1>12. ASSUME UNCHANGED <<run, aiScores, batch, failedOn, request>> PROVE ScoringInv'
  <2>1. \A s \in Runs : Kept(s)
    BY <1>2, <1>12
  <2>2. \A p \in Requests : Alike(p, request'[p])
    BY <1>12, AlikeSame
  <2>3. QED
    BY <1>1, <2>1, <2>2, QuietStep
<1>13. ASSUME NEW e \in Essays, GradingCompletes(e) PROVE ScoringInv'
  BY <1>12, <1>13 DEF GradingCompletes, history
<1>14. ASSUME UNCHANGED vars PROVE ScoringInv'
  BY <1>12, <1>14 DEF vars, history
<1>15. ASSUME NEW q \in Requests, NEW e \in Essays, ProviderFails(q, e) \/ InsertFails(q, e)
       PROVE  ScoringInv'
  BY <1>1, <1>15, FailScoring DEF ProviderFails, InsertFails
<1>16. ASSUME NEW q \in Requests, Step(q) PROVE ScoringInv'
  BY ONLY ScoringInv, <1>1, <1>3, <1>4, <1>5, <1>6, <1>7, <1>9, <1>10, <1>15, <1>16, FetchScoring,
          InsertScoring, ProgressScoring, CompleteScoring DEF Step
<1>17. QED
  BY ONLY ScoringInv, [Next]_vars, <1>1, <1>8, <1>11, <1>13, <1>14, <1>16, StartScoring DEF Next

THEOREM ScoringInvariant == Spec => []ScoringInv
BY ScoringInvInit, ScoringInvStep, PTL DEF Spec

\* No essay has two scores in a run, whatever attempts, failures and requests interleave.
THEOREM EssaysScoredOnce == Spec => []ScoredOnce
<1>1. ScoringInv => ScoredOnce
  BY DEF ScoringInv, RunInv, RowsOK, Once, ScoredOnce
<1>2. QED
  BY <1>1, ScoringInvariant, PTL

\* essays_scored keeps up with the rows that were inserted.
THEOREM ProgressIsTrue == Spec => []ProgressTracksRows
<1>1. ScoringInv => ProgressTracksRows
  BY DEF ScoringInv, RunInv, RowsOK, ProgressTracksRows
<1>2. QED
  BY <1>1, ScoringInvariant, PTL

\* A completed run has a score or a failure for every essay it fetched.
THEOREM CompletedRunsTriedAll == Spec => []CompletedIsTried
<1>1. ScoringInv => CompletedIsTried
  BY DEF ScoringInv, RunInv, RowsOK, CompletedIsTried, Scored, EssaysOf
<1>2. QED
  BY <1>1, ScoringInvariant, PTL

-----------------------------------------------------------------------------
(* What any step does to the rows of a run, and to a request *)

\* The rows of a run only grow, and not once it is completed.
Grows(s) ==
    /\ Prefix(aiScores[s], aiScores'[s])
    /\ run[s].state = "completed" =>
         run'[s].state = "completed" /\ aiScores'[s] = aiScores[s]

LEMMA RowsGrow ==
  ASSUME ScoringInv, [Next]_vars, NEW s \in Runs
  PROVE  Grows(s)
<1>1. TypeOK /\ aiScores[s] \in Seq(Row) /\ Len(aiScores[s]) \in Nat
  BY DEF ScoringInv, TypeOK
<1>2. ASSUME aiScores'[s] = aiScores[s],
             run[s].state = "completed" => run'[s].state = "completed"
      PROVE  Grows(s)
  BY <1>1, <1>2 DEF Grows, Prefix
<1>3. ASSUME UNCHANGED <<run, aiScores>> PROVE Grows(s)
  BY <1>2, <1>3
<1>4. ASSUME NEW q \in Requests, NEW r \in Runs, StartRun(q, r) PROVE Grows(s)
  BY <1>1, <1>2, <1>4 DEF StartRun, TypeOK, RunType
<1>5. ASSUME NEW q \in Requests, NEW e \in Essays, InsertScore(q, e) PROVE Grows(s)
  <2> DEFINE row == [essay |-> e, score |-> request[q].answer]
  <2>1. Run(q) \in Runs /\ run[Run(q)].state = "started" /\ row \in Row
    <3>1. IsScoring(q) /\ request[q].at = "insert"
      BY <1>5 DEF InsertScore, At, IsScoring, ScoringSteps
    <3>2. QED
      BY <3>1, ScorerAt DEF ScorerOK, RequestOK, Row
  <2>2. aiScores' = [aiScores EXCEPT ![Run(q)] = Append(aiScores[Run(q)], row)] /\ run' = run
    BY <1>5 DEF InsertScore
  <2> HIDE DEF row
  <2>3. CASE s # Run(q)
    BY <1>1, <1>2, <2>2, <2>3 DEF TypeOK
  <2>4. CASE s = Run(q)
    <3>1. aiScores'[s] = Append(aiScores[s], row)
      BY <1>1, <2>2, <2>4 DEF TypeOK
    <3>2. Prefix(aiScores[s], aiScores'[s])
      BY <1>1, <2>1, <3>1 DEF Prefix
    <3>3. QED
      BY <2>1, <2>4, <3>2 DEF Grows
  <2>5. QED
    BY <2>3, <2>4
<1>6. ASSUME NEW q \in Requests, Progress(q) PROVE Grows(s)
  BY <1>1, <1>2, <1>6, BusyRun DEF Progress, At, TypeOK, RunType
<1>7. ASSUME NEW q \in Requests, Complete(q) PROVE Grows(s)
  BY <1>1, <1>2, <1>7, BusyRun DEF Complete, At, TypeOK, RunType
<1>8. ASSUME NEW q \in Requests, UpdateRun(q) PROVE Grows(s)
  <2>1. Kept(s)
    BY <1>1, <1>8, UpdateKeeps
  <2>2. QED
    BY <1>2, <2>1 DEF Kept
<1>9. ASSUME NEW q \in Requests, Step(q) PROVE Grows(s)
  <2>1. ASSUME NEW a \in Answers, ProviderAnswers(q, a) PROVE Grows(s)
    BY <1>3, <2>1 DEF ProviderAnswers
  <2>2. ASSUME NEW e \in Essays, ProviderFails(q, e) \/ InsertFails(q, e) PROVE Grows(s)
    BY <1>3, <2>2 DEF ProviderFails, InsertFails, FailEssay
  <2>3. ASSUME FetchPending(q) \/ RetryInvalid(q) \/ CheckPassed(q) \/ SelectPairs(q)
                 \/ ReadCount(q) \/ InsertBaseline(q) \/ StatementFails(q)
        PROVE  Grows(s)
    BY <1>3, <2>3 DEF FetchPending, RetryInvalid, CheckPassed, SelectPairs, ReadCount,
                      InsertBaseline, StatementFails
  <2>4. QED
    BY ONLY <1>5, <1>6, <1>7, <1>8, <1>9, <2>1, <2>2, <2>3 DEF Step
<1>10. ASSUME NEW q \in Requests, NEW r \in Runs, Correlate(q, r) \/ StoreBaseline(q, r)
       PROVE  Grows(s)
  BY <1>3, <1>10 DEF Correlate, StoreBaseline
<1>11. ASSUME NEW e \in Essays, GradingCompletes(e) PROVE Grows(s)
  BY <1>3, <1>11 DEF GradingCompletes
<1>12. ASSUME Crash \/ UNCHANGED vars PROVE Grows(s)
  BY <1>3, <1>12 DEF Crash, vars
<1>13. QED
  BY ONLY [Next]_vars, <1>4, <1>9, <1>10, <1>11, <1>12 DEF Next

ReportSteps == {"update", "count", "store"}

\* How a request can come to have a report, or to carry it on.
ReportChange(p) ==
    \/ request'[p] = request[p]
    \/ request'[p].at \notin ReportSteps
    \/ Len(aiScores[Run(p)]) >= 2 /\ SelectPairs(p) /\ request'[p] = Selected(p)
    \/ Passes(request[p].report) /\ UpdateRun(p) /\ request'[p] = Moved(p, "count")
    \/ ReadCount(p) /\ request'[p] = Counted(p)

LEMMA ReportChanges ==
  ASSUME TypeOK, [Next]_vars, NEW p \in Requests
  PROVE  ReportChange(p)
<1>1. ASSUME NEW q \in Requests, NEW new, Becomes(q, new),
             q = p => new.at \notin ReportSteps
      PROVE  ReportChange(p)
  <2>1. request'[q] = new /\ (p # q => request'[p] = request[p])
    BY <1>1, BecomesThis
  <2>2. QED
    BY <1>1, <2>1 DEF ReportChange
<1>2. Idle.at \notin ReportSteps
  BY DEF Idle, ReportSteps
<1>3. ASSUME NEW q \in Requests, NEW step, step = "call" \/ step = "complete" \/ step = "select"
      PROVE  Moved(q, step).at \notin ReportSteps
  BY <1>3 DEF Moved, ReportSteps, TypeOK, RequestType
<1>4. ASSUME NEW q \in Requests, NEW r \in Runs,
             StartRun(q, r) \/ Correlate(q, r) \/ StoreBaseline(q, r)
      PROVE  ReportChange(p)
  <2>1. /\ Scoring(r).at \notin ReportSteps /\ Correlating(r).at \notin ReportSteps
        /\ Approving(r).at \notin ReportSteps
    BY DEF Scoring, Correlating, Approving, Idle, ReportSteps
  <2>2. QED
    BY <1>1, <1>4, <2>1, BeginBecomes
<1>5. ASSUME NEW q \in Requests, FetchPending(q) PROVE ReportChange(p)
  <2>1. Fetched(q).at \notin ReportSteps
    BY DEF Fetched, ReportSteps, TypeOK, RequestType
  <2>2. QED
    BY <1>1, <1>2, <1>5, <2>1, FetchBecomes
<1>6. ASSUME NEW q \in Requests, NEW a \in Answers, ProviderAnswers(q, a) PROVE ReportChange(p)
  <2>1. Answered(q, a).at \notin ReportSteps
    BY DEF Answered, ReportSteps, TypeOK, RequestType
  <2>2. QED
    BY <1>1, <1>6, <2>1, AnswersBecomes
<1>7. ASSUME NEW q \in Requests, RetryInvalid(q) PROVE ReportChange(p)
  <2>1. Retried(q).at \notin ReportSteps
    BY <1>7 DEF Retried, ReportSteps, TypeOK, RequestType, RetryInvalid, At
  <2>2. QED
    BY <1>1, <1>7, <2>1, RetryBecomes
<1>8. ASSUME NEW q \in Requests, NEW e \in Essays,
             ProviderFails(q, e) \/ InsertFails(q, e) \/ InsertScore(q, e)
      PROVE  ReportChange(p)
  <2>1. ASSUME NEW n PROVE Ended(q, e, n).at \notin ReportSteps
    BY DEF Ended, ReportSteps, TypeOK, RequestType
  <2>2. CASE InsertScore(q, e)
    BY <1>1, <2>1, <2>2, InsertBecomes
  <2>3. CASE ProviderFails(q, e) \/ InsertFails(q, e)
    BY <1>1, <2>1, <2>3, FailBecomes DEF ProviderFails, InsertFails, At
  <2>4. QED
    BY <1>8, <2>2, <2>3
<1>9. ASSUME NEW q \in Requests, Progress(q) PROVE ReportChange(p)
  BY <1>1, <1>3, <1>9, ProgressBecomes
<1>10. ASSUME NEW q \in Requests, Complete(q) \/ InsertBaseline(q) \/ StatementFails(q)
       PROVE  ReportChange(p)
  BY <1>1, <1>2, <1>10, DoneBecomes DEF Complete, InsertBaseline, StatementFails
<1>11. ASSUME NEW q \in Requests, CheckPassed(q) PROVE ReportChange(p)
  BY <1>1, <1>2, <1>3, <1>11, CheckBecomes
<1>12. ASSUME NEW q \in Requests, SelectPairs(q) PROVE ReportChange(p)
  <2>1. ASSUME Len(aiScores[Run(q)]) >= 2, Becomes(q, Selected(q)) PROVE ReportChange(p)
    BY <1>12, <2>1, BecomesThis DEF ReportChange
  <2>2. QED
    BY <1>1, <1>2, <1>12, <2>1, SelectBecomes
<1>13. ASSUME NEW q \in Requests, UpdateRun(q) PROVE ReportChange(p)
  <2>1. ASSUME Passes(request[q].report), Becomes(q, Moved(q, "count")) PROVE ReportChange(p)
    BY <1>13, <2>1, BecomesThis DEF ReportChange
  <2>2. QED
    BY <1>1, <1>2, <1>13, <2>1, UpdateBecomes
<1>14. ASSUME NEW q \in Requests, ReadCount(q) PROVE ReportChange(p)
  BY <1>14, CountBecomes, BecomesThis DEF ReportChange
<1>15. ASSUME Crash PROVE ReportChange(p)
  BY <1>2, <1>15 DEF Crash, ReportChange
<1>16. ASSUME request' = request PROVE ReportChange(p)
  BY <1>16 DEF ReportChange
<1>17. ASSUME NEW e \in Essays, GradingCompletes(e) PROVE ReportChange(p)
  BY <1>16, <1>17 DEF GradingCompletes
<1>18. ASSUME UNCHANGED vars PROVE ReportChange(p)
  BY <1>16, <1>18 DEF vars
<1>19. QED
  BY ONLY [Next]_vars, <1>4, <1>5, <1>6, <1>7, <1>8, <1>9, <1>10, <1>11, <1>12, <1>13, <1>14,
          <1>15, <1>17, <1>18 DEF Next, Step

-----------------------------------------------------------------------------
(* Verdicts and the baseline have evidence *)

LEMMA PrefixGrows ==
  ASSUME NEW report \in Seq(Row), NEW rows \in Seq(Row), NEW longer \in Seq(Row),
         Prefix(report, rows), Prefix(rows, longer)
  PROVE  Prefix(report, longer)
BY DEF Prefix

LEMMA PrefixIsSubSeq ==
  ASSUME NEW report \in Seq(Row), NEW rows \in Seq(Row), Prefix(report, rows)
  PROVE  SubSeq(rows, 1, Len(report)) = report
<1>1. /\ Len(report) \in Nat /\ Len(rows) \in Nat /\ Len(report) <= Len(rows)
      /\ DOMAIN report = 1..Len(report)
      /\ \A k \in 1..Len(report) : report[k] = rows[k]
  BY DEF Prefix
<1>2. /\ SubSeq(rows, 1, Len(report)) \in Seq(Row)
      /\ Len(SubSeq(rows, 1, Len(report))) = Len(report)
      /\ \A k \in 1..Len(report) : SubSeq(rows, 1, Len(report))[k] = rows[k]
  BY <1>1
<1>3. QED
  BY <1>1, <1>2, SeqEqual

\* What a request knows of the scores it has read, when it writes a verdict or the baseline.
EvidenceOK(own, row, rows) ==
    own.at \in ReportSteps =>
        /\ Len(own.report) >= 2
        /\ Prefix(own.report, rows)
        /\ own.settled => row.state = "completed" /\ Len(own.report) = Len(rows)
        /\ own.at # "update" => Passes(own.report)
        /\ own.at = "store" /\ own.settled => own.count = Len(own.report)

ReportInv(p) == EvidenceOK(request[p], run[Run(p)], aiScores[Run(p)])

VerdictInv(r) ==
    run[r].passed => \E n \in 2..Len(aiScores[r]) : Passes(SubSeq(aiScores[r], 1, n))

BaselineInv ==
    /\ baseline.run # NoRun =>
         Passes(baseline.evidence) /\ Prefix(baseline.evidence, aiScores[baseline.run])
    /\ baseline.settled => baseline.essaysCount = Len(baseline.evidence)

EvidenceInv ==
    /\ ScoringInv
    /\ \A p \in Requests : ReportInv(p)
    /\ \A r \in Runs : VerdictInv(r)
    /\ BaselineInv

LEMMA EvidenceInvInit == Init => EvidenceInv
<1> SUFFICES ASSUME Init PROVE EvidenceInv
  OBVIOUS
<1>1. ASSUME NEW p \in Requests PROVE ReportInv(p)
  <2>1. request[p].at = "idle"
    BY IdleType DEF Init
  <2>2. QED
    BY <2>1 DEF ReportInv, EvidenceOK, ReportSteps
<1>2. ASSUME NEW r \in Runs PROVE VerdictInv(r)
  BY DEF Init, VerdictInv
<1>3. BaselineInv
  BY DEF Init, BaselineInv, NoBaseline
<1>4. QED
  BY <1>1, <1>2, <1>3, ScoringInvInit DEF EvidenceInv

LEMMA ReportStep ==
  ASSUME EvidenceInv, [Next]_vars, TypeOK', NEW p \in Requests
  PROVE  ReportInv(p)'
<1>1. ScoringInv /\ TypeOK /\ ReportInv(p) /\ ReportChange(p)
  BY ReportChanges DEF EvidenceInv, ScoringInv
<1>2. CASE request'[p].at \notin ReportSteps
  BY <1>2 DEF ReportInv, EvidenceOK
<1> SUFFICES ASSUME request'[p].at \in ReportSteps PROVE ReportInv(p)'
  BY <1>2
<1>3. CASE request'[p] = request[p]
  <2> DEFINE r == Run(p)
  <2>1. r \in Runs /\ request[p].report \in Seq(Row)
    BY <1>1, <1>3, BusyRun DEF ReportSteps, RequestType
  <2>2. Grows(r) /\ aiScores[r] \in Seq(Row) /\ aiScores'[r] \in Seq(Row)
    BY <1>1, <2>1, RowsGrow DEF TypeOK
  <2>3. EvidenceOK(request[p], run[r], aiScores[r])
    BY <1>1 DEF ReportInv
  <2>4. Prefix(request[p].report, aiScores[r]) => Prefix(request[p].report, aiScores'[r])
    BY <2>1, <2>2, PrefixGrows DEF Grows
  <2> HIDE DEF r
  <2>5. EvidenceOK(request[p], run'[r], aiScores'[r])
    BY <2>2, <2>3, <2>4 DEF EvidenceOK, Grows
  <2>6. QED
    BY <1>3, <2>5 DEF ReportInv, Run, r
<1>4. CASE Len(aiScores[Run(p)]) >= 2 /\ SelectPairs(p) /\ request'[p] = Selected(p)
  <2> DEFINE r == Run(p)
  <2>1. r \in Runs /\ request[p] \in RequestType
    BY <1>1, <1>4, BusyRun DEF SelectPairs, At
  <2>2. UNCHANGED <<run, aiScores>> /\ aiScores[r] \in Seq(Row)
    BY <1>1, <1>4, <2>1 DEF SelectPairs, TypeOK
  <2>3. /\ Selected(p).at = "update" /\ Selected(p).run = r
        /\ Selected(p).report = aiScores[r]
        /\ Selected(p).settled = (run[r].state = "completed")
    BY <2>1 DEF Selected, RequestType, Run
  <2>4. Prefix(aiScores[r], aiScores[r])
    BY <2>2 DEF Prefix
  <2>5. EvidenceOK(Selected(p), run[r], aiScores[r])
    BY <1>4, <2>3, <2>4 DEF EvidenceOK
  <2>6. QED
    BY <1>4, <2>2, <2>3, <2>5 DEF ReportInv, Run
<1>5. CASE Passes(request[p].report) /\ UpdateRun(p) /\ request'[p] = Moved(p, "count")
  <2> DEFINE r == Run(p)
  <2>1. r \in Runs /\ request[p] \in RequestType /\ request[p].at = "update"
    BY <1>1, <1>5, BusyRun DEF UpdateRun, At
  <2>2. aiScores' = aiScores /\ run'[r].state = run[r].state
    BY <1>1, <1>5, <2>1, UpdateKeeps DEF UpdateRun, Kept
  <2>3. EvidenceOK(request[p], run[r], aiScores[r])
    BY <1>1 DEF ReportInv
  <2>4. /\ Moved(p, "count").at = "count" /\ Moved(p, "count").run = r
        /\ Moved(p, "count").report = request[p].report
        /\ Moved(p, "count").settled = request[p].settled
    BY <2>1 DEF Moved, RequestType, Run
  <2>5. EvidenceOK(Moved(p, "count"), run'[r], aiScores[r])
    BY <1>5, <2>1, <2>2, <2>3, <2>4 DEF EvidenceOK, ReportSteps
  <2>6. QED
    BY <1>5, <2>2, <2>4, <2>5 DEF ReportInv, Run
<1>6. CASE ReadCount(p) /\ request'[p] = Counted(p)
  <2> DEFINE r == Run(p)
  <2>1. r \in Runs /\ request[p] \in RequestType /\ request[p].at = "count"
    BY <1>1, <1>6, BusyRun DEF ReadCount, At
  <2>2. UNCHANGED <<run, aiScores>>
    BY <1>6 DEF ReadCount
  <2>3. EvidenceOK(request[p], run[r], aiScores[r])
    BY <1>1 DEF ReportInv
  <2>4. /\ Counted(p).at = "store" /\ Counted(p).run = r
        /\ Counted(p).report = request[p].report
        /\ Counted(p).settled = request[p].settled
        /\ Counted(p).count = run[r].essaysScored
    BY <2>1 DEF Counted, RequestType, Run
  <2>5. run[r].state = "completed" => run[r].essaysScored = Len(aiScores[r])
    BY <1>1, <2>1 DEF ScoringInv, RunInv, RowsOK
  <2>6. EvidenceOK(Counted(p), run[r], aiScores[r])
    BY <2>1, <2>3, <2>4, <2>5 DEF EvidenceOK, ReportSteps
  <2>7. QED
    BY <1>6, <2>2, <2>4, <2>6 DEF ReportInv, Run
<1>7. QED
  BY <1>1, <1>2, <1>3, <1>4, <1>5, <1>6 DEF ReportChange

\* Writing another column of a run leaves its verdict.
LEMMA OtherColumns ==
  ASSUME TypeOK, NEW r \in Runs, NEW v
  PROVE  /\ [run[r] EXCEPT !.state = v].passed = run[r].passed
         /\ [run[r] EXCEPT !.essaysScored = v].passed = run[r].passed
<1>1. run[r] \in [state : {"none", "started", "completed"}, essaysScored : Nat, passed : BOOLEAN]
  BY DEF TypeOK, RunType
<1> DEFINE row == run[r]
<1> HIDE DEF row
<1>2. /\ DOMAIN row = {"state", "essaysScored", "passed"}
      /\ "passed" # "state" /\ "passed" # "essaysScored"
  BY <1>1 DEF row
<1>3. /\ [row EXCEPT !.state = v].passed = row.passed
      /\ [row EXCEPT !.essaysScored = v].passed = row.passed
  BY <1>2, Zenon
<1>4. QED
  BY <1>3 DEF row

\* A verdict is written by UpdateRun alone.
LEMMA VerdictChange ==
  ASSUME TypeOK, [Next]_vars, NEW r \in Runs, run'[r].passed
  PROVE  \/ run[r].passed
         \/ \E q \in Requests : UpdateRun(q) /\ Run(q) = r /\ Passes(request[q].report)
<1> DEFINE Goal == \/ run[r].passed
                   \/ \E q \in Requests : UpdateRun(q) /\ Run(q) = r /\ Passes(request[q].report)
<1>1. run[r] \in RunType
  BY DEF TypeOK
<1>2. ASSUME run'[r].passed = run[r].passed PROVE Goal
  BY <1>2
<1>3. ASSUME NEW q \in Requests, UpdateRun(q) PROVE Goal
  <2>1. run' = [run EXCEPT ![Run(q)].passed = Passes(request[q].report)]
    BY <1>3 DEF UpdateRun
  <2>2. CASE Run(q) = r
    <3>1. run'[r].passed = Passes(request[q].report)
      BY <1>1, <2>1, <2>2 DEF TypeOK, RunType
    <3>2. QED
      BY <1>3, <2>2, <3>1
  <2>3. CASE Run(q) # r
    BY <2>1, <2>3 DEF TypeOK
  <2>4. QED
    BY <2>2, <2>3
<1> HIDE DEF Goal
<1>4. ASSUME run' = run PROVE Goal
  BY <1>2, <1>4
<1>5. ASSUME NEW q \in Requests, NEW s \in Runs,
             StartRun(q, s) \/ Correlate(q, s) \/ StoreBaseline(q, s)
      PROVE  Goal
  <2>1. run' = run \/ run' = [run EXCEPT ![s].state = "started"]
    BY <1>5 DEF StartRun, Correlate, StoreBaseline
  <2>2. run'[r] = run[r] \/ run'[r] = [run[r] EXCEPT !.state = "started"]
    BY <2>1 DEF TypeOK
  <2>3. run'[r].passed = run[r].passed
    BY <2>2, OtherColumns
  <2>4. QED
    BY <1>2, <2>3
<1>6. ASSUME NEW q \in Requests, Progress(q) \/ Complete(q) PROVE Goal
  <2>1. \/ run' = [run EXCEPT ![Run(q)].essaysScored = request[q].scored]
        \/ run' = [run EXCEPT ![Run(q)].state = "completed"]
    BY <1>6 DEF Progress, Complete
  <2>2. \/ run'[r] = run[r]
        \/ run'[r] = [run[r] EXCEPT !.essaysScored = request[q].scored]
        \/ run'[r] = [run[r] EXCEPT !.state = "completed"]
    BY <2>1 DEF TypeOK
  <2>3. [run[r] EXCEPT !.essaysScored = request[q].scored].passed = run[r].passed
    BY OtherColumns
  <2>4. [run[r] EXCEPT !.state = "completed"].passed = run[r].passed
    BY OtherColumns
  <2>5. run'[r].passed = run[r].passed
    BY <2>2, <2>3, <2>4, Zenon
  <2>6. QED
    BY <1>2, <2>5
<1>7. ASSUME NEW q \in Requests, Step(q) PROVE Goal
  <2>1. ASSUME NEW a \in Answers, ProviderAnswers(q, a) PROVE Goal
    BY <1>4, <2>1 DEF ProviderAnswers
  <2>2. ASSUME NEW e \in Essays, ProviderFails(q, e) \/ InsertFails(q, e) \/ InsertScore(q, e)
        PROVE  Goal
    BY <1>4, <2>2 DEF ProviderFails, InsertFails, InsertScore, FailEssay
  <2>3. ASSUME FetchPending(q) \/ RetryInvalid(q) \/ CheckPassed(q) \/ SelectPairs(q)
                 \/ ReadCount(q) \/ InsertBaseline(q) \/ StatementFails(q)
        PROVE  Goal
    BY <1>4, <2>3 DEF FetchPending, RetryInvalid, CheckPassed, SelectPairs, ReadCount,
                      InsertBaseline, StatementFails
  <2>4. QED
    BY ONLY <1>3, <1>6, <1>7, <2>1, <2>2, <2>3 DEF Step
<1>8. ASSUME (\E e \in Essays : GradingCompletes(e)) \/ Crash \/ UNCHANGED vars PROVE Goal
  BY <1>4, <1>8 DEF GradingCompletes, Crash, vars
<1>9. Goal
  BY ONLY [Next]_vars, <1>5, <1>7, <1>8 DEF Next
<1>10. QED
  BY <1>9 DEF Goal

LEMMA VerdictStep ==
  ASSUME EvidenceInv, [Next]_vars, TypeOK', NEW r \in Runs
  PROVE  VerdictInv(r)'
<1>1. ScoringInv /\ TypeOK /\ VerdictInv(r) /\ Grows(r)
  BY RowsGrow DEF EvidenceInv, ScoringInv
<1>2. aiScores[r] \in Seq(Row) /\ aiScores'[r] \in Seq(Row)
  BY <1>1 DEF TypeOK
<1>3. /\ Len(aiScores[r]) \in Nat /\ Len(aiScores'[r]) \in Nat
      /\ Len(aiScores[r]) <= Len(aiScores'[r])
      /\ \A k \in 1..Len(aiScores[r]) : aiScores[r][k] = aiScores'[r][k]
  BY <1>1, <1>2 DEF Grows, Prefix
<1> SUFFICES ASSUME run'[r].passed
             PROVE  \E n \in 2..Len(aiScores'[r]) : Passes(SubSeq(aiScores'[r], 1, n))
  BY DEF VerdictInv
<1>4. CASE run[r].passed
  <2>1. PICK n \in 2..Len(aiScores[r]) : Passes(SubSeq(aiScores[r], 1, n))
    BY <1>1, <1>4 DEF VerdictInv
  <2>2. n \in 2..Len(aiScores'[r])
    BY <1>3
  <2>3. SubSeq(aiScores'[r], 1, n) = SubSeq(aiScores[r], 1, n)
    <3> DEFINE old == SubSeq(aiScores[r], 1, n)
               new == SubSeq(aiScores'[r], 1, n)
    <3>1. /\ old \in Seq(Row) /\ Len(old) = n
          /\ \A k \in 1..n : old[k] = aiScores[r][k]
      BY <1>2, <1>3
    <3>2. /\ new \in Seq(Row) /\ Len(new) = n
          /\ \A k \in 1..n : new[k] = aiScores'[r][k]
      BY <1>2, <1>3, <2>2
    <3> HIDE DEF old, new
    <3>3. \A k \in 1..n : old[k] = new[k]
      BY <1>3, <3>1, <3>2
    <3>4. old = new
      BY <3>1, <3>2, <3>3, SeqEqual
    <3>5. QED
      BY <3>4 DEF old, new
  <2>4. QED
    BY <2>1, <2>2, <2>3
<1>5. ASSUME NEW q \in Requests, UpdateRun(q), Run(q) = r, Passes(request[q].report)
      PROVE  \E n \in 2..Len(aiScores'[r]) : Passes(SubSeq(aiScores'[r], 1, n))
  <2>1. request[q].at = "update" /\ aiScores' = aiScores
    BY <1>5 DEF UpdateRun, At
  <2>2. request[q].report \in Seq(Row) /\ Len(request[q].report) \in Nat
    BY <1>1, <2>1, BusyRun DEF RequestType
  <2>3. Len(request[q].report) >= 2 /\ Prefix(request[q].report, aiScores[r])
    BY <1>5, <2>1 DEF EvidenceInv, ReportInv, EvidenceOK, ReportSteps
  <2>4. SubSeq(aiScores[r], 1, Len(request[q].report)) = request[q].report
    BY <1>2, <2>2, <2>3, PrefixIsSubSeq
  <2>5. Len(request[q].report) \in 2..Len(aiScores[r])
    BY <1>3, <2>2, <2>3 DEF Prefix
  <2>6. QED
    BY <1>5, <2>1, <2>4, <2>5
<1>6. QED
  BY <1>1, <1>4, <1>5, VerdictChange

\* The baseline is written by InsertBaseline alone, and once.
LEMMA BaselineChange ==
  ASSUME [Next]_vars
  PROVE  baseline' = baseline \/ \E q \in Requests : InsertBaseline(q)
<1> DEFINE Goal == baseline' = baseline \/ \E q \in Requests : InsertBaseline(q)
<1>1. ASSUME NEW q \in Requests, Step(q) PROVE Goal
  BY <1>1 DEF Step, ProviderAnswers, ProviderFails, InsertFails, InsertScore, FailEssay,
              FetchPending, RetryInvalid, CheckPassed, SelectPairs, ReadCount, StatementFails,
              Progress, Complete, UpdateRun
<1>2. ASSUME NEW q \in Requests, NEW r \in Runs,
             StartRun(q, r) \/ Correlate(q, r) \/ StoreBaseline(q, r)
      PROVE  Goal
  BY <1>2 DEF StartRun, Correlate, StoreBaseline
<1>3. ASSUME (\E e \in Essays : GradingCompletes(e)) \/ Crash \/ UNCHANGED vars PROVE Goal
  BY <1>3 DEF GradingCompletes, Crash, vars
<1> HIDE DEF Goal
<1>4. Goal
  BY ONLY [Next]_vars, <1>1, <1>2, <1>3 DEF Next
<1>5. QED
  BY <1>4 DEF Goal

LEMMA BaselineStep ==
  ASSUME EvidenceInv, [Next]_vars, TypeOK'
  PROVE  BaselineInv'
<1>1. ScoringInv /\ TypeOK /\ BaselineInv
  BY DEF EvidenceInv, ScoringInv
<1>2. CASE baseline' = baseline
  <2>1. CASE baseline.run = NoRun
    BY <1>1, <1>2, <2>1 DEF BaselineInv
  <2>2. CASE baseline.run # NoRun
    <3>1. baseline.run \in Runs /\ baseline.evidence \in Seq(Row)
      BY <1>1, <2>2 DEF TypeOK, Baseline
    <3>2. Grows(baseline.run)
      BY <1>1, <3>1, RowsGrow
    <3>3. aiScores[baseline.run] \in Seq(Row) /\ aiScores'[baseline.run] \in Seq(Row)
      BY <1>1, <3>1 DEF TypeOK
    <3>4. Prefix(baseline.evidence, aiScores'[baseline.run])
      BY <1>1, <2>2, <3>1, <3>2, <3>3, PrefixGrows DEF BaselineInv, Grows
    <3>5. QED
      BY <1>1, <1>2, <2>2, <3>4 DEF BaselineInv
  <2>3. QED
    BY <2>1, <2>2
<1>3. ASSUME NEW q \in Requests, InsertBaseline(q) PROVE BaselineInv'
  <2>1. request[q].at = "store" /\ aiScores' = aiScores
    BY <1>3 DEF InsertBaseline, At
  <2>2. /\ Passes(request[q].report) /\ Prefix(request[q].report, aiScores[Run(q)])
        /\ request[q].settled => request[q].count = Len(request[q].report)
    BY <2>1 DEF EvidenceInv, ReportInv, EvidenceOK, ReportSteps
  <2>3. CASE baseline.run # NoRun
    BY <1>2, <1>3, <2>3 DEF InsertBaseline
  <2>4. CASE baseline.run = NoRun
    <3>1. /\ baseline'.run = Run(q) /\ baseline'.evidence = request[q].report
          /\ baseline'.settled = request[q].settled /\ baseline'.essaysCount = request[q].count
      BY <1>3, <2>4 DEF InsertBaseline
    <3>2. QED
      BY <2>1, <2>2, <3>1 DEF BaselineInv
  <2>5. QED
    BY <2>3, <2>4
<1>4. QED
  BY <1>2, <1>3, BaselineChange

LEMMA EvidenceInvStep == EvidenceInv /\ [Next]_vars => EvidenceInv'
<1> SUFFICES ASSUME EvidenceInv, [Next]_vars PROVE EvidenceInv'
  OBVIOUS
<1>1. ScoringInv' /\ TypeOK'
  BY ScoringInvStep DEF EvidenceInv, ScoringInv
<1>2. QED
  BY ONLY EvidenceInv, [Next]_vars, <1>1, ReportStep, VerdictStep, BaselineStep DEF EvidenceInv

THEOREM EvidenceInvariant == Spec => []EvidenceInv
BY EvidenceInvInit, EvidenceInvStep, PTL DEF Spec

\* Positive verdicts and the baseline rest on scores of the run that pass.
THEOREM VerdictsRestOnEvidence == Spec => []VerdictsHaveEvidence
<1>1. EvidenceInv => VerdictsHaveEvidence
  BY DEF EvidenceInv, VerdictInv, BaselineInv, VerdictsHaveEvidence
<1>2. QED
  BY <1>1, EvidenceInvariant, PTL

\* The essays that are shown with the baseline of a completed run are those of its correlation.
THEOREM CountIsOfTheEvidence == Spec => []CountMatchesEvidence
<1>1. EvidenceInv => CountMatchesEvidence
  BY DEF EvidenceInv, BaselineInv, CountMatchesEvidence
<1>2. QED
  BY <1>1, EvidenceInvariant, PTL
=============================================================================
