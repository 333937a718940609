------------------------ MODULE WerValidationProofs ------------------------
(***************************************************************************)
(* Theorems about WerValidation: every baseline rests on results that      *)
(* passed, the counter of clips misses no increment, and a pipeline that   *)
(* is started again does not transcribe a clip twice.                      *)
(***************************************************************************)
EXTENDS WerValidation, FiniteSetTheorems, SequenceTheorems, TLAPS

-----------------------------------------------------------------------------
(* Type correctness *)

LEMMA IdleType == Idle \in RequestType /\ RequestOK(Idle)
BY DEF Idle, RequestType, RequestOK, Steps

LEMMA InitType == Init => TypeOK
BY IdleType DEF Init, TypeOK, Baseline, NoBaseline

\* A request that ends, or goes on with the clips that are left.
LEMMA ContinueType ==
  ASSUME TypeOK, NEW q \in Requests, NEW left \in SUBSET Samples, Run(q) \in Runs,
         Continue(q, left)
  PROVE  /\ request' \in [Requests -> RequestType]
         /\ \A p \in Requests : RequestOK(request'[p])
<1>1. CASE left = {}
  BY <1>1, IdleType DEF Continue, Done, TypeOK
<1>2. CASE left # {}
  <2> DEFINE next == [Idle EXCEPT !.at = "next", !.run = Run(q), !.todo = left]
  <2>1. next \in RequestType /\ RequestOK(next)
    BY IdleType DEF RequestType, RequestOK, Steps
  <2>2. request' = [request EXCEPT ![q] = next]
    BY <1>2 DEF Continue
  <2> HIDE DEF next
  <2>3. QED
    BY <2>1, <2>2 DEF TypeOK
<1>3. QED
  BY <1>1, <1>2

LEMMA DoneType ==
  ASSUME TypeOK, NEW q \in Requests, Done(q)
  PROVE  /\ request' \in [Requests -> RequestType]
         /\ \A p \in Requests : RequestOK(request'[p])
BY IdleType DEF Done, TypeOK

\* A request that changes, with the record it changes to.
LEMMA BecomesType ==
  ASSUME TypeOK, NEW q \in Requests, NEW new \in RequestType, RequestOK(new),
         request' = [request EXCEPT ![q] = new]
  PROVE  /\ request' \in [Requests -> RequestType]
         /\ \A p \in Requests : RequestOK(request'[p])
BY DEF TypeOK

LEMMA BusyRun ==
  ASSUME TypeOK, NEW q \in Requests, request[q].at # "idle"
  PROVE  /\ Run(q) \in Runs
         /\ request[q] \in RequestType
         /\ request[q].todo \in SUBSET Samples
         /\ RequestOK(request[q])
BY DEF TypeOK, RequestOK, RequestType, Run

LEMMA GotoType ==
  ASSUME TypeOK, NEW q \in Requests, NEW step, request[q].at # "idle", Goto(q, step),
         \/ step = "count"
         \/ step = "select"
         \/ step = "clips" /\ request[q].version \in Versions
  PROVE  /\ request' \in [Requests -> RequestType]
         /\ \A p \in Requests : RequestOK(request'[p])
<1> DEFINE new == [request[q] EXCEPT !.at = step]
<1>1. request[q] \in RequestType /\ Run(q) \in Runs
  BY BusyRun
<1>2. new \in RequestType /\ RequestOK(new)
  BY <1>1 DEF RequestType, RequestOK, Run, Steps
<1>3. request' = [request EXCEPT ![q] = new]
  BY <1>1 DEF Goto, RequestType, TypeOK
<1> HIDE DEF new
<1>4. QED
  BY <1>2, <1>3, BecomesType

LEMMA RequestTypeStep ==
  ASSUME TypeOK, [Next]_vars
  PROVE  /\ request' \in [Requests -> RequestType]
         /\ \A p \in Requests : RequestOK(request'[p])
<1> DEFINE Goal == /\ request' \in [Requests -> RequestType]
                   /\ \A p \in Requests : RequestOK(request'[p])
<1>1. ASSUME NEW r \in Runs, NEW accents \in SUBSET Accents \ {{}}, CreateRun(r, accents)
      PROVE  Goal
  BY <1>1 DEF CreateRun, TypeOK
<1>2. ASSUME NEW q \in Requests, NEW r \in Runs, Transcribe(q, r) PROVE Goal
  <2> DEFINE new == [Idle EXCEPT !.at = "next", !.run = r, !.todo = Fetched(r)]
  <2>1. Fetched(r) \in SUBSET Samples
    BY DEF Fetched
  <2>2. new \in RequestType /\ RequestOK(new)
    BY <2>1, IdleType DEF RequestType, RequestOK, Steps
  <2>3. request' = [request EXCEPT ![q] = new]
    BY <1>2 DEF Transcribe
  <2> HIDE DEF new
  <2>4. QED
    BY <2>2, <2>3, BecomesType
<1>3. ASSUME NEW q \in Requests, NEW r \in Runs, Compute(q, r) PROVE Goal
  <2> DEFINE new == [Idle EXCEPT !.at = "select", !.run = r]
  <2>1. new \in RequestType /\ RequestOK(new)
    BY IdleType DEF RequestType, RequestOK, Steps
  <2>2. request' = [request EXCEPT ![q] = new]
    BY <1>3 DEF Compute
  <2> HIDE DEF new
  <2>3. QED
    BY <2>1, <2>2, BecomesType
<1>4. ASSUME NEW q \in Requests, NEW s \in Samples, SkipClip(q, s) PROVE Goal
  <2>1. Run(q) \in Runs /\ request[q].todo \ {s} \in SUBSET Samples
    BY <1>4, BusyRun DEF SkipClip, At
  <2>2. QED
    BY <1>4, <2>1, ContinueType DEF SkipClip
<1>5. ASSUME NEW q \in Requests, NEW s \in Samples, NEW wer \in Rates, TranscribeClip(q, s, wer)
      PROVE  Goal
  <2> DEFINE new == [request[q] EXCEPT !.at = "insert", !.todo = @ \ {s}, !.sample = s, !.wer = wer]
  <2>1. request[q] \in RequestType /\ Run(q) \in Runs
    BY <1>5, BusyRun DEF TranscribeClip, At
  <2>2. new \in RequestType /\ RequestOK(new)
    BY <2>1, RatesAssumption DEF RequestType, RequestOK, Steps, Run
  <2>3. request' = [request EXCEPT ![q] = new]
    BY <1>5, <2>1 DEF TranscribeClip, RequestType, TypeOK
  <2> HIDE DEF new
  <2>4. QED
    BY <2>2, <2>3, BecomesType
<1>6. ASSUME NEW q \in Requests, NEW r \in Runs, NEW s \in Samples, NEW wer \in Rates,
             Submit(q, r, s, wer)
      PROVE  Goal
  <2> DEFINE new == [Idle EXCEPT !.at = "insert", !.run = r, !.sample = s, !.wer = wer]
  <2>1. new \in RequestType /\ RequestOK(new)
    BY IdleType, RatesAssumption DEF RequestType, RequestOK, Steps
  <2>2. request' = [request EXCEPT ![q] = new]
    BY <1>6 DEF Submit
  <2> HIDE DEF new
  <2>3. QED
    BY <2>1, <2>2, BecomesType
<1>7. ASSUME NEW q \in Requests, NEW r \in Runs, NEW v \in Versions, StoreBaseline(q, r, v)
      PROVE  Goal
  <2> DEFINE new == [Idle EXCEPT !.at = "passed", !.run = r, !.version = v]
  <2>1. new \in RequestType /\ RequestOK(new)
    BY IdleType DEF RequestType, RequestOK, Steps
  <2>2. request' = [request EXCEPT ![q] = new]
    BY <1>7 DEF StoreBaseline
  <2> HIDE DEF new
  <2>3. QED
    BY <2>1, <2>2, BecomesType
<1>9. ASSUME NEW q \in Requests, InsertResult(q) PROVE Goal
  <2>1. request[q].at # "idle" /\ Goto(q, "count")
    BY <1>9 DEF InsertResult, At
  <2>2. QED
    BY <2>1, GotoType
<1>10. ASSUME NEW q \in Requests, CountClip(q) \/ StatementFails(q) PROVE Goal
  <2>1. Run(q) \in Runs /\ request[q].todo \in SUBSET Samples
    BY <1>10, BusyRun DEF CountClip, StatementFails, At
  <2>2. QED
    BY <1>10, <2>1, ContinueType DEF CountClip, StatementFails
<1>11. ASSUME NEW q \in Requests, CheckPassed(q) PROVE Goal
  <2>1. request[q].at # "idle" /\ (Goto(q, "select") \/ Done(q))
    BY <1>11 DEF CheckPassed, At
  <2>2. CASE Goto(q, "select")
    BY <2>1, <2>2, GotoType
  <2>3. CASE Done(q)
    BY <2>3, DoneType
  <2>4. QED
    BY <2>1, <2>2, <2>3
<1>12. ASSUME NEW q \in Requests, SelectResults(q) PROVE Goal
  <2>1. CASE Done(q)
    BY <2>1, DoneType
  <2>2. CASE request' = [request EXCEPT ![q].at = "update", ![q].report = results[Run(q)]]
    <3> DEFINE new == [request[q] EXCEPT !.at = "update", !.report = results[Run(q)]]
    <3>1. request[q] \in RequestType /\ Run(q) \in Runs
      BY <1>12, BusyRun DEF SelectResults, At
    <3>2. results[Run(q)] \in Seq(Result)
      BY <3>1 DEF TypeOK
    <3>3. new \in RequestType /\ RequestOK(new)
      BY <3>1, <3>2 DEF RequestType, RequestOK, Steps, Run
    <3>4. request' = [request EXCEPT ![q] = new]
      BY <2>2, <3>1 DEF RequestType, TypeOK
    <3> HIDE DEF new
    <3>5. QED
      BY <3>3, <3>4, BecomesType
  <2>3. QED
    BY <1>12, <2>1, <2>2 DEF SelectResults
<1>13. ASSUME NEW q \in Requests, UpdateRun(q) PROVE Goal
  <2>1. request[q].version \in Versions \cup {NoVersion}
    BY <1>13, BusyRun DEF UpdateRun, At, RequestType
  <2>2. QED
    BY <1>13, <2>1, GotoType, DoneType DEF UpdateRun, At
<1>14. ASSUME NEW q \in Requests, ReadClips(q) PROVE Goal
  <2> DEFINE new == [request[q] EXCEPT !.at = "store", !.clips = clipsScored[Run(q)]]
  <2>1. request[q] \in RequestType /\ Run(q) \in Runs /\ request[q].version \in Versions
    BY <1>14, BusyRun DEF ReadClips, At, RequestOK
  <2>2. clipsScored[Run(q)] \in Nat
    BY <2>1 DEF TypeOK
  <2>3. new \in RequestType /\ RequestOK(new)
    BY <2>1, <2>2 DEF RequestType, RequestOK, Steps, Run
  <2>4. request' = [request EXCEPT ![q] = new]
    BY <1>14, <2>1 DEF ReadClips, RequestType, TypeOK
  <2> HIDE DEF new
  <2>5. QED
    BY <2>3, <2>4, BecomesType
<1>15. ASSUME NEW q \in Requests, InsertBaseline(q) PROVE Goal
  BY <1>15, DoneType DEF InsertBaseline
<1>16. CASE Crash
  BY <1>16, IdleType DEF Crash
<1>17. CASE UNCHANGED vars
  BY <1>17 DEF vars, TypeOK
<1>18. QED
  BY <1>1, <1>2, <1>3, <1>4, <1>5, <1>6, <1>7, <1>9, <1>10, <1>11, <1>12, <1>13, <1>14, <1>15,
     <1>16, <1>17 DEF Next

LEMMA TypeStep == TypeOK /\ [Next]_vars => TypeOK'
<1> SUFFICES ASSUME TypeOK, [Next]_vars PROVE TypeOK'
  OBVIOUS
<1>1. /\ request' \in [Requests -> RequestType]
      /\ \A q \in Requests : RequestOK(request'[q])
  BY RequestTypeStep
<1> DEFINE
      Rest == /\ targets' \in [Runs -> SUBSET Accents]
              /\ results' \in [Runs -> Seq(Result)]
              /\ clipsScored' \in [Runs -> Nat]
              /\ passed' \in [Runs -> BOOLEAN]
              /\ baseline' \in [Versions -> Baseline]
              /\ uncounted' \in [Runs -> Nat]
              /\ contended' \in [Runs -> SUBSET Samples]
<1>2. ASSUME NEW r \in Runs, NEW accents \in SUBSET Accents \ {{}}, CreateRun(r, accents)
      PROVE  Rest
  BY <1>2 DEF CreateRun, history, TypeOK
<1>3. ASSUME NEW q \in Requests, NEW r \in Runs, Transcribe(q, r) PROVE Rest
  <2>1. Fetched(r) \in SUBSET Samples
    BY DEF Fetched
  <2>2. QED
    BY <1>3, <2>1 DEF Transcribe, runVars, TypeOK
<1>4. ASSUME NEW q \in Requests, NEW r \in Runs, NEW s \in Samples, NEW wer \in Rates,
             Submit(q, r, s, wer)
      PROVE  Rest
  BY <1>4 DEF Submit, runVars, TypeOK
<1>5. ASSUME NEW q \in Requests, InsertResult(q) PROVE Rest
  <2>1. Run(q) \in Runs /\ request[q].sample \in Samples /\ request[q].wer \in Rates
    BY <1>5, BusyRun DEF InsertResult, At, RequestOK
  <2>2. [sample |-> request[q].sample, wer |-> request[q].wer] \in Result
    BY <2>1 DEF Result
  <2>3. QED
    BY <1>5, <2>1, <2>2 DEF InsertResult, history, TypeOK
<1>6. ASSUME NEW q \in Requests, CountClip(q) PROVE Rest
  <2>1. Run(q) \in Runs
    BY <1>6, BusyRun DEF CountClip, At
  <2>2. QED
    BY <1>6, <2>1 DEF CountClip, history, TypeOK
<1>7. ASSUME NEW q \in Requests, UpdateRun(q) PROVE Rest
  <2>1. Passes(request[q].report) \in BOOLEAN
    BY DEF Passes
  <2>2. QED
    BY <1>7, <2>1 DEF UpdateRun, history, TypeOK
<1>8. ASSUME NEW q \in Requests, InsertBaseline(q) PROVE Rest
  <2> DEFINE row == [run |-> Run(q), clips |-> request[q].clips, evidence |-> request[q].report]
  <2>1. Run(q) \in Runs /\ request[q] \in RequestType
    BY <1>8, BusyRun DEF InsertBaseline, At
  <2>2. row \in Baseline
    BY <2>1 DEF RequestType, Baseline
  <2>3. \/ baseline' = baseline
        \/ baseline' = [baseline EXCEPT ![request[q].version] = row]
    BY <1>8 DEF InsertBaseline
  <2>4. UNCHANGED <<runVars, history>>
    BY <1>8 DEF InsertBaseline
  <2> HIDE DEF row
  <2>5. QED
    BY <2>2, <2>3, <2>4 DEF runVars, history, TypeOK
<1>9. ASSUME NEW q \in Requests, StatementFails(q) PROVE Rest
  <2>1. Run(q) \in Runs
    BY <1>9, BusyRun DEF StatementFails, At
  <2>2. QED
    BY <1>9, <2>1 DEF StatementFails, runVars, TypeOK
<1>10. ASSUME Crash PROVE Rest
  <2>1. \A r \in Runs : Cardinality(Counting(r)) \in Nat
    <3> TAKE r \in Runs
    <3>1. IsFiniteSet(Counting(r))
      BY RequestsAssumption, FS_Subset DEF Counting
    <3>2. QED
      BY <3>1, FS_CardinalityType
  <2>2. QED
    BY <1>10, <2>1 DEF Crash, runVars, TypeOK
<1>11. ASSUME UNCHANGED <<runVars, baseline, history>> PROVE Rest
  BY <1>11 DEF runVars, history, TypeOK
<1>12. ASSUME NEW q \in Requests,
              \/ \E r \in Runs : Compute(q, r)
              \/ \E s \in Samples : SkipClip(q, s)
              \/ \E s \in Samples, wer \in Rates : TranscribeClip(q, s, wer)
              \/ \E r \in Runs, v \in Versions : StoreBaseline(q, r, v)
              \/ CheckPassed(q) \/ SelectResults(q) \/ ReadClips(q)
       PROVE  UNCHANGED <<runVars, baseline, history>>
  BY <1>12 DEF Compute, SkipClip, TranscribeClip, StoreBaseline, CheckPassed, SelectResults,
               ReadClips
<1>13. Rest
  <2>1. CASE UNCHANGED vars
    BY <1>11, <2>1 DEF vars
  <2>2. CASE Next
    BY ONLY <2>2, <1>2, <1>3, <1>4, <1>5, <1>6, <1>7, <1>8, <1>9, <1>10, <1>11, <1>12 DEF Next
  <2>3. QED
    BY <2>1, <2>2
<1>14. QED
  BY <1>1, <1>13 DEF TypeOK, RequestOK

\* The type invariant, whatever the clips, requests, crashes and failing statements.
THEOREM TypeCorrect == Spec => []TypeOK
BY InitType, TypeStep, PTL DEF Spec

-----------------------------------------------------------------------------
(* Baselines *)

\* The report that a request acts on once it has read the results of its run, and, once past the
\* check of store_wer_baseline, has found below the threshold.
ReportInv ==
    \A q \in Requests :
        /\ request[q].at \in {"update", "clips", "store"} =>
              request[q].report # << >> /\ Begins(request[q].report, results[request[q].run])
        /\ request[q].at \in {"clips", "store"} => Passes(request[q].report)

EvidenceInv == TypeOK /\ ReportInv /\ BaselineHasEvidence

\* Results are only ever appended.
ResultsGrow == \A r \in Runs : Begins(results[r], results'[r])

LEMMA BeginsRefl == \A r \in Seq(Result) : Begins(r, r)
BY DEF Begins

LEMMA BeginsTrans ==
  ASSUME NEW r \in Seq(Result), NEW s \in Seq(Result), NEW t \in Seq(Result),
         Begins(r, s), Begins(s, t)
  PROVE  Begins(r, t)
BY DEF Begins

LEMMA BeginsAppend ==
  ASSUME NEW r \in Seq(Result), NEW x \in Result
  PROVE  Begins(r, Append(r, x))
BY DEF Begins

LEMMA ResultsStep == TypeOK /\ [Next]_vars => ResultsGrow
<1> SUFFICES ASSUME TypeOK, [Next]_vars PROVE ResultsGrow
  OBVIOUS
<1>1. results' = results \/ \E q \in Requests : InsertResult(q)
  BY DEF Next, vars, runVars, CreateRun, Transcribe, TranscribeClip, SkipClip, Submit, CountClip,
         Compute, StoreBaseline, CheckPassed, SelectResults, UpdateRun, ReadClips, InsertBaseline,
         StatementFails, Crash
<1>2. CASE results' = results
  BY <1>2, BeginsRefl DEF ResultsGrow, TypeOK
<1>3. ASSUME NEW q \in Requests, InsertResult(q) PROVE ResultsGrow
  <2> DEFINE row == [sample |-> request[q].sample, wer |-> request[q].wer]
  <2>1. Run(q) \in Runs /\ row \in Result
    BY <1>3, BusyRun DEF InsertResult, At, RequestOK, Result
  <2>2. results' = [results EXCEPT ![Run(q)] = Append(@, row)]
    BY <1>3 DEF InsertResult
  <2> HIDE DEF row
  <2>3. \A r \in Runs : results'[r] = results[r] \/ results'[r] = Append(results[r], row)
    BY <2>1, <2>2 DEF TypeOK
  <2>4. QED
    BY <2>1, <2>3, BeginsRefl, BeginsAppend DEF ResultsGrow, TypeOK
<1>4. QED
  BY <1>1, <1>2, <1>3

\* The steps after which a request has another report, or is past the check.
LEMMA ReportStep ==
  ASSUME TypeOK, [Next]_vars, NEW q \in Requests,
         request'[q].at \in {"update", "clips", "store"}
  PROVE  \/ /\ request'[q].report = request[q].report
            /\ request'[q].run = request[q].run
            /\ request[q].at \in {"update", "clips", "store"}
            /\ request'[q].at = "update" \/ request[q].at \in {"clips", "store"}
                  \/ Passes(request[q].report)
         \/ /\ request'[q].at = "update"
            /\ request'[q].run = request[q].run
            /\ request[q].run \in Runs
            /\ request'[q].report = results[request[q].run]
            /\ request'[q].report # << >>
<1> DEFINE Goal ==
         \/ /\ request'[q].report = request[q].report
            /\ request'[q].run = request[q].run
            /\ request[q].at \in {"update", "clips", "store"}
            /\ request'[q].at = "update" \/ request[q].at \in {"clips", "store"}
                  \/ Passes(request[q].report)
         \/ /\ request'[q].at = "update"
            /\ request'[q].run = request[q].run
            /\ request[q].run \in Runs
            /\ request'[q].report = results[request[q].run]
            /\ request'[q].report # << >>
<1>1. request'[q] = request[q] => Goal
  OBVIOUS
<1>2. ASSUME NEW p \in Requests, NEW new,
             request' = [request EXCEPT ![p] = new],
             new.at \notin {"update", "clips", "store"}
      PROVE  Goal
  BY <1>1, <1>2 DEF TypeOK
<1>3. ASSUME NEW p \in Requests, NEW left, Done(p) \/ Continue(p, left) PROVE Goal
  <2> DEFINE next == [Idle EXCEPT !.at = "next", !.run = Run(p), !.todo = left]
  <2>1. next.at = "next" /\ Idle.at = "idle"
    BY DEF Idle
  <2>2. request' = [request EXCEPT ![p] = Idle] \/ request' = [request EXCEPT ![p] = next]
    BY <1>3 DEF Done, Continue
  <2> HIDE DEF next
  <2>3. QED
    BY <2>1, <2>2, <1>2
<1>4. ASSUME NEW p \in Requests,
             \/ \E r \in Runs : Transcribe(p, r) \/ Compute(p, r)
             \/ \E r \in Runs, s \in Samples, wer \in Rates : Submit(p, r, s, wer)
             \/ \E r \in Runs, v \in Versions : StoreBaseline(p, r, v)
      PROVE  Goal
  <2>1. p = q => request'[q].at \notin {"update", "clips", "store"}
    <3> SUFFICES ASSUME p = q PROVE request'[q].at \notin {"update", "clips", "store"}
      OBVIOUS
    <3>1. CASE \E r \in Runs : Transcribe(p, r)
      BY <3>1 DEF Transcribe, Idle, TypeOK
    <3>2. CASE \E r \in Runs : Compute(p, r)
      BY <3>2 DEF Compute, Idle, TypeOK
    <3>3. CASE \E r \in Runs, s \in Samples, wer \in Rates : Submit(p, r, s, wer)
      BY <3>3 DEF Submit, Idle, TypeOK
    <3>4. CASE \E r \in Runs, v \in Versions : StoreBaseline(p, r, v)
      BY <3>4 DEF StoreBaseline, Idle, TypeOK
    <3>5. QED
      BY <1>4, <3>1, <3>2, <3>3, <3>4
  <2>2. p # q => request'[q] = request[q]
    BY <1>4 DEF Transcribe, Compute, Submit, StoreBaseline, TypeOK
  <2>3. QED
    BY <1>1, <2>1, <2>2
<1>5. ASSUME NEW p \in Requests,
             \/ \E s \in Samples, wer \in Rates : TranscribeClip(p, s, wer)
             \/ InsertResult(p)
             \/ CheckPassed(p) /\ Goto(p, "select")
      PROVE  Goal
  <2>1. p = q => request'[q].at \notin {"update", "clips", "store"}
    <3> SUFFICES ASSUME p = q PROVE request'[q].at \notin {"update", "clips", "store"}
      OBVIOUS
    <3>1. request[q] \in RequestType
      BY DEF TypeOK
    <3>2. CASE \E s \in Samples, wer \in Rates : TranscribeClip(p, s, wer)
      BY <3>1, <3>2 DEF TranscribeClip, TypeOK, RequestType
    <3>3. CASE Goto(q, "count")
      BY <3>1, <3>3 DEF Goto, TypeOK, RequestType
    <3>4. CASE Goto(q, "select")
      BY <3>1, <3>4 DEF Goto, TypeOK, RequestType
    <3>5. QED
      BY <1>5, <3>2, <3>3, <3>4 DEF InsertResult
  <2>2. p # q => request'[q] = request[q]
    BY <1>5 DEF TranscribeClip, InsertResult, Goto, TypeOK
  <2>3. QED
    BY <1>1, <2>1, <2>2
<1>6. ASSUME NEW p \in Requests, SelectResults(p) PROVE Goal
  <2>1. CASE Done(p)
    BY <2>1, <1>3
  <2>2. CASE /\ results[Run(p)] # << >>
             /\ request' = [request EXCEPT ![p].at = "update", ![p].report = results[Run(p)]]
    <3>1. request[p].run \in Runs
      BY <1>6, BusyRun DEF SelectResults, At, Run
    <3>2. p = q => /\ request'[q].at = "update"
                   /\ request'[q].run = request[q].run
                   /\ request'[q].report = results[request[q].run]
      BY <2>2 DEF TypeOK, RequestType, Run
    <3>3. p # q => request'[q] = request[q]
      BY <2>2 DEF TypeOK
    <3>4. QED
      BY <1>1, <2>2, <3>1, <3>2, <3>3 DEF Run
  <2>3. QED
    BY <1>6, <2>1, <2>2 DEF SelectResults
<1>7. ASSUME NEW p \in Requests, UpdateRun(p) PROVE Goal
  <2>1. CASE Done(p)
    BY <2>1, <1>3
  <2>2. CASE Goto(p, "clips") /\ Passes(request[p].report)
    <3>1. p = q => /\ request'[q].report = request[q].report
                   /\ request'[q].run = request[q].run
      BY <2>2 DEF Goto, TypeOK, RequestType
    <3>2. p # q => request'[q] = request[q]
      BY <2>2 DEF Goto, TypeOK
    <3>3. request[p].at = "update"
      BY <1>7 DEF UpdateRun, At
    <3>4. QED
      BY <1>1, <2>2, <3>1, <3>2, <3>3
  <2>3. QED
    BY <1>7, <2>1, <2>2 DEF UpdateRun
<1>8. ASSUME NEW p \in Requests, ReadClips(p) PROVE Goal
  <2>1. p = q => /\ request'[q].report = request[q].report
                 /\ request'[q].run = request[q].run
    BY <1>8 DEF ReadClips, TypeOK, RequestType
  <2>2. p # q => request'[q] = request[q]
    BY <1>8 DEF ReadClips, TypeOK
  <2>3. request[p].at = "clips"
    BY <1>8 DEF ReadClips, At
  <2>4. QED
    BY <1>1, <2>1, <2>2, <2>3
<1>9. ASSUME NEW p \in Requests,
             \/ CountClip(p) \/ StatementFails(p) \/ InsertBaseline(p)
             \/ CheckPassed(p) /\ Done(p)
             \/ \E s \in Samples : SkipClip(p, s)
      PROVE  Goal
  <2>1. Done(p) \/ \E left : Continue(p, left)
    BY <1>9 DEF CountClip, StatementFails, InsertBaseline, SkipClip
  <2>2. QED
    BY <2>1, <1>3
<1>10. ASSUME Crash PROVE Goal
  BY <1>10 DEF Crash, Idle
<1>11. ASSUME request' = request PROVE Goal
  BY <1>1, <1>11
<1>12. CASE UNCHANGED vars
  BY <1>11, <1>12 DEF vars
<1>13. ASSUME NEW r \in Runs, NEW accents, CreateRun(r, accents) PROVE Goal
  BY <1>11, <1>13 DEF CreateRun
<1>14. ASSUME NEW p \in Requests, CheckPassed(p) PROVE Goal
  BY <1>5, <1>9, <1>14 DEF CheckPassed
<1>15. CASE Next
  BY ONLY <1>15, <1>4, <1>5, <1>6, <1>7, <1>8, <1>9, <1>10, <1>13, <1>14 DEF Next
<1>16. QED
  BY <1>12, <1>15

\* The steps after which there is another baseline.
LEMMA BaselineStep ==
  ASSUME TypeOK, [Next]_vars, NEW v \in Versions
  PROVE  \/ baseline'[v] = baseline[v]
         \/ \E q \in Requests :
               /\ request[q].at = "store"
               /\ baseline'[v] = [run |-> Run(q), clips |-> request[q].clips,
                                  evidence |-> request[q].report]
<1>1. baseline' = baseline \/ \E q \in Requests : InsertBaseline(q)
  BY DEF Next, vars, CreateRun, Transcribe, TranscribeClip, SkipClip, Submit, CountClip,
         Compute, StoreBaseline, CheckPassed, SelectResults, UpdateRun, ReadClips, InsertResult,
         StatementFails, Crash
<1>2. ASSUME NEW q \in Requests, InsertBaseline(q)
      PROVE  \/ baseline'[v] = baseline[v]
             \/ /\ request[q].at = "store"
                /\ baseline'[v] = [run |-> Run(q), clips |-> request[q].clips,
                                   evidence |-> request[q].report]
  BY <1>2 DEF InsertBaseline, At, TypeOK
<1>3. QED
  BY <1>1, <1>2

LEMMA EvidenceStep == EvidenceInv /\ [Next]_vars => EvidenceInv'
<1> SUFFICES ASSUME EvidenceInv, [Next]_vars PROVE EvidenceInv'
  OBVIOUS
<1>1. TypeOK /\ TypeOK'
  BY TypeStep DEF EvidenceInv
<1>2. ResultsGrow
  BY <1>1, ResultsStep
<1>3. ReportInv'
  <2> SUFFICES ASSUME NEW q \in Requests,
                      request'[q].at \in {"update", "clips", "store"}
               PROVE  /\ request'[q].report # << >>
                      /\ Begins(request'[q].report, results'[request'[q].run])
                      /\ request'[q].at \in {"clips", "store"} => Passes(request'[q].report)
    BY DEF ReportInv
  <2>1. CASE /\ request'[q].report = request[q].report
             /\ request'[q].run = request[q].run
             /\ request[q].at \in {"update", "clips", "store"}
             /\ request'[q].at = "update" \/ request[q].at \in {"clips", "store"}
                  \/ Passes(request[q].report)
    <3>1. /\ request[q].report # << >>
          /\ Begins(request[q].report, results[request[q].run])
          /\ request[q].at \in {"clips", "store"} => Passes(request[q].report)
      BY <2>1 DEF EvidenceInv, ReportInv
    <3>2. request[q].run \in Runs
      BY <1>1, <2>1, BusyRun DEF Run
    <3>3. /\ request[q].report \in Seq(Result)
          /\ results[request[q].run] \in Seq(Result)
          /\ results'[request[q].run] \in Seq(Result)
      BY <1>1, <3>2 DEF TypeOK, RequestType
    <3>4. Begins(results[request[q].run], results'[request[q].run])
      BY <1>2, <3>2 DEF ResultsGrow
    <3>5. Begins(request[q].report, results'[request[q].run])
      BY <3>1, <3>3, <3>4, BeginsTrans
    <3>6. QED
      BY <2>1, <3>1, <3>5
  <2>2. CASE /\ request'[q].at = "update"
             /\ request'[q].run = request[q].run
             /\ request[q].run \in Runs
             /\ request'[q].report = results[request[q].run]
             /\ request'[q].report # << >>
    BY <1>2, <2>2 DEF ResultsGrow
  <2>3. QED
    BY ONLY <1>1, <2>1, <2>2, ReportStep, [Next]_vars, q \in Requests,
            request'[q].at \in {"update", "clips", "store"}
<1>4. BaselineHasEvidence'
  <2> SUFFICES ASSUME NEW v \in Versions, baseline'[v].run # NoRun
               PROVE  /\ baseline'[v].evidence # << >>
                      /\ Begins(baseline'[v].evidence, results'[baseline'[v].run])
                      /\ Passes(baseline'[v].evidence)
    BY DEF BaselineHasEvidence
  <2>1. CASE baseline'[v] = baseline[v]
    <3>1. /\ baseline[v].evidence # << >>
          /\ Begins(baseline[v].evidence, results[baseline[v].run])
          /\ Passes(baseline[v].evidence)
      BY <2>1 DEF EvidenceInv, BaselineHasEvidence
    <3>2. baseline[v].run \in Runs /\ baseline[v].evidence \in Seq(Result)
      BY <1>1, <2>1 DEF TypeOK, Baseline
    <3>3. /\ results[baseline[v].run] \in Seq(Result)
          /\ results'[baseline[v].run] \in Seq(Result)
          /\ Begins(results[baseline[v].run], results'[baseline[v].run])
      BY <1>1, <1>2, <3>2 DEF TypeOK, ResultsGrow
    <3>4. QED
      BY <2>1, <3>1, <3>2, <3>3, BeginsTrans
  <2>2. ASSUME NEW q \in Requests, request[q].at = "store",
               baseline'[v] = [run |-> Run(q), clips |-> request[q].clips,
                               evidence |-> request[q].report]
        PROVE  /\ baseline'[v].evidence # << >>
               /\ Begins(baseline'[v].evidence, results'[baseline'[v].run])
               /\ Passes(baseline'[v].evidence)
    <3>1. /\ request[q].report # << >>
          /\ Begins(request[q].report, results[Run(q)])
          /\ Passes(request[q].report)
      BY <2>2 DEF EvidenceInv, ReportInv, Run
    <3>2. Run(q) \in Runs /\ request[q].report \in Seq(Result)
      BY <1>1, <2>2, BusyRun DEF RequestType
    <3>3. /\ results[Run(q)] \in Seq(Result)
          /\ results'[Run(q)] \in Seq(Result)
          /\ Begins(results[Run(q)], results'[Run(q)])
      BY <1>1, <1>2, <3>2 DEF TypeOK, ResultsGrow
    <3>4. Begins(request[q].report, results'[Run(q)])
      BY <3>1, <3>2, <3>3, BeginsTrans
    <3>5. QED
      BY <2>2, <3>1, <3>4
  <2>3. QED
    BY <1>1, <2>1, <2>2, BaselineStep
<1>5. QED
  BY <1>1, <1>3, <1>4 DEF EvidenceInv

\* Whatever requests interleave with it, the request that stores a baseline stores results of the
\* run that it has itself found below the threshold (store_wer_baseline).
THEOREM EvidenceHolds == Spec => []BaselineHasEvidence
<1>1. Init => EvidenceInv
  <2> SUFFICES ASSUME Init PROVE EvidenceInv
    OBVIOUS
  <2>1. ReportInv
    BY DEF Init, ReportInv, Idle
  <2>2. BaselineHasEvidence
    BY DEF Init, BaselineHasEvidence, NoBaseline
  <2>3. QED
    BY <2>1, <2>2, InitType DEF EvidenceInv
<1>2. EvidenceInv => BaselineHasEvidence
  BY DEF EvidenceInv
<1>3. QED
  BY <1>1, <1>2, EvidenceStep, PTL DEF Spec

-----------------------------------------------------------------------------
(* The counter of clips *)

CounterInv == TypeOK /\ CounterTracksRows

\* Counting(r) after a step.
CountingNext(r) == {p \in Requests : request'[p].at = "count" /\ request'[p].run = r}

LEMMA CountingFinite ==
  ASSUME NEW r \in Runs
  PROVE  IsFiniteSet(Counting(r)) /\ Cardinality(Counting(r)) \in Nat
<1>1. IsFiniteSet(Counting(r))
  BY RequestsAssumption, FS_Subset DEF Counting
<1>2. QED
  BY <1>1, FS_CardinalityType

\* A request that was not counting, and is not after the step.
LEMMA CountingSame ==
  ASSUME TypeOK, NEW q \in Requests, request[q].at # "count", request'[q].at # "count",
         \A p \in Requests \ {q} : request'[p] = request[p]
  PROVE  \A r \in Runs : CountingNext(r) = Counting(r)
BY DEF CountingNext, Counting, At, Run

\* A request that is not counting after a step that was a statement of its own.
LEMMA NotCounting ==
  ASSUME TypeOK, NEW q \in Requests, NEW left, Done(q) \/ Continue(q, left)
  PROVE  /\ request'[q].at # "count"
         /\ \A p \in Requests \ {q} : request'[p] = request[p]
<1> DEFINE next == [Idle EXCEPT !.at = "next", !.run = Run(q), !.todo = left]
<1>1. next.at = "next" /\ Idle.at = "idle"
  BY DEF Idle
<1>2. request' = [request EXCEPT ![q] = Idle] \/ request' = [request EXCEPT ![q] = next]
  BY DEF Done, Continue
<1> HIDE DEF next
<1>3. QED
  BY <1>1, <1>2 DEF TypeOK

\* The requests that leave the set: one less is counting.
LEMMA CountingLess ==
  ASSUME TypeOK, NEW q \in Requests, request[q].at = "count", request'[q].at # "count",
         \A p \in Requests \ {q} : request'[p] = request[p]
  PROVE  \A r \in Runs :
            Cardinality(Counting(r)) =
               Cardinality(CountingNext(r)) + (IF r = Run(q) THEN 1 ELSE 0)
<1> SUFFICES ASSUME NEW r \in Runs
             PROVE  Cardinality(Counting(r)) =
                       Cardinality(CountingNext(r)) + (IF r = Run(q) THEN 1 ELSE 0)
  OBVIOUS
<1>1. CASE r = Run(q)
  <2>1. q \in Counting(r) /\ CountingNext(r) = Counting(r) \ {q}
    BY <1>1 DEF CountingNext, Counting, At, Run
  <2>2. Cardinality(CountingNext(r)) = Cardinality(Counting(r)) - 1
    BY <2>1, CountingFinite, FS_RemoveElement
  <2>3. QED
    BY <1>1, <2>2, CountingFinite
<1>2. CASE r # Run(q)
  <2>1. CountingNext(r) = Counting(r)
    BY <1>2 DEF CountingNext, Counting, At, Run
  <2>2. QED
    BY <1>2, <2>1, CountingFinite
<1>3. QED
  BY <1>1, <1>2

LEMMA CountingMore ==
  ASSUME TypeOK, NEW q \in Requests, request[q].at # "count", request'[q].at = "count",
         request'[q].run = Run(q),
         \A p \in Requests \ {q} : request'[p] = request[p]
  PROVE  \A r \in Runs :
            Cardinality(CountingNext(r)) =
               Cardinality(Counting(r)) + (IF r = Run(q) THEN 1 ELSE 0)
<1> SUFFICES ASSUME NEW r \in Runs
             PROVE  Cardinality(CountingNext(r)) =
                       Cardinality(Counting(r)) + (IF r = Run(q) THEN 1 ELSE 0)
  OBVIOUS
<1>1. CASE r = Run(q)
  <2>1. q \notin Counting(r) /\ CountingNext(r) = Counting(r) \cup {q}
    BY <1>1 DEF CountingNext, Counting, At, Run
  <2>2. Cardinality(CountingNext(r)) = Cardinality(Counting(r)) + 1
    BY <2>1, CountingFinite, FS_AddElement
  <2>3. QED
    BY <1>1, <2>2
<1>2. CASE r # Run(q)
  <2>1. CountingNext(r) = Counting(r)
    BY <1>2 DEF CountingNext, Counting, At, Run
  <2>2. QED
    BY <1>2, <2>1, CountingFinite
<1>3. QED
  BY <1>1, <1>2

\* What CounterTracksRows says after a step.
CounterNext ==
    \A r \in Runs :
        clipsScored'[r] + Cardinality(CountingNext(r)) + uncounted'[r] = Len(results'[r])

\* A step that leaves the rows, the counters and the requests that count alone.
LEMMA CounterSame ==
  ASSUME CounterInv, UNCHANGED <<results, clipsScored, uncounted>>,
         \A r \in Runs : CountingNext(r) = Counting(r)
  PROVE  CounterNext
BY DEF CounterInv, CounterTracksRows, CounterNext

LEMMA Regroup ==
  ASSUME NEW c \in Nat, NEW k \in Nat, NEW u \in Nat, NEW d \in Nat
  PROVE  c + (k + d) + u = (c + k + u) + d
OBVIOUS

LEMMA CounterStep == CounterInv /\ [Next]_vars => CounterInv'
<1> SUFFICES ASSUME CounterInv, [Next]_vars PROVE CounterInv'
  OBVIOUS
<1>1. TypeOK /\ TypeOK'
  BY TypeStep DEF CounterInv
<1>2. \A r \in Runs : /\ clipsScored[r] \in Nat /\ uncounted[r] \in Nat
                       /\ results[r] \in Seq(Result)
                       /\ Cardinality(Counting(r)) \in Nat
                       /\ clipsScored[r] + Cardinality(Counting(r)) + uncounted[r] = Len(results[r])
  BY <1>1, CountingFinite DEF TypeOK, CounterInv, CounterTracksRows
<1>3. ASSUME NEW q \in Requests, InsertResult(q) PROVE CounterNext
  <2> DEFINE row == [sample |-> request[q].sample, wer |-> request[q].wer]
  <2>1. request[q].at = "insert" /\ Run(q) \in Runs /\ request[q] \in RequestType
    BY <1>1, <1>3, BusyRun DEF InsertResult, At
  <2>2. /\ request'[q].at = "count"
        /\ request'[q].run = Run(q)
        /\ \A p \in Requests \ {q} : request'[p] = request[p]
    BY <1>1, <1>3, <2>1 DEF InsertResult, Goto, TypeOK, RequestType, Run
  <2>3. \A r \in Runs : Cardinality(CountingNext(r)) =
                           Cardinality(Counting(r)) + (IF r = Run(q) THEN 1 ELSE 0)
    BY <1>1, <2>1, <2>2, CountingMore
  <2>4. results' = [results EXCEPT ![Run(q)] = Append(@, row)]
    BY <1>3 DEF InsertResult
  <2> HIDE DEF row
  <2>5. \A r \in Runs : Len(results'[r]) = Len(results[r]) + (IF r = Run(q) THEN 1 ELSE 0)
    BY <1>1, <1>2, <2>1, <2>4 DEF TypeOK
  <2>6. UNCHANGED <<clipsScored, uncounted>>
    BY <1>3 DEF InsertResult, history
  <2>7. SUFFICES ASSUME NEW r \in Runs
                  PROVE  clipsScored'[r] + Cardinality(CountingNext(r)) + uncounted'[r] =
                            Len(results'[r])
    BY DEF CounterNext
  <2>8. clipsScored'[r] = clipsScored[r] /\ uncounted'[r] = uncounted[r]
    BY <2>6
  <2> DEFINE one == IF r = Run(q) THEN 1 ELSE 0
  <2>9. /\ Cardinality(CountingNext(r)) = Cardinality(Counting(r)) + one
        /\ Len(results'[r]) = Len(results[r]) + one
        /\ clipsScored[r] + Cardinality(Counting(r)) + uncounted[r] = Len(results[r])
        /\ clipsScored[r] \in Nat /\ uncounted[r] \in Nat /\ Cardinality(Counting(r)) \in Nat
        /\ one \in Nat
        /\ Len(results[r]) \in Nat
    BY <1>2, <2>3, <2>5, LenProperties
  <2> HIDE DEF one
  <2>10. clipsScored'[r] + Cardinality(CountingNext(r)) + uncounted'[r] =
           clipsScored[r] + (Cardinality(Counting(r)) + one) + uncounted[r]
    BY ONLY <2>8, <2>9
  <2>11. clipsScored[r] + (Cardinality(Counting(r)) + one) + uncounted[r] =
            (clipsScored[r] + Cardinality(Counting(r)) + uncounted[r]) + one
    BY ONLY <2>9, Regroup
  <2>12. QED
    BY ONLY <2>9, <2>10, <2>11
<1>4. ASSUME NEW q \in Requests, CountClip(q) PROVE CounterNext
  <2>1. request[q].at = "count" /\ Run(q) \in Runs
    BY <1>1, <1>4, BusyRun DEF CountClip, At
  <2>2. /\ request'[q].at # "count"
        /\ \A p \in Requests \ {q} : request'[p] = request[p]
    BY <1>1, <1>4, NotCounting DEF CountClip
  <2>3. \A r \in Runs : Cardinality(Counting(r)) =
                           Cardinality(CountingNext(r)) + (IF r = Run(q) THEN 1 ELSE 0)
    BY <1>1, <2>1, <2>2, CountingLess
  <2>4. \A r \in Runs : clipsScored'[r] = clipsScored[r] + (IF r = Run(q) THEN 1 ELSE 0)
    BY <1>1, <1>2, <1>4, <2>1 DEF CountClip, TypeOK
  <2>5. \A r \in Runs : Cardinality(CountingNext(r)) \in Nat
    <3> TAKE r \in Runs
    <3>1. IsFiniteSet(CountingNext(r))
      BY RequestsAssumption, FS_Subset DEF CountingNext
    <3>2. QED
      BY <3>1, FS_CardinalityType
  <2>6. UNCHANGED <<results, uncounted>>
    BY <1>4 DEF CountClip, history
  <2>7. QED
    BY <1>2, <2>3, <2>4, <2>5, <2>6 DEF CounterNext
<1>5. ASSUME NEW q \in Requests, StatementFails(q) PROVE CounterNext
  <2>1. Run(q) \in Runs
    BY <1>1, <1>5, BusyRun DEF StatementFails, At
  <2>2. /\ request'[q].at # "count"
        /\ \A p \in Requests \ {q} : request'[p] = request[p]
    BY <1>1, <1>5, NotCounting DEF StatementFails
  <2>3. UNCHANGED <<results, clipsScored>>
    BY <1>5 DEF StatementFails, runVars
  <2>4. CASE request[q].at # "count"
    <3>1. \A r \in Runs : CountingNext(r) = Counting(r)
      BY <1>1, <2>2, <2>4, CountingSame
    <3>2. uncounted' = uncounted
      BY <1>5, <2>4 DEF StatementFails, At
    <3>3. QED
      BY <2>3, <3>1, <3>2, CounterSame
  <2>5. CASE request[q].at = "count"
    <3>1. \A r \in Runs : Cardinality(Counting(r)) =
                             Cardinality(CountingNext(r)) + (IF r = Run(q) THEN 1 ELSE 0)
      BY <1>1, <2>2, <2>5, CountingLess
    <3>2. \A r \in Runs : uncounted'[r] = uncounted[r] + (IF r = Run(q) THEN 1 ELSE 0)
      BY <1>1, <1>2, <1>5, <2>1, <2>5 DEF StatementFails, At, TypeOK
    <3>3. \A r \in Runs : Cardinality(CountingNext(r)) \in Nat
      <4> TAKE r \in Runs
      <4>1. IsFiniteSet(CountingNext(r))
        BY RequestsAssumption, FS_Subset DEF CountingNext
      <4>2. QED
        BY <4>1, FS_CardinalityType
    <3>4. SUFFICES ASSUME NEW r \in Runs
                    PROVE  clipsScored'[r] + Cardinality(CountingNext(r)) + uncounted'[r] =
                              Len(results'[r])
      BY DEF CounterNext
    <3>5. clipsScored'[r] = clipsScored[r] /\ results'[r] = results[r]
      BY <2>3
    <3> DEFINE one == IF r = Run(q) THEN 1 ELSE 0
    <3>6. /\ Cardinality(Counting(r)) = Cardinality(CountingNext(r)) + one
          /\ uncounted'[r] = uncounted[r] + one
          /\ clipsScored[r] + Cardinality(Counting(r)) + uncounted[r] = Len(results[r])
          /\ clipsScored[r] \in Nat /\ uncounted[r] \in Nat
          /\ Cardinality(CountingNext(r)) \in Nat
          /\ one \in Nat
      BY <1>2, <3>1, <3>2, <3>3
    <3> HIDE DEF one
    <3>7. QED
      BY ONLY <3>5, <3>6
  <2>6. QED
    BY <2>4, <2>5
<1>6. ASSUME Crash PROVE CounterNext
  <2>1. \A r \in Runs : CountingNext(r) = {}
    BY <1>6 DEF Crash, CountingNext, Idle
  <2>2. \A r \in Runs : Cardinality(CountingNext(r)) = 0
    BY <2>1, FS_EmptySet
  <2>3. \A r \in Runs : uncounted'[r] = uncounted[r] + Cardinality(Counting(r))
    BY <1>6 DEF Crash
  <2>4. UNCHANGED <<results, clipsScored>>
    BY <1>6 DEF Crash, runVars
  <2>5. QED
    BY <1>2, <2>2, <2>3, <2>4 DEF CounterNext
<1>7. ASSUME NEW q \in Requests,
             \/ \E r \in Runs : Transcribe(q, r) \/ Compute(q, r)
             \/ \E s \in Samples : SkipClip(q, s)
             \/ \E s \in Samples, wer \in Rates : TranscribeClip(q, s, wer)
             \/ \E r \in Runs, s \in Samples, wer \in Rates : Submit(q, r, s, wer)
             \/ \E r \in Runs, v \in Versions : StoreBaseline(q, r, v)
             \/ CheckPassed(q) \/ SelectResults(q) \/ UpdateRun(q) \/ ReadClips(q)
             \/ InsertBaseline(q)
      PROVE  CounterNext
  <2>1. UNCHANGED <<results, clipsScored, uncounted>>
    BY <1>7 DEF Transcribe, Compute, SkipClip, TranscribeClip, Submit, StoreBaseline, CheckPassed,
                SelectResults, UpdateRun, ReadClips, InsertBaseline, runVars, history
  <2>2. request[q].at # "count"
    BY <1>7 DEF Transcribe, Compute, SkipClip, TranscribeClip, Submit, StoreBaseline, CheckPassed,
                SelectResults, UpdateRun, ReadClips, InsertBaseline, At
  <2> DEFINE Quiet == /\ request'[q].at # "count"
                      /\ \A p \in Requests \ {q} : request'[p] = request[p]
  <2>3. request[q] \in RequestType /\ request \in [Requests -> RequestType]
    BY <1>1 DEF TypeOK
  <2>4. ASSUME \E r \in Runs : Transcribe(q, r) PROVE Quiet
    BY <2>3, <2>4 DEF Transcribe, Idle
  <2>5. ASSUME \E r \in Runs : Compute(q, r) PROVE Quiet
    BY <2>3, <2>5 DEF Compute, Idle
  <2>6. ASSUME \E s \in Samples, wer \in Rates : TranscribeClip(q, s, wer) PROVE Quiet
    BY <2>3, <2>6 DEF TranscribeClip, RequestType
  <2>7. ASSUME \E r \in Runs, s \in Samples, wer \in Rates : Submit(q, r, s, wer) PROVE Quiet
    BY <2>3, <2>7 DEF Submit, Idle
  <2>8. ASSUME \E r \in Runs, v \in Versions : StoreBaseline(q, r, v) PROVE Quiet
    BY <2>3, <2>8 DEF StoreBaseline, Idle
  <2>9. ASSUME \E left : Done(q) \/ Continue(q, left) PROVE Quiet
    BY <1>1, <2>9, NotCounting
  <2>10. ASSUME CheckPassed(q) \/ SelectResults(q) \/ UpdateRun(q) \/ ReadClips(q) PROVE Quiet
    <3>1. CASE Done(q)
      BY <2>9, <3>1
    <3>2. CASE CheckPassed(q) /\ Goto(q, "select")
      BY <2>3, <3>2 DEF Goto, RequestType
    <3>3. CASE SelectResults(q) /\ ~Done(q)
      BY <2>3, <3>3 DEF SelectResults, RequestType
    <3>4. CASE UpdateRun(q) /\ Goto(q, "clips")
      BY <2>3, <3>4 DEF Goto, RequestType
    <3>5. CASE ReadClips(q)
      BY <2>3, <3>5 DEF ReadClips, RequestType
    <3>6. QED
      BY <2>10, <3>1, <3>2, <3>3, <3>4, <3>5 DEF CheckPassed, UpdateRun
  <2>11. ASSUME InsertBaseline(q) \/ \E s \in Samples : SkipClip(q, s) PROVE Quiet
    BY <2>9, <2>11 DEF InsertBaseline, SkipClip
  <2>12. Quiet
    BY ONLY <1>7, <2>4, <2>5, <2>6, <2>7, <2>8, <2>10, <2>11
  <2>13. \A r \in Runs : CountingNext(r) = Counting(r)
    BY <1>1, <2>2, <2>12, CountingSame
  <2>14. QED
    BY <2>1, <2>13, CounterSame
<1>8. ASSUME request' = request, UNCHANGED <<results, clipsScored, uncounted>> PROVE CounterNext
  <2>1. \A r \in Runs : CountingNext(r) = Counting(r)
    BY <1>8 DEF CountingNext, Counting, At, Run
  <2>2. QED
    BY <1>8, <2>1, CounterSame
<1>9. CounterNext
  <2>1. CASE UNCHANGED vars
    BY <1>8, <2>1 DEF vars, runVars, history
  <2>2. ASSUME NEW r \in Runs, NEW accents, CreateRun(r, accents) PROVE CounterNext
    BY <1>8, <2>2 DEF CreateRun, history
  <2>3. CASE Next
    BY ONLY <2>3, <1>3, <1>4, <1>5, <1>6, <1>7, <2>2 DEF Next
  <2>4. QED
    BY <2>1, <2>3
<1>10. CounterTracksRows'
  BY <1>9 DEF CounterNext, CounterTracksRows, CountingNext, Counting, At, Run
<1>11. QED
  BY <1>1, <1>10 DEF CounterInv

\* No increment of clips_scored is lost to a concurrent one: what is missing is being counted, or
\* belongs to a statement that failed (submit_transcription, run_asr_pipeline).
THEOREM CounterHolds == Spec => []CounterTracksRows
<1>1. Init => CounterInv
  <2> SUFFICES ASSUME Init PROVE CounterInv
    OBVIOUS
  <2>1. \A r \in Runs : Cardinality(Counting(r)) = 0
    <3> TAKE r \in Runs
    <3>1. Counting(r) = {}
      BY DEF Init, Counting, At, Idle
    <3>2. QED
      BY <3>1, FS_EmptySet
  <2>2. QED
    BY <2>1, InitType DEF Init, CounterInv, CounterTracksRows
<1>2. CounterInv => CounterTracksRows
  BY DEF CounterInv
<1>3. QED
  BY <1>1, <1>2, CounterStep, PTL DEF Spec

-----------------------------------------------------------------------------
(* Clips and their results *)

\* Request q has clip s of run r ahead of it: it will insert a result for it.
Holds(q, r, s) ==
    /\ request[q].run = r
    /\ s \in request[q].todo \/ (request[q].at = "insert" /\ request[q].sample = s)

\* A clip that nobody contends for is ahead of one request at most, once, and has no result yet.
ClipsInv ==
    /\ \A q \in Requests : request[q].at = "insert" => request[q].sample \notin request[q].todo
    /\ \A q \in Requests, r \in Runs, s \in Samples :
          Holds(q, r, s) /\ s \in Scored(r) => s \in contended[r]
    /\ \A p, q \in Requests, r \in Runs, s \in Samples :
          Holds(p, r, s) /\ Holds(q, r, s) => p = q \/ s \in contended[r]
    /\ ClipsCountOnce

\* What a step may do to the clips ahead of a request.
LEMMA AheadStep ==
  ASSUME TypeOK, [Next]_vars, NEW q \in Requests
  PROVE  \/ request'[q] = request[q]
         \/ /\ request'[q].todo \subseteq request[q].todo
            /\ request'[q].run = request[q].run
            /\ request'[q].at # "insert"
         \/ request'[q].todo = {} /\ request'[q].at # "insert"
         \/ \E s \in request[q].todo :
               /\ request[q].at = "next"
               /\ request'[q].at = "insert" /\ request'[q].sample = s
               /\ request'[q].todo = request[q].todo \ {s}
               /\ request'[q].run = request[q].run
         \/ \E r \in Runs :
               /\ Transcribe(q, r)
               /\ request'[q].run = r /\ request'[q].todo = Fetched(r)
               /\ request'[q].at = "next"
         \/ \E r \in Runs :
               /\ request'[q].run = r /\ request'[q].todo = {}
               /\ request'[q].sample \in contended'[r]
<1> DEFINE Goal ==
         \/ request'[q] = request[q]
         \/ /\ request'[q].todo \subseteq request[q].todo
            /\ request'[q].run = request[q].run
            /\ request'[q].at # "insert"
         \/ request'[q].todo = {} /\ request'[q].at # "insert"
         \/ \E s \in request[q].todo :
               /\ request[q].at = "next"
               /\ request'[q].at = "insert" /\ request'[q].sample = s
               /\ request'[q].todo = request[q].todo \ {s}
               /\ request'[q].run = request[q].run
         \/ \E r \in Runs :
               /\ Transcribe(q, r)
               /\ request'[q].run = r /\ request'[q].todo = Fetched(r)
               /\ request'[q].at = "next"
         \/ \E r \in Runs :
               /\ request'[q].run = r /\ request'[q].todo = {}
               /\ request'[q].sample \in contended'[r]
<1>0. request \in [Requests -> RequestType] /\ request[q] \in RequestType
  BY DEF TypeOK
<1>1. request'[q] = request[q] => Goal
  OBVIOUS
<1>2. ASSUME NEW p \in Requests, NEW new, p # q, request' = [request EXCEPT ![p] = new]
      PROVE  Goal
  BY <1>1, <1>2
<1>3. ASSUME NEW left, Done(q) \/ (left \subseteq request[q].todo /\ Continue(q, left)) PROVE Goal
  <2>1. CASE request' = [request EXCEPT ![q] = Idle]
    BY <1>0, <2>1 DEF Idle
  <2>2. CASE /\ left \subseteq request[q].todo
             /\ request' = [request EXCEPT ![q] =
                              [Idle EXCEPT !.at = "next", !.run = Run(q), !.todo = left]]
    BY <1>0, <2>2 DEF Idle, Run
  <2>3. QED
    BY <1>3, <2>1, <2>2 DEF Done, Continue
<1>4. ASSUME NEW p \in Requests,
             \/ \E s \in Samples : SkipClip(p, s)
             \/ CountClip(p) \/ StatementFails(p) \/ InsertBaseline(p)
             \/ CheckPassed(p) /\ Done(p)
             \/ SelectResults(p) /\ Done(p)
             \/ UpdateRun(p) /\ Done(p)
      PROVE  Goal
  <2>1. Done(p) \/ \E left : left \subseteq request[p].todo /\ Continue(p, left)
    BY <1>4 DEF SkipClip, CountClip, StatementFails, InsertBaseline
  <2>2. CASE p # q
    BY <1>2, <2>1, <2>2 DEF Done, Continue
  <2>3. CASE p = q
    BY <1>3, <2>1, <2>3
  <2>4. QED
    BY <2>2, <2>3
<1>5. ASSUME NEW p \in Requests, NEW step \in {"count", "select", "clips"}, Goto(p, step)
      PROVE  Goal
  BY <1>0, <1>5 DEF Goto, RequestType
<1>6. ASSUME NEW p \in Requests, SelectResults(p) \/ ReadClips(p) PROVE Goal
  <2>1. CASE request' = [request EXCEPT ![p].at = "update", ![p].report = results[Run(p)]]
    BY <1>0, <2>1 DEF RequestType
  <2>2. CASE Done(p) /\ SelectResults(p)
    BY <1>4, <2>2
  <2>3. CASE ReadClips(p)
    BY <1>0, <2>3 DEF ReadClips, RequestType
  <2>4. SelectResults(p) =>
           \/ Done(p)
           \/ request' = [request EXCEPT ![p].at = "update", ![p].report = results[Run(p)]]
    BY DEF SelectResults
  <2>5. QED
    BY <1>6, <2>1, <2>2, <2>3, <2>4
<1>7. ASSUME NEW p \in Requests, NEW r \in Runs,
             Compute(p, r) \/ \E v \in Versions : StoreBaseline(p, r, v)
      PROVE  Goal
  BY <1>0, <1>7, ZenonT(40) DEF Compute, StoreBaseline, Idle
<1>8. ASSUME NEW p \in Requests, NEW r \in Runs, Transcribe(p, r) PROVE Goal
  BY <1>0, <1>8 DEF Transcribe, Idle
<1>9. ASSUME NEW p \in Requests, NEW r \in Runs, NEW s \in Samples, NEW wer \in Rates,
             Submit(p, r, s, wer)
      PROVE  Goal
  <2>1. s \in contended'[r]
    BY <1>9 DEF Submit, TypeOK
  <2>2. p = q => request'[q].run = r /\ request'[q].todo = {} /\ request'[q].sample = s
    BY <1>0, <1>9 DEF Submit, Idle
  <2>3. p # q => request'[q] = request[q]
    BY <1>0, <1>9 DEF Submit
  <2>4. QED
    BY <2>1, <2>2, <2>3
<1>10. ASSUME NEW p \in Requests, NEW s \in Samples, NEW wer \in Rates, TranscribeClip(p, s, wer)
       PROVE  Goal
  <2>1. p = q => /\ s \in request[q].todo /\ request[q].at = "next"
                 /\ request'[q].at = "insert" /\ request'[q].sample = s
                 /\ request'[q].todo = request[q].todo \ {s}
                 /\ request'[q].run = request[q].run
    BY <1>0, <1>10 DEF TranscribeClip, At, RequestType
  <2>2. p # q => request'[q] = request[q]
    BY <1>0, <1>10 DEF TranscribeClip
  <2>3. QED
    BY <2>1, <2>2
<1>11. ASSUME Crash PROVE Goal
  BY <1>11 DEF Crash, Idle
<1>12. ASSUME NEW r \in Runs, NEW accents, CreateRun(r, accents) PROVE Goal
  BY <1>1, <1>12 DEF CreateRun
<1>13. ASSUME NEW p \in Requests, InsertResult(p) \/ CheckPassed(p) \/ UpdateRun(p) PROVE Goal
  BY <1>4, <1>5, <1>13 DEF InsertResult, CheckPassed, UpdateRun
<1>14. CASE UNCHANGED vars
  BY <1>1, <1>14 DEF vars
<1>15. CASE Next
  BY ONLY <1>15, <1>4, <1>6, <1>7, <1>8, <1>9, <1>10, <1>11, <1>12, <1>13 DEF Next
<1>16. QED
  BY <1>14, <1>15

\* Results and contention only grow; a new result is of the clip its request was about to insert.
LEMMA ScoredStep ==
  ASSUME TypeOK, [Next]_vars, NEW r \in Runs
  PROVE  /\ contended[r] \subseteq contended'[r]
         /\ \/ results'[r] = results[r]
            \/ \E q \in Requests :
                  /\ InsertResult(q) /\ Run(q) = r /\ At(q, "insert")
                  /\ results'[r] = Append(results[r], [sample |-> request[q].sample,
                                                       wer |-> request[q].wer])
<1>1. contended[r] \subseteq contended'[r]
  <2>1. ASSUME NEW q \in Requests, NEW t \in Runs, Transcribe(q, t)
        PROVE  contended[r] \subseteq contended'[r]
    BY <2>1 DEF Transcribe, TypeOK
  <2>2. ASSUME NEW q \in Requests, NEW t \in Runs, NEW s \in Samples, NEW wer \in Rates,
               Submit(q, t, s, wer)
        PROVE  contended[r] \subseteq contended'[r]
    BY <2>2 DEF Submit, TypeOK
  <2>3. CASE contended' = contended
    BY <2>3
  <2>4. QED
    BY <2>1, <2>2, <2>3, ZenonT(40)
    DEF Next, vars, history, CreateRun, TranscribeClip, SkipClip, InsertResult, CountClip,
        Compute, StoreBaseline, CheckPassed, SelectResults, UpdateRun, ReadClips, InsertBaseline,
        StatementFails, Crash
<1>2. results' = results \/ \E q \in Requests : InsertResult(q)
  BY DEF Next, vars, runVars, CreateRun, Transcribe, TranscribeClip, SkipClip, Submit, CountClip,
         Compute, StoreBaseline, CheckPassed, SelectResults, UpdateRun, ReadClips, InsertBaseline,
         StatementFails, Crash
<1>3. ASSUME NEW q \in Requests, InsertResult(q)
      PROVE  \/ results'[r] = results[r]
             \/ /\ Run(q) = r /\ At(q, "insert")
                /\ results'[r] = Append(results[r], [sample |-> request[q].sample,
                                                     wer |-> request[q].wer])
  BY <1>3 DEF InsertResult, TypeOK
<1>4. QED
  BY <1>1, <1>2, <1>3

LEMMA HoldsStep ==
  ASSUME TypeOK, ClipsInv, [Next]_vars, NEW q \in Requests, NEW r \in Runs, NEW s \in Samples,
         Holds(q, r, s)'
  PROVE  \/ Holds(q, r, s) /\ ~ (InsertResult(q) /\ request[q].sample = s)
         \/ s \in contended'[r]
         \/ Transcribe(q, r) /\ s \in Fetched(r) /\ s \notin Pending(r)
<1>1. /\ request'[q].run = r
      /\ s \in request'[q].todo \/ (request'[q].at = "insert" /\ request'[q].sample = s)
  BY DEF Holds
<1>2. InsertResult(q) => request[q].at = "insert" /\ request'[q].at = "count"
  BY DEF InsertResult, At, Goto, TypeOK, RequestType
<1>3. request[q].at = "insert" => request[q].sample \notin request[q].todo
  BY DEF ClipsInv
<1>4. CASE request'[q] = request[q]
  BY <1>1, <1>2, <1>4 DEF Holds
<1>5. CASE /\ request'[q].todo \subseteq request[q].todo
           /\ request'[q].run = request[q].run
           /\ request'[q].at # "insert"
  BY <1>1, <1>2, <1>3, <1>5 DEF Holds
<1>6. ASSUME NEW c \in request[q].todo, request[q].at = "next", request'[q].sample = c,
             request'[q].todo = request[q].todo \ {c}, request'[q].run = request[q].run
      PROVE  Holds(q, r, s) /\ ~ InsertResult(q)
  BY <1>1, <1>2, <1>6 DEF Holds
<1>7. ASSUME Transcribe(q, r), request'[q].todo = Fetched(r), request'[q].at = "next"
      PROVE  s \in contended'[r] \/ (s \in Fetched(r) /\ s \notin Pending(r))
  <2>1. contended' = [contended EXCEPT ![r] = @ \cup (Fetched(r) \cap Pending(r))]
    BY <1>7 DEF Transcribe
  <2>2. contended'[r] = contended[r] \cup (Fetched(r) \cap Pending(r))
    BY <2>1 DEF TypeOK
  <2>3. QED
    BY <1>1, <1>7, <2>2
<1>8. QED
  BY <1>1, <1>4, <1>5, <1>6, <1>7, AheadStep

LEMMA ClipsStep == TypeOK /\ ClipsInv /\ [Next]_vars => ClipsInv'
<1> SUFFICES ASSUME TypeOK, ClipsInv, [Next]_vars PROVE ClipsInv'
  OBVIOUS
<1>1. ASSUME NEW q \in Requests, request'[q].at = "insert"
      PROVE  request'[q].sample \notin request'[q].todo
  BY <1>1, AheadStep DEF ClipsInv
<1>2. ASSUME NEW q \in Requests, NEW r \in Runs, NEW s \in Samples, Holds(q, r, s)',
             s \in Scored(r)'
      PROVE  s \in contended'[r]
  <2>1. contended[r] \subseteq contended'[r]
    BY ScoredStep
  <2>2. ASSUME s \notin Scored(r)
        PROVE  \E p \in Requests : InsertResult(p) /\ Holds(p, r, s) /\ request[p].sample = s
    <3>1. PICK k \in DOMAIN results'[r] : results'[r][k].sample = s
      BY <1>2 DEF Scored
    <3>2. results'[r] # results[r]
      BY <2>2, <3>1 DEF Scored
    <3>3. PICK p \in Requests :
             /\ InsertResult(p) /\ Run(p) = r /\ At(p, "insert")
             /\ results'[r] = Append(results[r], [sample |-> request[p].sample,
                                                  wer |-> request[p].wer])
      BY <3>2, ScoredStep
    <3>4. results[r] \in Seq(Result)
      BY DEF TypeOK
    <3> DEFINE row == [sample |-> request[p].sample, wer |-> request[p].wer]
               old == results[r]
    <3>5. \A i \in DOMAIN old : old[i].sample # s
      BY <2>2 DEF Scored
    <3>6. row.sample = request[p].sample
      OBVIOUS
    <3>7. k \in DOMAIN Append(old, row) /\ Append(old, row)[k].sample = s /\ old \in Seq(Result)
      BY <3>1, <3>3, <3>4
    <3> HIDE DEF row, old
    <3>8. k \in DOMAIN old \/ k = Len(old) + 1
      BY <3>7
    <3>9. k \in DOMAIN old => Append(old, row)[k] = old[k]
      BY <3>7
    <3>10. Append(old, row)[Len(old) + 1] = row
      BY <3>7
    <3>11. request[p].sample = s
      BY <3>5, <3>6, <3>7, <3>8, <3>9, <3>10
    <3>12. QED
      BY <3>3, <3>11 DEF Holds, Run, At
  <2>3. CASE Holds(q, r, s) /\ ~ (InsertResult(q) /\ request[q].sample = s)
    <3>1. CASE s \in Scored(r)
      BY <2>1, <2>3, <3>1 DEF ClipsInv
    <3>2. CASE s \notin Scored(r)
      <4>1. PICK p \in Requests : InsertResult(p) /\ Holds(p, r, s) /\ request[p].sample = s
        BY <2>2, <3>2
      <4>2. p # q
        BY <2>3, <4>1
      <4>3. QED
        BY <2>1, <2>3, <4>1, <4>2 DEF ClipsInv
    <3>3. QED
      BY <3>1, <3>2
  <2>4. CASE Transcribe(q, r) /\ s \in Fetched(r)
    BY <1>2, <2>4 DEF Transcribe, Fetched, Scored, runVars
  <2>5. QED
    BY <1>2, <2>3, <2>4, HoldsStep
<1>3. ASSUME NEW p \in Requests, NEW q \in Requests, NEW r \in Runs, NEW s \in Samples,
             Holds(p, r, s)', Holds(q, r, s)', p # q
      PROVE  s \in contended'[r]
  <2>1. contended[r] \subseteq contended'[r]
    BY ScoredStep
  <2>2. ASSUME NEW c \in Requests, Holds(c, r, s) PROVE s \in Pending(r)
    <3>1. CASE s \in request[c].todo
      BY <2>2, <3>1 DEF Holds, Pending, Run
    <3>2. CASE request[c].at = "insert" /\ request[c].sample = s
      <4>1. c \in {d \in Requests : Run(d) = r /\ At(d, "insert")}
        BY <2>2, <3>2 DEF Holds, Run, At
      <4>2. QED
        BY <3>2, <4>1 DEF Pending
    <3>3. QED
      BY <2>2, <3>1, <3>2 DEF Holds
  <2>3. Transcribe(p, r) => ~ Transcribe(q, r)
    <3>1. Idle.at = "idle" /\ [Idle EXCEPT !.at = "next", !.run = r, !.todo = Fetched(r)].at = "next"
      BY DEF Idle
    <3>2. ASSUME NEW c \in Requests, Transcribe(c, r)
          PROVE  /\ request[c].at = "idle" /\ request'[c].at = "next"
                 /\ \A d \in Requests : d # c => request'[d] = request[d]
      BY <3>1, <3>2 DEF Transcribe, At, TypeOK
    <3>3. QED
      BY <1>3, <3>2
  <2>4. Holds(p, r, s) /\ Holds(q, r, s) => s \in contended[r]
    BY <1>3 DEF ClipsInv
  <2>5. \/ Holds(p, r, s)
        \/ s \in contended'[r]
        \/ Transcribe(p, r) /\ s \notin Pending(r)
    BY <1>3, HoldsStep
  <2>6. \/ Holds(q, r, s)
        \/ s \in contended'[r]
        \/ Transcribe(q, r) /\ s \notin Pending(r)
    BY <1>3, HoldsStep
  <2>7. QED
    BY <2>1, <2>2, <2>3, <2>4, <2>5, <2>6
<1>4. ASSUME NEW r \in Runs, NEW j \in DOMAIN results'[r], NEW k \in DOMAIN results'[r],
             results'[r][j].sample = results'[r][k].sample
      PROVE  j = k \/ results'[r][j].sample \in contended'[r]
  <2>1. contended[r] \subseteq contended'[r]
    BY ScoredStep
  <2>2. CASE results'[r] = results[r]
    BY <1>4, <2>1, <2>2 DEF ClipsInv, ClipsCountOnce
  <2>3. ASSUME NEW q \in Requests, Run(q) = r, At(q, "insert"),
               results'[r] = Append(results[r], [sample |-> request[q].sample,
                                                 wer |-> request[q].wer])
        PROVE  j = k \/ results'[r][j].sample \in contended'[r]
    <3> DEFINE c == request[q].sample
               row == [sample |-> c, wer |-> request[q].wer]
               old == results[r]
               new == results'[r]
    <3>1. c \in Samples
      BY <2>3 DEF At, TypeOK, RequestOK
    <3>2. c \in Scored(r) => c \in contended'[r]
      BY <2>1, <2>3, <3>1 DEF ClipsInv, Holds, Run, At
    <3>3. \A i \in DOMAIN old : old[i].sample = c => c \in contended'[r]
      BY <3>2 DEF Scored
    <3>4. \A i, m \in DOMAIN old :
             old[i].sample = old[m].sample => i = m \/ old[i].sample \in contended'[r]
      BY <2>1 DEF ClipsInv, ClipsCountOnce
    <3>5. row.sample = c /\ old \in Seq(Result) /\ new = Append(old, row)
      BY <2>3 DEF TypeOK
    <3>6. j \in DOMAIN new /\ k \in DOMAIN new /\ new[j].sample = new[k].sample
      BY <1>4
    <3> HIDE DEF c, row, old, new
    <3>7. \A i \in DOMAIN new : i \in DOMAIN old \/ i = Len(old) + 1
      BY <3>5
    <3>8. \A i \in DOMAIN old : new[i] = old[i]
      BY <3>5
    <3>9. new[Len(old) + 1] = row
      BY <3>5
    <3>10. j = k \/ new[j].sample \in contended'[r]
      BY <3>3, <3>4, <3>5, <3>6, <3>7, <3>8, <3>9
    <3>11. QED
      BY <3>10 DEF new
  <2>4. QED
    BY <2>2, <2>3, ScoredStep
<1>5. QED
  BY <1>1, <1>2, <1>3, <1>4 DEF ClipsInv, ClipsCountOnce

\* The pipeline measures no clip of a run twice: a second result of a clip is of two requests
\* that went for it at the same time, or was submitted by hand (run_asr_pipeline).
THEOREM ClipsCountOnceHolds == Spec => []ClipsCountOnce
<1>1. Init => ClipsInv
  BY DEF Init, ClipsInv, ClipsCountOnce, Holds, Idle, Scored
<1>2. ClipsInv => ClipsCountOnce
  BY DEF ClipsInv
<1>3. QED
  BY <1>1, <1>2, ClipsStep, TypeCorrect, PTL DEF Spec
=============================================================================
