---------------------------- MODULE CalibrationRun ----------------------------
(***************************************************************************)
(* Calibration of the AI scores (calibration/pipeline.py, correlation.py,  *)
(* routers/calibration.py): a run scores the essays that examiners have    *)
(* graded, its scores are correlated with theirs, and a run that passes    *)
(* becomes the baseline v1.0-launch.  Requests interleave at their awaits; *)
(* no statement is in a transaction.                                       *)
(***************************************************************************)
EXTENDS Integers, Sequences, FiniteSetsExt

CONSTANTS
    Runs,
    Essays,      \* calibration_essays, numbered in the order of created_at
    Limit,       \* of fetch_pending_essays
    Categories,  \* of the rubric, "overall" among them
    Bands,       \* a model may give, in quarters of a band
    Answers,     \* valid answers of the provider: a band for every category
    Consensus,   \* mean of the two examiners, per essay and category
    Requests,    \* bounds how many are in flight
    NoRun

Score == [Categories -> Bands]

ASSUME EssaysAssumption == Essays \subseteq Nat /\ IsFiniteSet(Essays)
ASSUME LimitAssumption == Limit \in Nat \ {0}
ASSUME BandsAssumption == Bands \subseteq Nat /\ "overall" \in Categories
ASSUME AnswersAssumption == Answers \subseteq Score
ASSUME ConsensusAssumption == Consensus \in [Essays -> [Categories -> Nat]]
ASSUME NoRunAssumption == NoRun \notin Runs

VARIABLES
    gradingComplete,  \* essays with grading_complete
    run,              \* rows of calibration_runs
    aiScores,         \* rows of calibration_ai_scores per run, oldest first
    baseline,         \* the row of calibration_baseline
    request,          \* per request: the statement it is at, and its local variables
    batch,            \* history: the essays a run has fetched
    failedOn,         \* history: the essays that it failed to score
    streak            \* history: how many of those it failed last, in a row

history == <<batch, failedOn, streak>>
vars == <<gradingComplete, run, aiScores, baseline, request, history>>

Row == [essay : Essays, score : Answers]

RunType ==
    [state : {"none", "started", "completed"}, essaysScored : Nat, passed : BOOLEAN]

Steps == {"idle", "fetch", "call", "insert", "progress", "complete",
          "passed", "select", "update", "count", "store"}

ScoringSteps == {"fetch", "call", "insert", "progress", "complete"}

Idle == [at |-> "idle", run |-> NoRun, todo |-> {}, attempt |-> 1, answer |-> << >>,
         scored |-> 0, consecutive |-> 0, approving |-> FALSE,
         report |-> << >>, settled |-> FALSE, count |-> 0]

RequestType ==
    [at : Steps, run : Runs \cup {NoRun}, todo : SUBSET Essays, attempt : {1, 2},
     answer : Answers \cup {<< >>}, scored : Nat, consecutive : Nat, approving : BOOLEAN,
     report : Seq(Row), settled : BOOLEAN, count : Nat]

\* What a request has at hand for the statement it is at.
RequestOK(q) ==
    /\ q.at # "idle" => q.run \in Runs
    /\ q.at \in {"call", "insert"} => q.todo # {}
    /\ q.at = "insert" => q.answer \in Answers

NoBaseline == [run |-> NoRun, evidence |-> << >>, settled |-> FALSE, essaysCount |-> 0]

\* The columns pearson_* of the baseline are computed from its evidence.
Baseline ==
    [run : Runs \cup {NoRun}, evidence : Seq(Row), settled : BOOLEAN, essaysCount : Nat]

\* Every variable has its type, and a request has what its statement needs.
TypeOK ==
    /\ gradingComplete \in SUBSET Essays
    /\ run \in [Runs -> RunType]
    /\ aiScores \in [Runs -> Seq(Row)]
    /\ baseline \in Baseline
    /\ request \in [Requests -> RequestType]
    /\ \A q \in Requests : RequestOK(request[q])
    /\ batch \in [Runs -> SUBSET Essays]
    /\ failedOn \in [Runs -> SUBSET Essays]
    /\ streak \in [Runs -> Nat]

Init ==
    /\ gradingComplete \in SUBSET Essays
    /\ run = [r \in Runs |-> [state |-> "none", essaysScored |-> 0, passed |-> FALSE]]
    /\ aiScores = [r \in Runs |-> << >>]
    /\ baseline = NoBaseline
    /\ request = [q \in Requests |-> Idle]
    /\ batch = [r \in Runs |-> {}]
    /\ failedOn = [r \in Runs |-> {}]
    /\ streak = [r \in Runs |-> 0]

-----------------------------------------------------------------------------
(* Requests *)

At(q, step) == request[q].at = step

Run(q) == request[q].run

Goto(q, step) == request' = [request EXCEPT ![q].at = step]

Done(q) == request' = [request EXCEPT ![q] = Idle]

\* The essays are scored in the order in which they were created.
Current(q, e) == e \in request[q].todo /\ \A d \in request[q].todo : e <= d

\* Examiners grade another essay: the flag is set by hand.
GradingCompletes(e) ==
    /\ e \notin gradingComplete
    /\ gradingComplete' = gradingComplete \cup {e}
    /\ UNCHANGED <<run, aiScores, baseline, request, history>>

-----------------------------------------------------------------------------
(* POST /runs: create a run and score the essays *)

\* Mutant: a run that was started is taken up again.
StartRun_Resumes(q, r) ==
    /\ At(q, "idle")
    /\ run[r].state # "completed"
    /\ run' = [run EXCEPT ![r].state = "started"]
    /\ request' = [request EXCEPT ![q] = [Idle EXCEPT !.at = "fetch", !.run = r]]
    /\ UNCHANGED <<gradingComplete, aiScores, baseline, history>>

\* Every request creates a run of its own; an earlier one is never taken up again.
StartRun(q, r) ==
    /\ At(q, "idle")
    /\ run[r].state = "none"
    /\ run' = [run EXCEPT ![r].state = "started"]
    /\ request' = [request EXCEPT ![q] = [Idle EXCEPT !.at = "fetch", !.run = r]]
    /\ UNCHANGED <<gradingComplete, aiScores, baseline, history>>

Scored(r) == {aiScores[r][k].essay : k \in DOMAIN aiScores[r]}

\* ORDER BY created_at LIMIT, and then without those already scored in this run.
Pending(r) ==
    {e \in gradingComplete : Cardinality({d \in gradingComplete : d < e}) < Limit} \ Scored(r)

\* Without essays the request ends, and the run stays without completed_at.
FetchPending(q) ==
    /\ At(q, "fetch")
    /\ batch' = [batch EXCEPT ![Run(q)] = Pending(Run(q))]
    /\ IF Pending(Run(q)) = {} THEN Done(q)
       ELSE request' = [request EXCEPT ![q].at = "call", ![q].todo = Pending(Run(q))]
    /\ UNCHANGED <<gradingComplete, run, aiScores, baseline, failedOn, streak>>

ABORT_AFTER == 3

\* `consecutive_failures' after a failure.
AfterFailure(n) == 0

\* Essay e is done: the loop breaks, or writes its progress.  It never breaks, since the counter
\* is set to 0 after a failure too.
EndEssay(q, e, scored, consecutive) ==
    LET next == IF consecutive >= ABORT_AFTER THEN "complete" ELSE "progress" IN
    request' = [request EXCEPT ![q] =
                  [request[q] EXCEPT !.at = next, !.todo = @ \ {e}, !.attempt = 1,
                                     !.answer = << >>, !.scored = scored,
                                     !.consecutive = consecutive]]

FailEssay(q, e) ==
    /\ EndEssay(q, e, request[q].scored, AfterFailure(request[q].consecutive))
    /\ failedOn' = [failedOn EXCEPT ![Run(q)] = @ \cup {e}]
    /\ streak' = [streak EXCEPT ![Run(q)] = @ + 1]
    /\ UNCHANGED <<gradingComplete, run, aiScores, baseline, batch>>

ProviderAnswers(q, a) ==
    /\ At(q, "call")
    /\ request' = [request EXCEPT ![q].at = "insert", ![q].answer = a]
    /\ UNCHANGED <<gradingComplete, run, aiScores, baseline, history>>

\* Mutant: no attempt is the last.
RetryInvalid_Forever(q) ==
    /\ At(q, "call")
    /\ request' = [request EXCEPT ![q].attempt = 3 - @]
    /\ UNCHANGED <<gradingComplete, run, aiScores, baseline, history>>

\* The answer does not fit the schema: one more attempt, at a higher temperature.
RetryInvalid(q) ==
    /\ At(q, "call")
    /\ request[q].attempt = 1
    /\ request' = [request EXCEPT ![q].attempt = 2]
    /\ UNCHANGED <<gradingComplete, run, aiScores, baseline, history>>

\* Mutant: the loop over the attempts ends without an answer, and nothing is raised.
ProviderFails_FallsThrough(q, e) ==
    /\ At(q, "call")
    /\ Current(q, e)
    /\ Goto(q, "insert")
    /\ UNCHANGED <<gradingComplete, run, aiScores, baseline, history>>

\* A second invalid answer, or any other exception in any attempt.
ProviderFails(q, e) ==
    /\ At(q, "call")
    /\ Current(q, e)
    /\ FailEssay(q, e)

InsertScore(q, e) ==
    /\ At(q, "insert")
    /\ Current(q, e)
    /\ aiScores' = [aiScores EXCEPT ![Run(q)] =
                      Append(@, [essay |-> e, score |-> request[q].answer])]
    /\ EndEssay(q, e, request[q].scored + 1, 0)
    /\ streak' = [streak EXCEPT ![Run(q)] = 0]
    /\ UNCHANGED <<gradingComplete, run, baseline, batch, failedOn>>

\* score_essay catches this as well: the essay has failed and the loop goes on.
InsertFails(q, e) ==
    /\ At(q, "insert")
    /\ Current(q, e)
    /\ FailEssay(q, e)

\* Mutant: the progress is the number of essays dealt with.
Progress_CountsFailed(q) ==
    /\ At(q, "progress")
    /\ run' = [run EXCEPT ![Run(q)].essaysScored =
                 Cardinality(batch[Run(q)]) - Cardinality(request[q].todo)]
    /\ IF request[q].todo = {} THEN Goto(q, "complete") ELSE Goto(q, "call")
    /\ UNCHANGED <<gradingComplete, aiScores, baseline, history>>

\* Mutant: the loop leaves out the last essay.
Progress_OneShort(q) ==
    /\ At(q, "progress")
    /\ run' = [run EXCEPT ![Run(q)].essaysScored = request[q].scored]
    /\ IF Cardinality(request[q].todo) <= 1 THEN Goto(q, "complete") ELSE Goto(q, "call")
    /\ UNCHANGED <<gradingComplete, aiScores, baseline, history>>

Progress(q) ==
    /\ At(q, "progress")
    /\ run' = [run EXCEPT ![Run(q)].essaysScored = request[q].scored]
    /\ IF request[q].todo = {} THEN Goto(q, "complete") ELSE Goto(q, "call")
    /\ UNCHANGED <<gradingComplete, aiScores, baseline, history>>

Complete(q) ==
    /\ At(q, "complete")
    /\ run' = [run EXCEPT ![Run(q)].state = "completed"]
    /\ Done(q)
    /\ UNCHANGED <<gradingComplete, aiScores, baseline, history>>

-----------------------------------------------------------------------------
(* The verdict on a sequence of scored essays.  The thresholds are compared   *)
(* in whole numbers: r >= 17/20, and an error of at most two quarter bands,   *)
(* rounded to a thousandth of a band.                                         *)

Correlates(report, c) ==
    LET ai(k) == report[k].score[c]
        human(k) == Consensus[report[k].essay][c]
        Sum(f(_)) == MapThenSumSet(f, DOMAIN report)
        Covariance(x(_), y(_)) ==
            Len(report) * Sum(LAMBDA k : x(k) * y(k)) - Sum(x) * Sum(y)
        numerator == Covariance(ai, human)
    IN  /\ numerator > 0
        /\ 400 * numerator * numerator >= 289 * Covariance(ai, ai) * Covariance(human, human)

MeanErrorPasses(report) ==
    LET error(k) == LET d == report[k].score["overall"] - Consensus[report[k].essay]["overall"]
                    IN IF d < 0 THEN -d ELSE d
    IN  1000 * MapThenSumSet(error, DOMAIN report) <= 2002 * Len(report)

\* passed_overall: every category correlates, and the overall bands are close.
Passes(report) ==
    /\ \A c \in Categories : Correlates(report, c)
    /\ MeanErrorPasses(report)

-----------------------------------------------------------------------------
(* POST /runs/{id}/correlate and /runs/{id}/baseline.  Neither asks whether   *)
(* the run has been completed.                                                *)

Correlate(q, r) ==
    /\ At(q, "idle")
    /\ run[r].state # "none"
    /\ request' = [request EXCEPT ![q] = [Idle EXCEPT !.at = "select", !.run = r]]
    /\ UNCHANGED <<gradingComplete, run, aiScores, baseline, history>>

StoreBaseline(q, r) ==
    /\ At(q, "idle")
    /\ run[r].state # "none"
    /\ request' = [request EXCEPT ![q] =
                     [Idle EXCEPT !.at = "passed", !.run = r, !.approving = TRUE]]
    /\ UNCHANGED <<gradingComplete, run, aiScores, baseline, history>>

CheckPassed(q) ==
    /\ At(q, "passed")
    /\ IF run[Run(q)].passed THEN Goto(q, "select") ELSE Done(q)
    /\ UNCHANGED <<gradingComplete, run, aiScores, baseline, history>>

\* Fewer than two pairs are an error.
SelectPairs(q) ==
    /\ At(q, "select")
    /\ IF Len(aiScores[Run(q)]) < 2 THEN Done(q)
       ELSE request' = [request EXCEPT ![q].at = "update",
                                       ![q].report = aiScores[Run(q)],
                                       ![q].settled = (run[Run(q)].state = "completed")]
    /\ UNCHANGED <<gradingComplete, run, aiScores, baseline, history>>

\* Mutant: store_calibration_baseline relies on the flag that was read before.
UpdateRun_Unchecked(q) ==
    /\ At(q, "update")
    /\ run' = [run EXCEPT ![Run(q)].passed = Passes(request[q].report)]
    /\ IF request[q].approving THEN Goto(q, "count") ELSE Done(q)
    /\ UNCHANGED <<gradingComplete, aiScores, baseline, history>>

\* The verdict is written to the run; store_calibration_baseline raises unless it is positive.
UpdateRun(q) ==
    /\ At(q, "update")
    /\ run' = [run EXCEPT ![Run(q)].passed = Passes(request[q].report)]
    /\ IF request[q].approving /\ Passes(request[q].report) THEN Goto(q, "count") ELSE Done(q)
    /\ UNCHANGED <<gradingComplete, aiScores, baseline, history>>

\* Mutant: the number of essays in the batch.
ReadCount_Batch(q) ==
    /\ At(q, "count")
    /\ request' = [request EXCEPT ![q].at = "store", ![q].count = Cardinality(batch[Run(q)])]
    /\ UNCHANGED <<gradingComplete, run, aiScores, baseline, history>>

ReadCount(q) ==
    /\ At(q, "count")
    /\ request' = [request EXCEPT ![q].at = "store", ![q].count = run[Run(q)].essaysScored]
    /\ UNCHANGED <<gradingComplete, run, aiScores, baseline, history>>

\* calibration_version is UNIQUE, and always v1.0-launch: a second INSERT fails.
InsertBaseline(q) ==
    /\ At(q, "store")
    /\ baseline' = IF baseline.run # NoRun THEN baseline
                   ELSE [run |-> Run(q), evidence |-> request[q].report,
                         settled |-> request[q].settled, essaysCount |-> request[q].count]
    /\ Done(q)
    /\ UNCHANGED <<gradingComplete, run, aiScores, history>>

-----------------------------------------------------------------------------
(* Faults *)

\* A statement outside score_essay fails: the request ends.
StatementFails(q) ==
    /\ request[q].at \notin {"idle", "call", "insert"}
    /\ Done(q)
    /\ UNCHANGED <<gradingComplete, run, aiScores, baseline, history>>

Crash ==
    /\ \E q \in Requests : ~At(q, "idle")
    /\ request' = [q \in Requests |-> Idle]
    /\ UNCHANGED <<gradingComplete, run, aiScores, baseline, history>>

-----------------------------------------------------------------------------

\* What a request does of itself, once it is under way.
Step(q) ==
    \/ FetchPending(q) \/ RetryInvalid(q) \/ Progress(q) \/ Complete(q)
    \/ \E a \in Answers : ProviderAnswers(q, a)
    \/ \E e \in Essays : ProviderFails(q, e) \/ InsertScore(q, e) \/ InsertFails(q, e)
    \/ CheckPassed(q) \/ SelectPairs(q) \/ UpdateRun(q) \/ ReadCount(q) \/ InsertBaseline(q)
    \/ StatementFails(q)

Next ==
    \/ \E e \in Essays : GradingCompletes(e)
    \/ \E q \in Requests, r \in Runs : StartRun(q, r) \/ Correlate(q, r) \/ StoreBaseline(q, r)
    \/ \E q \in Requests : Step(q)
    \/ Crash

Spec == Init /\ [][Next]_vars

FairSpec == Spec /\ \A q \in Requests : WF_vars(Step(q))

-----------------------------------------------------------------------------
(* Properties *)

Prefix(report, scores) ==
    Len(report) <= Len(scores) /\ \A k \in DOMAIN report : report[k] = scores[k]

\* "One row per essay per calibration run" (001 schema, 128), which no index enforces: neither a
\* second attempt nor a second request scores an essay of a run twice.
ScoredOnce ==
    \A r \in Runs : \A j, k \in DOMAIN aiScores[r] :
        aiScores[r][j].essay = aiScores[r][k].essay => j = k

\* essays_scored is the number of scores the run has, behind by one at most, and not behind
\* once the run is completed, whatever failed on the way.
ProgressTracksRows ==
    \A r \in Runs :
        /\ Len(aiScores[r]) - run[r].essaysScored \in {0, 1}
        /\ run[r].state = "completed" => run[r].essaysScored = Len(aiScores[r])

\* A completed run has tried every essay of its batch: each has a score or has failed, not both.
CompletedIsTried ==
    \A r \in Runs :
        run[r].state = "completed" =>
            /\ batch[r] = Scored(r) \cup failedOn[r]
            /\ Scored(r) \cap failedOn[r] = {}

\* A positive verdict on a run, and the baseline, rest on scores of that run that did pass, even
\* when others were inserted, or other verdicts written, in the meantime.
VerdictsHaveEvidence ==
    /\ \A r \in Runs :
         run[r].passed => \E n \in 2..Len(aiScores[r]) : Passes(SubSeq(aiScores[r], 1, n))
    /\ baseline.run # NoRun =>
         /\ Passes(baseline.evidence)
         /\ Prefix(baseline.evidence, aiScores[baseline.run])

\* The number of essays that learners are shown with the baseline ("calibrated against N essays",
\* 001 schema, 251) is the number its correlation was computed from, if the run had been completed
\* by then; the two are read by different statements.
CountMatchesEvidence ==
    baseline.settled => baseline.essaysCount = Len(baseline.evidence)

\* Every request ends, whatever the provider answers.
RequestsEnd == \A q \in Requests : ~At(q, "idle") ~> At(q, "idle")

\* "Three consecutive failures ... Abort early" (pipeline.py, 297-300): no essay is tried after
\* three that failed in a row.
AbortsAfterThree == \A q \in Requests : At(q, "call") => streak[Run(q)] < ABORT_AFTER
=============================================================================
