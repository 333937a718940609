---------------------------- MODULE WerValidation ----------------------------
(***************************************************************************)
(* ASR validation runs (routers/wer_validation.py, asr_pipeline.py,        *)
(* wer_engine.py): clips are transcribed by the pipeline or submitted one  *)
(* by one, their word error rates are averaged per accent, and a run that  *)
(* passes becomes the baseline.  Requests interleave at their awaits; no   *)
(* statement is in a transaction.                                          *)
(***************************************************************************)
EXTENDS Integers, Sequences, FiniteSetsExt

CONSTANTS
    Runs,
    Accents,
    Samples,
    Accent,      \* accent_target of a sample
    Rates,       \* word error rates a clip may get, in units of 0.0001
    Versions,    \* names of baselines
    Requests,    \* bounds how many are in flight
    MaxResults,  \* bounds the results submitted to a run by hand
    NoRun, NoSample, NoVersion

ASSUME AccentAssumption == Accent \in [Samples -> Accents]
ASSUME RatesAssumption == Rates \subseteq Nat
ASSUME MaxResultsAssumption == MaxResults \in Nat
ASSUME RequestsAssumption == IsFiniteSet(Requests)
ASSUME NoneAssumption == NoRun \notin Runs /\ NoSample \notin Samples /\ NoVersion \notin Versions

VARIABLES
    targets,      \* accent_targets of a run, empty before it is created
    results,      \* its wer_transcription_results, oldest first
    clipsScored,
    passed,       \* passed_threshold
    baseline,     \* wer_baseline by version
    request,      \* per request: the statement it is at, and its local variables
    uncounted,    \* history: results of a run whose counter update failed
    contended     \* history: clips of a run that two requests meant to transcribe

runVars == <<targets, results, clipsScored, passed>>
history == <<uncounted, contended>>
vars == <<runVars, baseline, request, history>>

WER_THRESHOLD == 1000

Result == [sample : Samples, wer : Rates]

Steps == {"idle", "next", "insert", "count", "passed", "select", "update", "clips", "store"}

Idle == [at |-> "idle", run |-> NoRun, todo |-> {}, sample |-> NoSample, wer |-> 0,
         report |-> << >>, version |-> NoVersion, clips |-> 0]

RequestType ==
    [at : Steps, run : Runs \cup {NoRun}, todo : SUBSET Samples,
     sample : Samples \cup {NoSample}, wer : Nat, report : Seq(Result),
     version : Versions \cup {NoVersion}, clips : Nat]

\* What a request has at hand for the statement it is at.
RequestOK(q) ==
    /\ q.at # "idle" => q.run \in Runs
    /\ q.at = "insert" => q.sample \in Samples /\ q.wer \in Rates
    /\ q.at \in {"passed", "clips", "store"} => q.version \in Versions

NoBaseline == [run |-> NoRun, clips |-> 0, evidence |-> << >>]

\* The columns wer_* of a baseline are the means of its evidence.
Baseline == [run : Runs \cup {NoRun}, clips : Nat, evidence : Seq(Result)]

\* Every variable has its type, and a request has what its statement needs.
TypeOK ==
    /\ targets \in [Runs -> SUBSET Accents]
    /\ results \in [Runs -> Seq(Result)]
    /\ clipsScored \in [Runs -> Nat]
    /\ passed \in [Runs -> BOOLEAN]
    /\ baseline \in [Versions -> Baseline]
    /\ request \in [Requests -> RequestType]
    /\ \A q \in Requests : RequestOK(request[q])
    /\ uncounted \in [Runs -> Nat]
    /\ contended \in [Runs -> SUBSET Samples]

Init ==
    /\ targets = [r \in Runs |-> {}]
    /\ results = [r \in Runs |-> << >>]
    /\ clipsScored = [r \in Runs |-> 0]
    /\ passed = [r \in Runs |-> FALSE]
    /\ baseline = [v \in Versions |-> NoBaseline]
    /\ request = [q \in Requests |-> Idle]
    /\ uncounted = [r \in Runs |-> 0]
    /\ contended = [r \in Runs |-> {}]

-----------------------------------------------------------------------------
(* Requests *)

At(q, step) == request[q].at = step

Run(q) == request[q].run

Goto(q, step) == request' = [request EXCEPT ![q].at = step]

Done(q) == request' = [request EXCEPT ![q] = Idle]

\* The pipeline goes on with the clips that are left; any other request has none, and ends.
Continue(q, left) ==
    IF left = {} THEN Done(q)
    ELSE request' = [request EXCEPT ![q] =
                       [Idle EXCEPT !.at = "next", !.run = Run(q), !.todo = left]]

\* Clips of run r that have a result.
Scored(r) == {results[r][k].sample : k \in DOMAIN results[r]}

\* Clips of run r that a request in flight is going to insert a result for.
Pending(r) ==
    (UNION {request[q].todo : q \in {p \in Requests : Run(p) = r}})
    \cup {request[q].sample : q \in {p \in Requests : Run(p) = r /\ At(p, "insert")}}

-----------------------------------------------------------------------------
(* Creating a run; the pipeline; a result submitted by hand *)

CreateRun(r, accents) ==
    /\ targets[r] = {}
    /\ targets' = [targets EXCEPT ![r] = accents]
    /\ UNCHANGED <<results, clipsScored, passed, baseline, request, history>>

\* Mutant: the clips that have a result are fetched again.
Fetched_Again(r) == {s \in Samples : Accent[s] \in targets[r]}

Fetched(r) == {s \in Samples : Accent[s] \in targets[r] /\ s \notin Scored(r)}

\* The targets of a run do not change, so that reading them and fetching the clips is one step.
Transcribe(q, r) ==
    /\ At(q, "idle")
    /\ targets[r] # {}
    /\ Fetched(r) # {}
    /\ request' = [request EXCEPT ![q] =
                     [Idle EXCEPT !.at = "next", !.run = r, !.todo = Fetched(r)]]
    /\ contended' = [contended EXCEPT ![r] = @ \cup (Fetched(r) \cap Pending(r))]
    /\ UNCHANGED <<runVars, baseline, uncounted>>

\* The provider transcribes the next clip.  The code takes the clips in the order of their ids,
\* the model in any order.
TranscribeClip(q, s, wer) ==
    /\ At(q, "next")
    /\ s \in request[q].todo
    /\ request' = [request EXCEPT ![q].at = "insert", ![q].todo = @ \ {s},
                                  ![q].sample = s, ![q].wer = wer]
    /\ UNCHANGED <<runVars, baseline, history>>

\* The file is missing, or the provider fails: the loop goes on.
SkipClip(q, s) ==
    /\ At(q, "next")
    /\ s \in request[q].todo
    /\ Continue(q, request[q].todo \ {s})
    /\ UNCHANGED <<runVars, baseline, history>>

\* A result submitted for any clip, whether or not the run has one for it already.  MaxResults
\* bounds the model, not the code.
Submit(q, r, s, wer) ==
    /\ At(q, "idle")
    /\ targets[r] # {}
    /\ Len(results[r]) < MaxResults
    /\ request' = [request EXCEPT ![q] =
                     [Idle EXCEPT !.at = "insert", !.run = r, !.sample = s, !.wer = wer]]
    /\ contended' = [contended EXCEPT ![r] = @ \cup {s}]
    /\ UNCHANGED <<runVars, baseline, uncounted>>

InsertResult(q) ==
    /\ At(q, "insert")
    /\ results' = [results EXCEPT ![Run(q)] =
                     Append(@, [sample |-> request[q].sample, wer |-> request[q].wer])]
    /\ Goto(q, "count")
    /\ UNCHANGED <<targets, clipsScored, passed, baseline, history>>

\* Mutant: the counter is set from the number read before.
CountClip_ReadsRows(q) ==
    /\ At(q, "count")
    /\ clipsScored' = [clipsScored EXCEPT ![Run(q)] = Len(results[Run(q)])]
    /\ Continue(q, request[q].todo)
    /\ UNCHANGED <<targets, results, passed, baseline, history>>

CountClip(q) ==
    /\ At(q, "count")
    /\ clipsScored' = [clipsScored EXCEPT ![Run(q)] = @ + 1]
    /\ Continue(q, request[q].todo)
    /\ UNCHANGED <<targets, results, passed, baseline, history>>

-----------------------------------------------------------------------------
(* Computing the rates per accent, and the baseline *)

RowsOf(report, a) == {k \in DOMAIN report : Accent[report[k].sample] = a}

Total(report, a) == MapThenSumSet(LAMBDA k : report[k].wer, RowsOf(report, a))

Measured(report) == {Accent[report[k].sample] : k \in DOMAIN report}

\* passed_overall: the mean of every accent that has results is below the threshold.
Passes(report) ==
    \A a \in Measured(report) :
        Total(report, a) < WER_THRESHOLD * Cardinality(RowsOf(report, a))

Compute(q, r) ==
    /\ At(q, "idle")
    /\ targets[r] # {}
    /\ request' = [request EXCEPT ![q] = [Idle EXCEPT !.at = "select", !.run = r]]
    /\ UNCHANGED <<runVars, baseline, history>>

StoreBaseline(q, r, v) ==
    /\ At(q, "idle")
    /\ targets[r] # {}
    /\ request' = [request EXCEPT ![q] =
                     [Idle EXCEPT !.at = "passed", !.run = r, !.version = v]]
    /\ UNCHANGED <<runVars, baseline, history>>

CheckPassed(q) ==
    /\ At(q, "passed")
    /\ IF passed[Run(q)] THEN Goto(q, "select") ELSE Done(q)
    /\ UNCHANGED <<runVars, baseline, history>>

\* Without results, compute_run_wer raises.
SelectResults(q) ==
    /\ At(q, "select")
    /\ IF results[Run(q)] = << >> THEN Done(q)
       ELSE request' = [request EXCEPT ![q].at = "update", ![q].report = results[Run(q)]]
    /\ UNCHANGED <<runVars, baseline, history>>

\* Mutant: every computation that passes ends in a baseline.
UpdateRun_Always(q) ==
    LET report == request[q].report IN
    /\ At(q, "update")
    /\ passed' = [passed EXCEPT ![Run(q)] = Passes(report)]
    /\ IF Passes(report) THEN Goto(q, "clips") ELSE Done(q)
    /\ UNCHANGED <<targets, results, clipsScored, baseline, history>>

\* Mutant: store_wer_baseline relies on the flag that was read before.
UpdateRun_Unchecked(q) ==
    LET report == request[q].report IN
    /\ At(q, "update")
    /\ passed' = [passed EXCEPT ![Run(q)] = Passes(report)]
    /\ IF request[q].version # NoVersion THEN Goto(q, "clips") ELSE Done(q)
    /\ UNCHANGED <<targets, results, clipsScored, baseline, history>>

\* The verdict is written to the run, and store_wer_baseline raises unless it is positive.
UpdateRun(q) ==
    LET report == request[q].report IN
    /\ At(q, "update")
    /\ passed' = [passed EXCEPT ![Run(q)] = Passes(report)]
    /\ IF request[q].version # NoVersion /\ Passes(report) THEN Goto(q, "clips") ELSE Done(q)
    /\ UNCHANGED <<targets, results, clipsScored, baseline, history>>

ReadClips(q) ==
    /\ At(q, "clips")
    /\ request' = [request EXCEPT ![q].at = "store", ![q].clips = clipsScored[Run(q)]]
    /\ UNCHANGED <<runVars, baseline, history>>

\* validation_version is UNIQUE: the second INSERT fails.
InsertBaseline(q) ==
    LET v == request[q].version
        report == request[q].report
    IN
    /\ At(q, "store")
    /\ baseline' = IF baseline[v].run # NoRun THEN baseline
                   ELSE [baseline EXCEPT ![v] =
                           [run |-> Run(q), clips |-> request[q].clips, evidence |-> report]]
    /\ Done(q)
    /\ UNCHANGED <<runVars, history>>

-----------------------------------------------------------------------------
(* Faults *)

\* Requests that have inserted a result of run r and not yet counted it.
Counting(r) == {q \in Requests : At(q, "count") /\ Run(q) = r}

\* A statement fails.  The pipeline catches that and goes on with the next clip; any other
\* request ends.
StatementFails(q) ==
    /\ request[q].at \notin {"idle", "next"}
    /\ Continue(q, request[q].todo)
    /\ uncounted' = IF At(q, "count") THEN [uncounted EXCEPT ![Run(q)] = @ + 1] ELSE uncounted
    /\ UNCHANGED <<runVars, baseline, contended>>

\* The process dies, and all requests with it.
Crash ==
    /\ request' = [q \in Requests |-> Idle]
    /\ uncounted' = [r \in Runs |-> uncounted[r] + Cardinality(Counting(r))]
    /\ UNCHANGED <<runVars, baseline, contended>>

Next ==
    \/ \E r \in Runs, accents \in SUBSET Accents \ {{}} : CreateRun(r, accents)
    \/ \E q \in Requests, r \in Runs : Transcribe(q, r) \/ Compute(q, r)
    \/ \E q \in Requests, s \in Samples : SkipClip(q, s)
    \/ \E q \in Requests, s \in Samples, wer \in Rates : TranscribeClip(q, s, wer)
    \/ \E q \in Requests, r \in Runs, s \in Samples, wer \in Rates : Submit(q, r, s, wer)
    \/ \E q \in Requests, r \in Runs, v \in Versions : StoreBaseline(q, r, v)
    \/ \E q \in Requests :
          \/ InsertResult(q)
          \/ CountClip(q)
          \/ CheckPassed(q)
          \/ SelectResults(q)
          \/ UpdateRun(q)
          \/ ReadClips(q)
          \/ InsertBaseline(q)
          \/ StatementFails(q)
    \/ Crash

Spec == Init /\ [][Next]_vars

-----------------------------------------------------------------------------
(* Properties *)

\* clips_scored is the number of results, less those being counted and those whose counter
\* update failed: concurrent requests lose no increment.
CounterTracksRows ==
    \A r \in Runs :
        clipsScored[r] + Cardinality(Counting(r)) + uncounted[r] = Len(results[r])

\* A pipeline that is started again after a failure leaves out what is done: a run has two
\* results of a clip only if another request meant to insert one at the same time, or if it was
\* submitted by hand.
ClipsCountOnce ==
    \A r \in Runs : \A j, k \in DOMAIN results[r] :
        results[r][j].sample = results[r][k].sample =>
            j = k \/ results[r][j].sample \in contended[r]

Begins(rows, all) ==
    Len(rows) <= Len(all) /\ \A k \in 1 .. Len(rows) : rows[k] = all[k]

\* A baseline rests on results of its run, all the results there were at the time, and every
\* accent among them is below the threshold - although passed_threshold, which the request looks
\* at first, may be out of date by then (store_wer_baseline).
BaselineHasEvidence ==
    \A v \in Versions : baseline[v].run # NoRun =>
        /\ baseline[v].evidence # << >>
        /\ Begins(baseline[v].evidence, results[baseline[v].run])
        /\ Passes(baseline[v].evidence)

\* "Only callable when all accent targets have passed threshold" (store_wer_baseline): a baseline
\* has measured every accent that its run targets.
BaselineCoversTargets ==
    \A v \in Versions : baseline[v].run # NoRun =>
        targets[baseline[v].run] \subseteq Measured(baseline[v].evidence)
=============================================================================
