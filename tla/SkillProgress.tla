---------------------------- MODULE SkillProgress ----------------------------
(***************************************************************************)
(* What the scores of an essay do to one learner: the validator of the     *)
(* scores (calibration/schemas.py), the CEFR level (writing/cefr.py), the  *)
(* moving average of the skill vector (writing/skill_vector.py) and the    *)
(* readiness snapshots (queue/worker.py), with their roundings.  Learners  *)
(* share none of it.                                                       *)
(*                                                                         *)
(* Numbers are whole: answers of the provider in quarters of a band,       *)
(* scores in half bands, columns of skill_vectors in 0.001 (NUMERIC(4,3)), *)
(* everything that Python rounds to four digits in 0.0001.                 *)
(***************************************************************************)
EXTENDS Integers, Sequences

CONSTANTS
    Essays,
    Slots,     \* executions of process() at once
    Answers,   \* what the provider may answer: quarter bands per score
    NoEssay, NoScores, NoDelta

Rubric == {"task_response", "coherence_cohesion", "lexical_resource",
           "grammatical_range", "overall"}

ASSUME AnswersAssumption == Answers \subseteq [Rubric -> 0..36]
ASSUME NothingAssumption ==
    NoEssay \notin Essays /\ NoScores \notin [Rubric -> 0..18] /\ NoDelta \notin Int

VARIABLES
    scores,     \* writing_sessions.score_*, set together with status 'scored'
    level,      \* writing_sessions.cefr_level
    vector,     \* skill_vectors
    version,    \* skill_vectors.version
    snapshots,  \* readiness_snapshots, oldest first
    step,       \* the next statement of each execution
    local,      \* its local variables
    answer      \* history: what the provider answered for each essay

session == <<scores, level>>
vars == <<session, vector, version, snapshots, step, local, answer>>

Dimensions == {"grammar", "vocabulary", "coherence", "pronunciation", "fluency", "comprehension"}

\* The score that a dimension follows; writing says nothing of the other two.
ScoreOf == [grammar    |-> "grammatical_range",
            vocabulary |-> "lexical_resource",
            coherence  |-> "coherence_cohesion",
            fluency    |-> "overall"]

Vectors == [Dimensions -> 0..1000]

Zero == [d \in Dimensions |-> 0]

-----------------------------------------------------------------------------
(* Numbers *)

\* must_be_half_band_increment: the nearest half band.  Python's round takes the even
\* neighbour of a tie: 6.75 becomes 7.0, and 6.25 becomes 6.0.
HalfBand(quarters) ==
    LET below == quarters \div 2
    IN IF quarters % 2 = 1 /\ below % 2 = 1 THEN below + 1 ELSE below

\* Mutant: 8.0 is still C1.
band_to_cefr_Strict(band) ==
    CASE band >= 17     -> "C2"
      [] band \in 14..16 -> "C1"
      [] band \in 11..13 -> "B2"
      [] band \in 8..10  -> "B1"
      [] band \in 6..7   -> "A2"
      [] OTHER          -> "A1"

band_to_cefr(band) ==
    CASE band >= 17     -> "C2"
      [] band = 16      -> "C1+"
      [] band \in 14..15 -> "C1"
      [] band \in 11..13 -> "B2"
      [] band \in 8..10  -> "B1"
      [] band \in 6..7   -> "A2"
      [] OTHER          -> "A1"

Levels == <<"A1", "A2", "B1", "B2", "C1", "C1+", "C2">>

cefr_to_band_range(cefr) ==
    CASE cefr = "C2"  -> 17..18
      [] cefr = "C1+" -> 16..17
      [] cefr = "C1"  -> 14..15
      [] cefr = "B2"  -> 11..13
      [] cefr = "B1"  -> 8..10
      [] cefr = "A2"  -> 6..7
      [] OTHER        -> 0..5

\* Mutant: percent, as DELF scores are given.
Normalise_Percent(band) == (1000000 * band + 9) \div 18

\* Ninths have no ties.
Normalise(band) == (10000 * band + 9) \div 18

\* Previous value from the column, recent score normalised; fifths have no ties either.
Ema(previous, recent) == (2 * (40 * previous + recent) + 5) \div 10

\* What the column makes of four digits.  The driver passes on the double, which is above
\* or below a tie.
Column(value) ==
    IF value % 10 = 5 THEN {value \div 10, value \div 10 + 1} ELSE {(value + 5) \div 10}

\* Twice the readiness index: weights of 0.25, 0.20 and 0.10.
Weighted(v) ==
    5 * (v.grammar + v.coherence) + 4 * v.vocabulary
    + 2 * (v.pronunciation + v.fluency + v.comprehension)

\* A sum of doubles is on either side of a tie, too.
Half(n) == {n \div 2, (n + 1) \div 2}

-----------------------------------------------------------------------------
Steps == {"idle", "provider", "score", "readVector", "writeVector",
          "readSnapshot", "writeSnapshot"}

Idle == [essay |-> NoEssay, seen |-> Zero, base |-> Zero, ver |-> 0, latest |-> 0, known |-> 0]

Locals == [essay : Essays \cup {NoEssay}, seen : Vectors, base : Vectors, ver : Nat, latest : Nat,
           known : Nat]  \* history: the snapshots there were when it read the latest

\* Columns of four digits, and their differences.
One == 10000
Fractions == 0..One
Differences == -One..One

\* of: the essay; raced: whether another one was written between its two statements.
Snapshot == [of : Essays, index : Fractions, delta : Differences \cup {NoDelta},
             raced : BOOLEAN]

\* Scores are half bands, and the skill vector and the index stay within 0.0 and 1.0.
TypeOK ==
    /\ scores \in [Essays -> [Rubric -> 0..18] \cup {NoScores}]
    /\ level \in [Essays -> {Levels[k] : k \in DOMAIN Levels} \cup {"none"}]
    /\ vector \in Vectors
    /\ version \in Nat
    /\ snapshots \in Seq(Snapshot)
    /\ step \in [Slots -> Steps]
    /\ local \in [Slots -> Locals]
    /\ \A x \in Slots : step[x] # "idle" => local[x].essay \in Essays
    /\ \A x \in Slots : {local[x].latest, local[x].known} \subseteq 0..Len(snapshots)
    /\ answer \in [Essays -> [Rubric -> 0..36]]

\* register_user inserts a vector of zeros.
Init ==
    /\ scores = [e \in Essays |-> NoScores]
    /\ level = [e \in Essays |-> "none"]
    /\ vector = Zero
    /\ version = 0
    /\ snapshots = <<>>
    /\ step = [x \in Slots |-> "idle"]
    /\ local = [x \in Slots |-> Idle]
    /\ answer = [e \in Essays |-> [c \in Rubric |-> 0]]

-----------------------------------------------------------------------------
(* process(), one action per statement *)

At(x, s) == step[x] = s

Goto(x, s) == step' = [step EXCEPT ![x] = s]

Scored(e) == scores[e] # NoScores

\* The session and the vector are read by one SELECT.  Its job is locked by one execution.
Fetch(x, e) ==
    /\ At(x, "idle")
    /\ ~Scored(e)
    /\ \A y \in Slots : local[y].essay # e
    /\ Goto(x, "provider")
    /\ local' = [local EXCEPT ![x] = [Idle EXCEPT !.essay = e, !.seen = vector]]
    /\ UNCHANGED <<session, vector, version, snapshots, answer>>

Evaluate(x, a) ==
    /\ At(x, "provider")
    /\ Goto(x, "score")
    /\ answer' = [answer EXCEPT ![local[x].essay] = a]
    /\ UNCHANGED <<session, vector, version, snapshots, local>>

UpdateSession(x) ==
    LET e == local[x].essay
        validated == [c \in Rubric |-> HalfBand(answer[e][c])]
    IN /\ At(x, "score")
       /\ Goto(x, "readVector")
       /\ scores' = [scores EXCEPT ![e] = validated]
       /\ level' = [level EXCEPT ![e] = band_to_cefr(validated.overall)]
       /\ UNCHANGED <<vector, version, snapshots, local, answer>>

ReadVector(x) ==
    /\ At(x, "readVector")
    /\ Goto(x, "writeVector")
    /\ local' = [local EXCEPT ![x].base = vector, ![x].ver = version]
    /\ UNCHANGED <<session, vector, version, snapshots, answer>>

\* Mutant: UPDATE without the condition on the version.
VersionMatches_Always(x) == version >= local[x].ver

VersionMatches(x) == version = local[x].ver

\* The values that dimension d may get from the execution in slot x.
Updated(x, d) ==
    Column(Ema(local[x].base[d], Normalise(scores[local[x].essay][ScoreOf[d]])))

\* A conflicting update is skipped.
WriteVector(x) ==
    /\ At(x, "writeVector")
    /\ Goto(x, "readSnapshot")
    /\ IF VersionMatches(x)
       THEN /\ \E g \in Updated(x, "grammar"), v \in Updated(x, "vocabulary"),
                  c \in Updated(x, "coherence"), f \in Updated(x, "fluency") :
                 vector' = [vector EXCEPT !.grammar = g, !.vocabulary = v,
                                          !.coherence = c, !.fluency = f]
            /\ version' = version + 1
       ELSE UNCHANGED <<vector, version>>
    /\ UNCHANGED <<session, snapshots, local, answer>>

\* Mutant: the oldest snapshot instead of the latest.
ReadSnapshot_Oldest(x) ==
    /\ At(x, "readSnapshot")
    /\ Goto(x, "writeSnapshot")
    /\ local' = [local EXCEPT ![x].latest = IF snapshots = <<>> THEN 0 ELSE 1,
                                ![x].known = Len(snapshots)]
    /\ UNCHANGED <<session, vector, version, snapshots, answer>>

ReadSnapshot(x) ==
    /\ At(x, "readSnapshot")
    /\ Goto(x, "writeSnapshot")
    /\ local' = [local EXCEPT ![x].latest = Len(snapshots), ![x].known = Len(snapshots)]
    /\ UNCHANGED <<session, vector, version, snapshots, answer>>

\* "if prev": an index of zero counts as none.
Deltas(x, sum) ==
    LET k == local[x].latest
    IN IF k = 0 THEN {NoDelta}
       ELSE IF snapshots[k].index = 0 THEN {NoDelta}
       ELSE Half(sum - 2 * snapshots[k].index)

\* The index is of the vector that Fetch has read, before this essay and others.
WriteSnapshot(x) ==
    LET sum == Weighted(local[x].seen)
    IN /\ At(x, "writeSnapshot")
       /\ Goto(x, "idle")
       /\ \E index \in Half(sum), delta \in Deltas(x, sum) :
            snapshots' = Append(snapshots, [of |-> local[x].essay, index |-> index, delta |-> delta,
                                            raced |-> local[x].known # Len(snapshots)])
       /\ local' = [local EXCEPT ![x] = Idle]
       /\ UNCHANGED <<session, vector, version, answer>>

\* A statement or the provider fails.  The job is tried again if its session is not scored.
Abandon(x) ==
    /\ ~At(x, "idle")
    /\ Goto(x, "idle")
    /\ local' = [local EXCEPT ![x] = Idle]
    /\ UNCHANGED <<session, vector, version, snapshots, answer>>

Next ==
    \E x \in Slots :
        \/ \E e \in Essays : Fetch(x, e)
        \/ \E a \in Answers : Evaluate(x, a)
        \/ UpdateSession(x) \/ ReadVector(x) \/ WriteVector(x)
        \/ ReadSnapshot(x) \/ WriteSnapshot(x) \/ Abandon(x)

Spec == Init /\ [][Next]_vars

-----------------------------------------------------------------------------
(* Properties *)

\* q is between p and the score t, in the units of the column and of the code.
Between(p, q, t) == (p <= q /\ 10 * q <= t) \/ (q <= p /\ t <= 10 * q)

\* A difference of 0.0028 and more is not lost in rounding.
Noticeable(p, t) == 10 * p + 28 <= t \/ t + 28 <= 10 * p

\* However executions interleave and numbers are rounded, an update takes every dimension of the
\* learner's vector as it is, and not as it was when it was read, towards the score and not past
\* it; it moves unless it is there but for 0.0027; and it leaves speaking and listening alone.
TowardsScore ==
    [][\E x \in Slots :
         /\ At(x, "writeVector")
         /\ \A d \in Dimensions :
              IF d \in DOMAIN ScoreOf
              THEN LET t == Normalise(scores[local[x].essay][ScoreOf[d]])
                   IN /\ Between(vector[d], vector'[d], t)
                      /\ Noticeable(vector[d], t) => vector'[d] # vector[d]
              ELSE vector'[d] = vector[d]]_version

\* Deltas add up to the curve that the indexes draw: each is the difference from the snapshot
\* before, but for a unit of rounding; it is missing after an index of zero, and it may skip
\* snapshots that were written while this one was being computed (_create_readiness_snapshot).
DeltasChain ==
    \A k \in DOMAIN snapshots : k > 1 /\ ~snapshots[k].raced =>
        LET last == snapshots[k - 1].index
        IN IF last = 0 THEN snapshots[k].delta = NoDelta
           ELSE /\ snapshots[k].delta # NoDelta
                /\ snapshots[k].delta - (snapshots[k].index - last) \in -1..1

\* What a poll answers for a score (get_evaluation_result): zero is taken for missing.
Shown(score) == IF score = 0 THEN NoScores ELSE score

Rank(cefr) == CHOOSE k \in DOMAIN Levels : Levels[k] = cefr

\* The band a learner is shown is one nearest to the provider's answer, within the bands of the
\* level that is shown with it, and of two essays the better one has no lower level.
ResultsAgree ==
    \A e \in Essays : Scored(e) =>
        LET band == scores[e].overall
        IN /\ 2 * band - answer[e].overall \in -1..1
           /\ Shown(band) = NoScores \/ Shown(band) \in cefr_to_band_range(level[e])
           /\ \A f \in Essays : Scored(f) /\ band <= scores[f].overall =>
                Rank(level[e]) <= Rank(level[f])
=============================================================================
