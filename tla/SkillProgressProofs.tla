------------------------- MODULE SkillProgressProofs -------------------------
(***************************************************************************)
(* Theorems about SkillProgress, for any essays, any number of executions  *)
(* at once and any answers of the provider.                                *)
(***************************************************************************)
EXTENDS SkillProgress, TLAPS

-----------------------------------------------------------------------------
(* Numbers *)

LEMMA HalfBandNearest ==
  ASSUME NEW q \in 0..36
  PROVE  HalfBand(q) \in 0..18 /\ 2 * HalfBand(q) - q \in -1..1
  BY DEF HalfBand

\* Three digits and sums of weighted dimensions: the steps below do not expand them, nor One.
Columns == 0..1000
Sums == {x \in Int : 0 <= x /\ x <= 20000}

LEMMA InRange ==
  ASSUME NEW low \in Int, NEW high \in Int, NEW x \in Int, low <= x, x <= high
  PROVE  x \in low..high
  OBVIOUS

LEMMA NormaliseBounds ==
  ASSUME NEW b \in 0..18
  PROVE  Normalise(b) \in Fractions
  BY DEF Normalise, Fractions, One

\* A fifth of the way, rounded.
LEMMA DivTen ==
  ASSUME NEW n \in Int
  PROVE  n \div 10 \in Int /\ 10 * (n \div 10) <= n /\ n < 10 * (n \div 10) + 10
  OBVIOUS

LEMMA ColumnRounds ==
  ASSUME NEW v \in Int, NEW c \in Column(v)
  PROVE  c \in Int /\ 10 * c <= v + 5 /\ v <= 10 * c + 5
<1>1. CASE v % 10 = 5
  <2>1. v = 10 * (v \div 10) + 5
    BY <1>1
  <2> QED
    BY <1>1, <2>1, DivTen DEF Column
<1>2. CASE v % 10 # 5
  <2>1. c = (v + 5) \div 10
    BY <1>2 DEF Column
  <2>2. v + 5 \in Int
    OBVIOUS
  <2> QED
    BY <2>1, <2>2, DivTen
<1> QED
  BY <1>1, <1>2

\* A fifth of the way and two roundings: towards the score, never past it, and not nowhere.
Towards(p, q, t) == Between(p, q, t) /\ (Noticeable(p, t) => q # p)

LEMMA StepTowards ==
  ASSUME NEW p \in Columns, NEW t \in Fractions, NEW q \in Column(Ema(p, t))
  PROVE  q \in Columns /\ Towards(p, q, t)
<1> DEFINE v == Ema(p, t)
<1>0. p \in 0..1000 /\ t \in 0..10000
  BY DEF Fractions, Columns, One
<1>1. 80 * p + 2 * t + 5 \in Int /\ v = (80 * p + 2 * t + 5) \div 10
  BY <1>0 DEF Ema
<1>2. v \in Int /\ 10 * v <= 80 * p + 2 * t + 5 /\ 80 * p + 2 * t + 5 < 10 * v + 10
  BY <1>1, DivTen
<1> HIDE DEF v
<1>3. q \in Int /\ 10 * q <= v + 5 /\ v <= 10 * q + 5
  BY <1>2, ColumnRounds DEF v
<1>4. p \in Int /\ t \in Int /\ p >= 0 /\ p <= 1000 /\ t >= 0 /\ t <= 10000
  BY ONLY <1>0
<1>5. q >= 0 /\ q <= 1000
  BY ONLY <1>2, <1>3, <1>4, SMTT(60)
<1>6. q \in Columns
  BY ONLY <1>3, <1>5 DEF Columns
<1>7. Between(p, q, t)
  BY ONLY <1>2, <1>3, <1>4, SMTT(60) DEF Between
<1>8. Noticeable(p, t) => q # p
  BY ONLY <1>2, <1>3, <1>4, SMTT(60) DEF Noticeable
<1> QED
  BY ONLY <1>6, <1>7, <1>8 DEF Towards

LEMMA HalfBounds ==
  ASSUME NEW n \in Int, NEW h \in Half(n)
  PROVE  h \in Int /\ 2 * h - n \in -1..1
  BY DEF Half

LEMMA ColumnBounds ==
  ASSUME NEW x \in Columns
  PROVE  x \in Int /\ 0 <= x /\ x <= 1000
  BY DEF Columns

LEMMA SumBounds ==
  ASSUME NEW g \in Columns, NEW o \in Columns, NEW w \in Columns,
         NEW p \in Columns, NEW f \in Columns, NEW c \in Columns
  PROVE  5 * (g + o) + 4 * w + 2 * (p + f + c) \in Sums
<1>1. g \in Int /\ o \in Int /\ w \in Int /\ p \in Int /\ f \in Int /\ c \in Int
  BY ColumnBounds
<1>2. 0 <= g /\ 0 <= o /\ 0 <= w /\ 0 <= p /\ 0 <= f /\ 0 <= c
  BY ColumnBounds
<1>3. g <= 1000 /\ o <= 1000 /\ w <= 1000 /\ p <= 1000 /\ f <= 1000 /\ c <= 1000
  BY ColumnBounds
<1> QED
  BY <1>1, <1>2, <1>3 DEF Sums

LEMMA WeightedBounds ==
  ASSUME NEW v \in Vectors
  PROVE  Weighted(v) \in Sums
<1>1. \A d \in Dimensions : v[d] \in Columns
  BY DEF Vectors, Columns
<1>2. /\ v.grammar \in Columns /\ v.vocabulary \in Columns /\ v.coherence \in Columns
      /\ v.pronunciation \in Columns /\ v.fluency \in Columns /\ v.comprehension \in Columns
  BY <1>1 DEF Dimensions
<1> QED
  BY ONLY <1>2, SumBounds DEF Weighted

LEMMA LevelOfBand ==
  ASSUME NEW b \in 0..18
  PROVE  band_to_cefr(b) \in {Levels[k] : k \in DOMAIN Levels}
<1>1. {Levels[k] : k \in DOMAIN Levels} = {"A1", "A2", "B1", "B2", "C1", "C1+", "C2"}
  <2>1. DOMAIN Levels = 1..7
    BY DEF Levels
  <2>2. /\ Levels[1] = "A1" /\ Levels[2] = "A2" /\ Levels[3] = "B1" /\ Levels[4] = "B2"
        /\ Levels[5] = "C1" /\ Levels[6] = "C1+" /\ Levels[7] = "C2"
    BY DEF Levels
  <2>3. 1..7 = {1, 2, 3, 4, 5, 6, 7}
    OBVIOUS
  <2> QED
    BY <2>1, <2>2, <2>3
<1>2. band_to_cefr(b) \in {"A1", "A2", "B1", "B2", "C1", "C1+", "C2"}
  BY DEF band_to_cefr
<1> QED
  BY <1>1, <1>2

-----------------------------------------------------------------------------
(* Type correctness *)

ScoreSteps == {"readVector", "writeVector", "readSnapshot", "writeSnapshot"}

\* What comes after the UPDATE of the session is about a session that has its scores.
ScoredInv == \A x \in Slots : step[x] \in ScoreSteps => Scored(local[x].essay)

LEMMA ScoresOf ==
  ASSUME TypeOK, ScoredInv, NEW x \in Slots, step[x] \in ScoreSteps, NEW c \in Rubric
  PROVE  local[x].essay \in Essays /\ scores[local[x].essay][c] \in 0..18
<1>1. local[x].essay \in Essays
  BY DEF TypeOK, ScoreSteps
<1>2. scores[local[x].essay] \in [Rubric -> 0..18]
  BY <1>1 DEF TypeOK, ScoredInv, Scored
<1> QED
  BY <1>1, <1>2

\* What the UPDATE may write to a dimension is a value of the column.
LEMMA UpdatedType ==
  ASSUME TypeOK, ScoredInv, NEW x \in Slots, step[x] = "writeVector",
         NEW d \in DOMAIN ScoreOf, NEW q \in Updated(x, d)
  PROVE  /\ d \in Dimensions /\ q \in Columns
         /\ Towards(local[x].base[d], q, Normalise(scores[local[x].essay][ScoreOf[d]]))
<1> DEFINE t == Normalise(scores[local[x].essay][ScoreOf[d]])
<1>1. d \in Dimensions /\ ScoreOf[d] \in Rubric
  <2>1. d \in {"grammar", "vocabulary", "coherence", "fluency"}
    BY DEF ScoreOf
  <2>2. d \in Dimensions
    BY ONLY <2>1 DEF Dimensions
  <2>3. /\ ScoreOf["grammar"] = "grammatical_range" /\ ScoreOf["vocabulary"] = "lexical_resource"
        /\ ScoreOf["coherence"] = "coherence_cohesion" /\ ScoreOf["fluency"] = "overall"
    BY ONLY DEF ScoreOf
  <2>4. ScoreOf[d] \in {"grammatical_range", "lexical_resource", "coherence_cohesion", "overall"}
    BY ONLY <2>1, <2>3
  <2> QED
    BY ONLY <2>2, <2>4 DEF Rubric
<1>2. t \in Fractions
  <2>1. step[x] \in ScoreSteps
    BY DEF ScoreSteps
  <2>2. scores[local[x].essay][ScoreOf[d]] \in 0..18
    BY <1>1, <2>1, ScoresOf
  <2> QED
    BY <2>2, NormaliseBounds
<1>3. local[x].base \in Vectors
  BY DEF TypeOK, Locals
<1>4. local[x].base[d] \in Columns
  BY <1>1, <1>3 DEF Vectors, Columns
<1>5. q \in Column(Ema(local[x].base[d], t))
  BY DEF Updated
<1> DEFINE p == local[x].base[d]
<1>6. p \in Columns /\ q \in Column(Ema(p, t))
  BY <1>4, <1>5
<1> HIDE DEF t, p
<1>7. q \in Columns /\ Towards(p, q, t)
  BY <1>2, <1>6, StepTowards
<1> QED
  BY <1>1, <1>7 DEF t, p

\* The program counter and the local variables after a statement of the execution in slot x.
Moves(x, s, l) ==
    /\ step' = [step EXCEPT ![x] = s]
    /\ local' = [local EXCEPT ![x] = l]

LocalsOK(s, l) ==
    /\ s \in Steps /\ l \in Locals
    /\ s # "idle" => l.essay \in Essays
    /\ l.latest \in 0..Len(snapshots) /\ l.known \in 0..Len(snapshots)

\* The part of the type invariant that is about the executions.
ExecutionsOK ==
    /\ step \in [Slots -> Steps]
    /\ local \in [Slots -> Locals]
    /\ \A x \in Slots : step[x] # "idle" => local[x].essay \in Essays
    /\ \A x \in Slots : {local[x].latest, local[x].known} \subseteq 0..Len(snapshots)

LEMMA MovesOK ==
  ASSUME TypeOK, NEW x \in Slots, NEW s, NEW l, LocalsOK(s, l), Moves(x, s, l),
         Len(snapshots') \in Nat, Len(snapshots) <= Len(snapshots')
  PROVE  ExecutionsOK'
<1>1. s \in Steps /\ l \in Locals
  BY DEF LocalsOK
<1>2. step' \in [Slots -> Steps]
  BY <1>1 DEF TypeOK, Moves
<1>3. local' \in [Slots -> Locals]
  BY <1>1 DEF TypeOK, Moves
<1>4. \A y \in Slots : /\ step'[y] = (IF y = x THEN s ELSE step[y])
                        /\ local'[y] = (IF y = x THEN l ELSE local[y])
  <2>1. step \in [Slots -> Steps] /\ local \in [Slots -> Locals]
    BY DEF TypeOK
  <2>2. step' = [step EXCEPT ![x] = s] /\ local' = [local EXCEPT ![x] = l]
    BY DEF Moves
  <2> QED
    BY ONLY <2>1, <2>2
<1>5. \A y \in Slots : step'[y] # "idle" => local'[y].essay \in Essays
  BY <1>4 DEF TypeOK, LocalsOK
<1>6. snapshots \in Seq(Snapshot) /\ Len(snapshots) \in Nat
  BY DEF TypeOK
<1>7. \A y \in Slots : /\ local'[y].latest \in 0..Len(snapshots)
                        /\ local'[y].known \in 0..Len(snapshots)
  BY <1>4 DEF TypeOK, LocalsOK
<1>8. 0..Len(snapshots) \subseteq 0..Len(snapshots')
  BY <1>6
<1> QED
  BY <1>2, <1>3, <1>5, <1>7, <1>8 DEF ExecutionsOK

LEMMA IdleOK ==
  ASSUME TypeOK, NEW l, l = Idle
  PROVE  LocalsOK("idle", l)
<1>1. Zero \in Vectors
  BY DEF Zero, Vectors
<1>2. Len(snapshots) \in Nat
  BY DEF TypeOK
<1> QED
  BY <1>1, <1>2 DEF Idle, LocalsOK, Locals, Steps

\* What each statement does to the two.
LEMMA MovesBy ==
  ASSUME TypeOK, NEW x \in Slots
  PROVE  /\ \A e \in Essays : Fetch(x, e) =>
               Moves(x, "provider", [Idle EXCEPT !.essay = e, !.seen = vector])
         /\ \A a \in Answers : Evaluate(x, a) => Moves(x, "score", local[x])
         /\ UpdateSession(x) => Moves(x, "readVector", local[x])
         /\ ReadVector(x) =>
               Moves(x, "writeVector", [local[x] EXCEPT !.base = vector, !.ver = version])
         /\ WriteVector(x) => Moves(x, "readSnapshot", local[x])
         /\ ReadSnapshot(x) =>
               Moves(x, "writeSnapshot", [local[x] EXCEPT !.latest = Len(snapshots),
                                                          !.known = Len(snapshots)])
         /\ WriteSnapshot(x) => Moves(x, "idle", Idle)
         /\ Abandon(x) => Moves(x, "idle", Idle)
<1>1. local \in [Slots -> Locals]
  BY DEF TypeOK
<1>2. local' = local => local' = [local EXCEPT ![x] = local[x]]
  BY <1>1
<1>3. \A e \in Essays : Fetch(x, e) =>
         Moves(x, "provider", [Idle EXCEPT !.essay = e, !.seen = vector])
  BY DEF Fetch, Goto, Moves
<1>4. \A a \in Answers : Evaluate(x, a) => Moves(x, "score", local[x])
  BY <1>2 DEF Evaluate, Goto, Moves
<1>5. UpdateSession(x) => Moves(x, "readVector", local[x])
  BY <1>2 DEF UpdateSession, Goto, Moves
<1>6. ReadVector(x) =>
         Moves(x, "writeVector", [local[x] EXCEPT !.base = vector, !.ver = version])
  BY <1>1 DEF ReadVector, Goto, Moves
<1>7. WriteVector(x) => Moves(x, "readSnapshot", local[x])
  BY <1>2 DEF WriteVector, Goto, Moves
<1>8. ReadSnapshot(x) =>
         Moves(x, "writeSnapshot", [local[x] EXCEPT !.latest = Len(snapshots),
                                                    !.known = Len(snapshots)])
  BY <1>1 DEF ReadSnapshot, Goto, Moves
<1>9. WriteSnapshot(x) => Moves(x, "idle", Idle)
  BY DEF WriteSnapshot, Goto, Moves
<1>10. Abandon(x) => Moves(x, "idle", Idle)
  BY DEF Abandon, Goto, Moves
<1> QED
  BY <1>3, <1>4, <1>5, <1>6, <1>7, <1>8, <1>9, <1>10

LEMMA LocalOf ==
  ASSUME TypeOK, NEW x \in Slots, step[x] # "idle"
  PROVE  /\ local[x] \in Locals /\ local[x].essay \in Essays
         /\ local[x].latest \in 0..Len(snapshots) /\ local[x].known \in 0..Len(snapshots)
  BY DEF TypeOK

\* Every statement leaves the executions well-typed.
LEMMA ExecutionsStep ==
  ASSUME TypeOK, NEW x \in Slots, Len(snapshots') \in Nat, Len(snapshots) <= Len(snapshots'),
         \/ \E e \in Essays : Fetch(x, e)
         \/ \E a \in Answers : Evaluate(x, a)
         \/ UpdateSession(x) \/ ReadVector(x) \/ WriteVector(x)
         \/ ReadSnapshot(x) \/ WriteSnapshot(x) \/ Abandon(x)
  PROVE  ExecutionsOK'
<1>1. Len(snapshots) \in Nat /\ vector \in Vectors /\ version \in Nat
  BY DEF TypeOK
<1>2. \A s, l : LocalsOK(s, l) /\ Moves(x, s, l) => ExecutionsOK'
  BY MovesOK
<1>3. step[x] # "idle" => \A s \in Steps \ {"idle"} : LocalsOK(s, local[x])
  BY LocalOf DEF LocalsOK
<1>4. CASE \E e \in Essays : Fetch(x, e)
  <2>1. PICK e \in Essays : Fetch(x, e)
    BY <1>4
  <2> DEFINE l == [Idle EXCEPT !.essay = e, !.seen = vector]
  <2>2. LocalsOK("idle", Idle)
    BY IdleOK
  <2>3. LocalsOK("provider", l)
    BY <1>1, <2>2 DEF LocalsOK, Locals, Steps
  <2>4. Moves(x, "provider", l)
    BY <2>1, MovesBy
  <2> QED
    BY <1>2, <2>3, <2>4
<1>5. CASE \E a \in Answers : Evaluate(x, a)
  <2>1. LocalsOK("score", local[x])
    BY <1>3, <1>5, SMTT(30) DEF Evaluate, At, Steps
  <2>2. Moves(x, "score", local[x])
    BY <1>5, MovesBy
  <2> QED
    BY <1>2, <2>1, <2>2
<1>6. CASE UpdateSession(x)
  <2>1. LocalsOK("readVector", local[x])
    BY <1>3, <1>6 DEF UpdateSession, At, Steps
  <2>2. Moves(x, "readVector", local[x])
    BY <1>6, MovesBy
  <2> QED
    BY <1>2, <2>1, <2>2
<1>7. CASE ReadVector(x)
  <2> DEFINE l == [local[x] EXCEPT !.base = vector, !.ver = version]
  <2>1. LocalsOK("writeVector", local[x])
    BY <1>3, <1>7 DEF ReadVector, At, Steps
  <2>2. LocalsOK("writeVector", l)
    BY <1>1, <2>1 DEF LocalsOK, Locals
  <2>3. Moves(x, "writeVector", l)
    BY <1>7, MovesBy
  <2> QED
    BY <1>2, <2>2, <2>3
<1>8. CASE WriteVector(x)
  <2>1. LocalsOK("readSnapshot", local[x])
    BY <1>3, <1>8 DEF WriteVector, At, Steps
  <2>2. Moves(x, "readSnapshot", local[x])
    BY <1>8, MovesBy
  <2> QED
    BY <1>2, <2>1, <2>2
<1>9. CASE ReadSnapshot(x)
  <2> DEFINE l == [local[x] EXCEPT !.latest = Len(snapshots), !.known = Len(snapshots)]
  <2>1. LocalsOK("writeSnapshot", local[x])
    BY <1>3, <1>9 DEF ReadSnapshot, At, Steps
  <2>2. Len(snapshots) \in 0..Len(snapshots)
    BY <1>1
  <2>3. LocalsOK("writeSnapshot", l)
    BY <1>1, <2>1, <2>2 DEF LocalsOK, Locals
  <2>4. Moves(x, "writeSnapshot", l)
    BY <1>9, MovesBy
  <2> QED
    BY <1>2, <2>3, <2>4
<1>10. CASE WriteSnapshot(x) \/ Abandon(x)
  <2>1. LocalsOK("idle", Idle)
    BY IdleOK, SMTT(30)
  <2>2. Moves(x, "idle", Idle)
    BY <1>10, MovesBy
  <2> QED
    BY <1>2, <2>1, <2>2
<1> QED
  BY <1>4, <1>5, <1>6, <1>7, <1>8, <1>9, <1>10

\* The validated scores and the level that go with them.
LEMMA SessionStep ==
  ASSUME TypeOK, NEW x \in Slots, UpdateSession(x)
  PROVE  LET e == local[x].essay
         IN /\ e \in Essays
            /\ scores' = [scores EXCEPT ![e] = [c \in Rubric |-> HalfBand(answer[e][c])]]
            /\ level' = [level EXCEPT ![e] = band_to_cefr(HalfBand(answer[e].overall))]
            /\ [c \in Rubric |-> HalfBand(answer[e][c])] \in [Rubric -> 0..18]
            /\ HalfBand(answer[e].overall) \in 0..18
<1>1. local[x].essay \in Essays
  BY LocalOf DEF UpdateSession, At
<1>2. answer[local[x].essay] \in [Rubric -> 0..36]
  BY <1>1 DEF TypeOK
<1>3. \A c \in Rubric : answer[local[x].essay][c] \in 0..36
  BY ONLY <1>2
<1>4. \A c \in Rubric : HalfBand(answer[local[x].essay][c]) \in 0..18
  BY <1>3, HalfBandNearest
<1>5. "overall" \in Rubric
  BY DEF Rubric
<1>6. [c \in Rubric |-> HalfBand(answer[local[x].essay][c])].overall
        = HalfBand(answer[local[x].essay].overall)
  BY ONLY <1>5
<1> QED
  BY <1>1, <1>4, <1>5, <1>6 DEF UpdateSession

LEMMA SessionOK ==
  ASSUME TypeOK, NEW x \in Slots, UpdateSession(x)
  PROVE  /\ scores' \in [Essays -> [Rubric -> 0..18] \cup {NoScores}]
         /\ level' \in [Essays -> {Levels[k] : k \in DOMAIN Levels} \cup {"none"}]
         /\ \A e \in Essays : Scored(e) \/ e = local[x].essay => Scored(e)'
<1> DEFINE e == local[x].essay
<1> DEFINE validated == [c \in Rubric |-> HalfBand(answer[e][c])]
<1> DEFINE l == band_to_cefr(HalfBand(answer[e].overall))
<1>1. e \in Essays /\ validated \in [Rubric -> 0..18] /\ l \in {Levels[k] : k \in DOMAIN Levels}
  BY SessionStep, LevelOfBand
<1>2. scores' = [scores EXCEPT ![e] = validated] /\ level' = [level EXCEPT ![e] = l]
  BY SessionStep
<1>3. /\ scores \in [Essays -> [Rubric -> 0..18] \cup {NoScores}]
      /\ level \in [Essays -> {Levels[k] : k \in DOMAIN Levels} \cup {"none"}]
  BY DEF TypeOK
<1> HIDE DEF e, validated, l
<1>4. \A f \in Essays : scores'[f] = (IF f = e THEN validated ELSE scores[f])
  BY ONLY <1>1, <1>2, <1>3
<1>5. \A f \in Essays : Scored(f) \/ f = e => Scored(f)'
  BY <1>1, <1>4, NothingAssumption DEF Scored
<1>6. scores' \in [Essays -> [Rubric -> 0..18] \cup {NoScores}]
  BY ONLY <1>1, <1>2, <1>3
<1>7. level' \in [Essays -> {Levels[k] : k \in DOMAIN Levels} \cup {"none"}]
  BY ONLY <1>1, <1>2, <1>3
<1> QED
  BY <1>5, <1>6, <1>7 DEF e

\* An UPDATE that is not skipped takes each of the four dimensions to a value it may get.
LEMMA VectorStep ==
  ASSUME TypeOK, ScoredInv, NEW x \in Slots, WriteVector(x), VersionMatches(x)
  PROVE  /\ version' = version + 1
         /\ vector' \in Vectors
         /\ \A d \in Dimensions : IF d \in DOMAIN ScoreOf THEN vector'[d] \in Updated(x, d)
                                  ELSE vector'[d] = vector[d]
<1>1. PICK g \in Updated(x, "grammar"), v \in Updated(x, "vocabulary"),
           c \in Updated(x, "coherence"), f \in Updated(x, "fluency") :
             vector' = [vector EXCEPT !.grammar = g, !.vocabulary = v,
                                      !.coherence = c, !.fluency = f]
  BY DEF WriteVector
<1>2. DOMAIN ScoreOf = {"grammar", "vocabulary", "coherence", "fluency"}
  BY DEF ScoreOf
<1>3. step[x] = "writeVector"
  BY DEF WriteVector, At
<1>4. g \in Columns /\ v \in Columns /\ c \in Columns /\ f \in Columns
  <2>1. "grammar" \in DOMAIN ScoreOf /\ "vocabulary" \in DOMAIN ScoreOf
    BY <1>2
  <2>2. "coherence" \in DOMAIN ScoreOf /\ "fluency" \in DOMAIN ScoreOf
    BY <1>2
  <2>3. g \in Columns
    BY <1>1, <1>3, <2>1, UpdatedType
  <2>4. v \in Columns
    BY <1>1, <1>3, <2>1, UpdatedType
  <2>5. c \in Columns
    BY <1>1, <1>3, <2>2, UpdatedType
  <2>6. f \in Columns
    BY <1>1, <1>3, <2>2, UpdatedType
  <2> QED
    BY <2>3, <2>4, <2>5, <2>6
<1>5. vector \in [Dimensions -> Columns]
  BY ZenonT(30) DEF TypeOK, Vectors, Columns
<1>6. vector' \in [Dimensions -> Columns]
  BY ONLY <1>1, <1>4, <1>5
<1>7. /\ "grammar" \in Dimensions /\ "vocabulary" \in Dimensions
      /\ "coherence" \in Dimensions /\ "fluency" \in Dimensions
  BY DEF Dimensions
<1>8. /\ vector'["grammar"] = g /\ vector'["vocabulary"] = v
      /\ vector'["coherence"] = c /\ vector'["fluency"] = f
  BY ONLY <1>1, <1>5, <1>7
<1>9. \A d \in Dimensions : d \notin {"grammar", "vocabulary", "coherence", "fluency"}
        => vector'[d] = vector[d]
  BY ONLY <1>1, <1>5
<1>10. \A d \in {"grammar", "vocabulary", "coherence", "fluency"} : vector'[d] \in Updated(x, d)
  BY <1>1, <1>8
<1> QED
  BY <1>2, <1>6, <1>9, <1>10 DEF Vectors, Columns, WriteVector

LEMMA IndexRange ==
  ASSUME NEW sum \in Sums, NEW index \in Half(sum)
  PROVE  index \in Fractions
<1>1. sum \in Int /\ 0 <= sum /\ sum <= 20000
  BY DEF Sums
<1>2. index \in Int /\ 2 * index - sum \in -1..1
  BY <1>1, HalfBounds
<1>3. 0 <= index /\ index <= One /\ One \in Int
  BY <1>1, <1>2 DEF One
<1> QED
  BY ONLY <1>2, <1>3, InRange DEF Fractions

LEMMA DeltaRange ==
  ASSUME NEW sum \in Sums, NEW last \in Fractions, NEW delta \in Half(sum - 2 * last)
  PROVE  delta \in Differences
<1>1. sum \in Int /\ 0 <= sum /\ sum <= 20000
  BY DEF Sums
<1>2. last \in Int /\ 0 <= last /\ last <= 10000
  BY DEF Fractions, One
<1> DEFINE n == sum - 2 * last
<1>3. n \in Int /\ -20000 <= n /\ n <= 20000
  BY <1>1, <1>2
<1> HIDE DEF n
<1>4. delta \in Int /\ 2 * delta - n \in -1..1
  BY <1>3, HalfBounds DEF n
<1>5. /\ -One <= delta /\ delta <= One
      /\ -One \in Int /\ One \in Int
  BY <1>3, <1>4 DEF One
<1> QED
  BY ONLY <1>4, <1>5, InRange DEF Differences

LEMMA SnapshotIndex ==
  ASSUME NEW s \in Snapshot
  PROVE  s.index \in Fractions
  BY DEF Snapshot

LEMMA SnapshotSet ==
  ASSUME NEW e \in Essays, NEW i \in Fractions, NEW d \in Differences \cup {NoDelta},
         NEW r \in BOOLEAN
  PROVE  [of |-> e, index |-> i, delta |-> d, raced |-> r] \in Snapshot
  BY DEF Snapshot

LEMMA SetsOfInt == Fractions \subseteq Int /\ Sums \subseteq Int
  BY DEF Fractions, Sums, One

\* What the INSERT of a snapshot may add.
LEMMA SnapshotStep ==
  ASSUME TypeOK, NEW x \in Slots, WriteSnapshot(x)
  PROVE  \E s \in Snapshot :
           /\ snapshots' = Append(snapshots, s)
           /\ s.index \in Half(Weighted(local[x].seen))
           /\ s.delta \in Deltas(x, Weighted(local[x].seen))
           /\ s.raced = (local[x].known # Len(snapshots))
<1> DEFINE sum == Weighted(local[x].seen)  k == local[x].latest
           raced == (local[x].known # Len(snapshots))
<1>1. PICK index \in Half(sum), delta \in Deltas(x, sum) :
        snapshots' = Append(snapshots, [of |-> local[x].essay, index |-> index, delta |-> delta,
                                        raced |-> raced])
  BY DEF WriteSnapshot
<1>2. local[x].essay \in Essays /\ local[x] \in Locals /\ k \in 0..Len(snapshots)
  <2>1. step[x] # "idle"
    BY DEF WriteSnapshot, At
  <2> QED
    BY <2>1, LocalOf
<1>3. sum \in Sums
  BY <1>2, WeightedBounds DEF Locals
<1> HIDE DEF sum
<1>4. index \in Fractions
  BY <1>1, <1>3, IndexRange
<1>5. delta \in Differences \cup {NoDelta}
  <2>1. CASE delta = NoDelta
    BY <2>1
  <2>2. CASE delta # NoDelta
    <3>1. k # 0 /\ delta \in Half(sum - 2 * snapshots[k].index)
      BY <1>1, <2>2 DEF Deltas
    <3>2. k \in 1..Len(snapshots) /\ snapshots \in Seq(Snapshot)
      BY <1>2, <3>1 DEF TypeOK
    <3>3. snapshots[k] \in Snapshot
      BY <3>2
    <3>4. snapshots[k].index \in Fractions
      BY <3>3, SnapshotIndex
    <3> QED
      BY <1>3, <3>1, <3>4, DeltaRange
  <2> QED
    BY <2>1, <2>2
<1>6. raced \in BOOLEAN
  OBVIOUS
<1> HIDE DEF raced
<1> DEFINE s == [of |-> local[x].essay, index |-> index, delta |-> delta, raced |-> raced]
<1>7. s \in Snapshot
  BY <1>2, <1>4, <1>5, <1>6, SnapshotSet
<1>8. s.index = index /\ s.delta = delta /\ s.raced = raced
  OBVIOUS
<1> QED
  BY <1>1, <1>7, <1>8 DEF sum, raced

\* The part that is about what is stored.
StoreOK ==
    /\ scores \in [Essays -> [Rubric -> 0..18] \cup {NoScores}]
    /\ level \in [Essays -> {Levels[k] : k \in DOMAIN Levels} \cup {"none"}]
    /\ vector \in Vectors
    /\ version \in Nat
    /\ snapshots \in Seq(Snapshot)
    /\ answer \in [Essays -> [Rubric -> 0..36]]

LEMMA TypeParts == TypeOK <=> StoreOK /\ ExecutionsOK
  BY DEF TypeOK, StoreOK, ExecutionsOK

LEMMA AppendOK ==
  ASSUME NEW S, NEW q \in Seq(S), NEW s \in S
  PROVE  /\ Append(q, s) \in Seq(S)
         /\ Len(Append(q, s)) = Len(q) + 1 /\ Len(q) \in Nat
         /\ \A k \in 1..Len(q) : Append(q, s)[k] = q[k]
         /\ Append(q, s)[Len(q) + 1] = s
  OBVIOUS

LEMMA StoreStep ==
  ASSUME TypeOK, ScoredInv, NEW x \in Slots,
         \/ \E e \in Essays : Fetch(x, e)
         \/ \E a \in Answers : Evaluate(x, a)
         \/ UpdateSession(x) \/ ReadVector(x) \/ WriteVector(x)
         \/ ReadSnapshot(x) \/ WriteSnapshot(x) \/ Abandon(x)
  PROVE  StoreOK' /\ Len(snapshots') \in Nat /\ Len(snapshots) <= Len(snapshots')
<1>1. StoreOK /\ Len(snapshots) \in Nat
  BY DEF TypeOK, StoreOK
<1>2. CASE \/ \E e \in Essays : Fetch(x, e)
           \/ ReadVector(x) \/ ReadSnapshot(x) \/ Abandon(x)
  <2>1. UNCHANGED <<scores, level, vector, version, snapshots, answer>>
    BY <1>2 DEF Fetch, ReadVector, ReadSnapshot, Abandon, session
  <2> QED
    BY <1>1, <2>1 DEF StoreOK
<1>3. CASE \E a \in Answers : Evaluate(x, a)
  <2>1. PICK a \in Answers : Evaluate(x, a)
    BY <1>3
  <2>2. a \in [Rubric -> 0..36]
    BY AnswersAssumption
  <2>3. answer' = [answer EXCEPT ![local[x].essay] = a]
    BY <2>1 DEF Evaluate
  <2>4. answer' \in [Essays -> [Rubric -> 0..36]]
    BY <1>1, <2>2, <2>3 DEF StoreOK
  <2>5. UNCHANGED <<scores, level, vector, version, snapshots>>
    BY <2>1 DEF Evaluate, session
  <2> QED
    BY <1>1, <2>4, <2>5 DEF StoreOK
<1>4. CASE UpdateSession(x)
  <2>1. UNCHANGED <<vector, version, snapshots, answer>>
    BY <1>4 DEF UpdateSession
  <2>2. /\ scores' \in [Essays -> [Rubric -> 0..18] \cup {NoScores}]
        /\ level' \in [Essays -> {Levels[k] : k \in DOMAIN Levels} \cup {"none"}]
    BY <1>4, SessionOK
  <2> QED
    BY <1>1, <2>1, <2>2 DEF StoreOK
<1>5. CASE WriteVector(x)
  <2>1. UNCHANGED <<scores, level, snapshots, answer>>
    BY <1>5 DEF WriteVector, session
  <2>2. CASE VersionMatches(x)
    <3>1. vector' \in Vectors /\ version' = version + 1
      BY <1>5, <2>2, VectorStep
    <3> QED
      BY <1>1, <2>1, <3>1 DEF StoreOK
  <2>3. CASE ~VersionMatches(x)
    <3>1. UNCHANGED <<vector, version>>
      BY <1>5, <2>3 DEF WriteVector
    <3> QED
      BY <1>1, <2>1, <3>1 DEF StoreOK
  <2> QED
    BY <2>2, <2>3
<1>6. CASE WriteSnapshot(x)
  <2>1. UNCHANGED <<scores, level, vector, version, answer>>
    BY <1>6 DEF WriteSnapshot, session
  <2>2. PICK s \in Snapshot : snapshots' = Append(snapshots, s)
    BY <1>6, SnapshotStep
  <2>3. snapshots \in Seq(Snapshot)
    BY <1>1 DEF StoreOK
  <2>4. snapshots' \in Seq(Snapshot) /\ Len(snapshots') = Len(snapshots) + 1
    BY <2>2, <2>3, AppendOK
  <2>5. Len(snapshots') \in Nat /\ Len(snapshots) <= Len(snapshots')
    BY <1>1, <2>4
  <2> QED
    BY <1>1, <2>1, <2>4, <2>5 DEF StoreOK
<1> QED
  BY <1>2, <1>3, <1>4, <1>5, <1>6

LEMMA InitType == Init => TypeOK /\ ScoredInv
<1> SUFFICES ASSUME Init PROVE TypeOK /\ ScoredInv
  OBVIOUS
<1>1. Zero \in Vectors
  BY DEF Zero, Vectors
<1>2. 0 \in 0..36 /\ Len(<<>>) = 0 /\ <<>> \in Seq(Snapshot)
  OBVIOUS
<1>3. Idle \in Locals /\ Idle.latest = 0 /\ Idle.known = 0
  BY <1>1 DEF Idle, Locals
<1>4. StoreOK
  BY <1>1, <1>2 DEF Init, StoreOK
<1>5. /\ step = [x \in Slots |-> "idle"] /\ local = [x \in Slots |-> Idle]
      /\ snapshots = <<>>
  BY DEF Init
<1>6. ExecutionsOK
  BY <1>2, <1>3, <1>5 DEF ExecutionsOK, Steps
<1>7. ScoredInv
  BY <1>5 DEF ScoredInv, ScoreSteps
<1> QED
  BY <1>4, <1>6, <1>7, TypeParts

\* Scores stay; so do the essays of the executions that are past them.
LEMMA ScoredStep ==
  ASSUME TypeOK, ScoredInv, NEW x \in Slots,
         \/ \E e \in Essays : Fetch(x, e)
         \/ \E a \in Answers : Evaluate(x, a)
         \/ UpdateSession(x) \/ ReadVector(x) \/ WriteVector(x)
         \/ ReadSnapshot(x) \/ WriteSnapshot(x) \/ Abandon(x)
  PROVE  ScoredInv'
<1>1. \A e \in Essays : Scored(e) => Scored(e)'
  <2>1. CASE UpdateSession(x)
    BY <2>1, SessionOK
  <2>2. CASE ~UpdateSession(x)
    <3>1. scores' = scores
      BY <2>2 DEF Fetch, Evaluate, ReadVector, WriteVector, ReadSnapshot, WriteSnapshot,
                  Abandon, session
    <3> QED
      BY <3>1 DEF Scored
  <2> QED
    BY <2>1, <2>2
<1>2. PICK s, l : Moves(x, s, l)
  BY MovesBy
<1>3. \A y \in Slots : y # x => step'[y] = step[y] /\ local'[y] = local[y]
  BY <1>2 DEF Moves, TypeOK
<1>4. \A y \in Slots : y # x /\ step'[y] \in ScoreSteps => Scored(local[y].essay)'
  <2> SUFFICES ASSUME NEW y \in Slots, y # x, step'[y] \in ScoreSteps
               PROVE  Scored(local[y].essay)'
    OBVIOUS
  <2>1. step[y] \in ScoreSteps /\ local'[y].essay = local[y].essay
    BY <1>3
  <2>2. local[y].essay \in Essays /\ Scored(local[y].essay)
    BY <2>1 DEF ScoredInv, ScoreSteps, TypeOK
  <2> QED
    BY <1>1, <2>1, <2>2 DEF Scored
<1>5. step'[x] \in ScoreSteps => Scored(local[x].essay)'
  <2>1. step \in [Slots -> Steps] /\ local \in [Slots -> Locals]
    BY DEF TypeOK
  <2>2. \A u, m : Moves(x, u, m) => step'[x] = u /\ local'[x] = m
    BY <2>1 DEF Moves
  <2>3. CASE UpdateSession(x)
    <3>1. local'[x] = local[x]
      BY <2>2, <2>3, MovesBy
    <3>2. local[x].essay \in Essays
      BY <2>3, SessionStep
    <3>3. scores'[local[x].essay] # NoScores
      BY <2>3, <3>2, SessionOK DEF Scored
    <3> QED
      BY <3>1, <3>3, SMTT(30) DEF Scored
  <2>4. CASE ReadVector(x) \/ WriteVector(x) \/ ReadSnapshot(x)
    <3>1. step[x] \in ScoreSteps /\ step[x] # "idle"
      BY <2>4 DEF ReadVector, WriteVector, ReadSnapshot, At, ScoreSteps
    <3>2. local[x].essay \in Essays /\ Scored(local[x].essay) /\ local[x] \in Locals
      BY <3>1, LocalOf DEF ScoredInv
    <3>3. local'[x].essay = local[x].essay
      <4>1. /\ ReadVector(x) => local'[x] = [local[x] EXCEPT !.base = vector, !.ver = version]
            /\ WriteVector(x) => local'[x] = local[x]
            /\ ReadSnapshot(x) => local'[x] = [local[x] EXCEPT !.latest = Len(snapshots),
                                                               !.known = Len(snapshots)]
        BY <2>2, MovesBy
      <4> QED
        BY <2>4, <3>2, <4>1 DEF Locals
    <3> QED
      BY <1>1, <3>2, <3>3 DEF Scored
  <2>5. CASE \/ \E e \in Essays : Fetch(x, e)
             \/ \E a \in Answers : Evaluate(x, a)
             \/ WriteSnapshot(x) \/ Abandon(x)
    <3>1. step'[x] \in {"provider", "score", "idle"}
      BY <2>2, <2>5, MovesBy
    <3> QED
      BY <3>1 DEF ScoreSteps
  <2> QED
    BY <2>3, <2>4, <2>5
<1> QED
  BY <1>4, <1>5 DEF ScoredInv, Scored

LEMMA TypeStep == TypeOK /\ ScoredInv /\ [Next]_vars => TypeOK' /\ ScoredInv'
<1> SUFFICES ASSUME TypeOK, ScoredInv, [Next]_vars PROVE TypeOK' /\ ScoredInv'
  OBVIOUS
<1>1. CASE UNCHANGED vars
  BY <1>1 DEF vars, session, TypeOK, ScoredInv, Scored
<1>2. CASE Next
  <2>1. PICK x \in Slots :
          \/ \E e \in Essays : Fetch(x, e)
          \/ \E a \in Answers : Evaluate(x, a)
          \/ UpdateSession(x) \/ ReadVector(x) \/ WriteVector(x)
          \/ ReadSnapshot(x) \/ WriteSnapshot(x) \/ Abandon(x)
    BY <1>2 DEF Next
  <2>2. StoreOK' /\ Len(snapshots') \in Nat /\ Len(snapshots) <= Len(snapshots')
    BY <2>1, StoreStep
  <2>3. ExecutionsOK'
    BY <2>1, <2>2, ExecutionsStep
  <2>4. TypeOK'
    BY <2>2, <2>3 DEF TypeOK, StoreOK, ExecutionsOK
  <2>5. ScoredInv'
    BY <2>1, ScoredStep
  <2> QED
    BY <2>4, <2>5
<1> QED
  BY <1>1, <1>2

\* However executions interleave, scores are half bands and the vector, the index and its deltas
\* stay in range.
THEOREM TypeCorrect == Spec => []TypeOK
<1>1. Init => TypeOK /\ ScoredInv
  BY InitType
<1>2. TypeOK /\ ScoredInv /\ [Next]_vars => TypeOK' /\ ScoredInv'
  BY TypeStep
<1> QED
  BY <1>1, <1>2, PTL DEF Spec

-----------------------------------------------------------------------------
(* The moving average *)

\* What was read is what there is, if the version is still the one that was read.
VersionInv ==
    \A x \in Slots : step[x] = "writeVector" =>
        local[x].ver <= version /\ (local[x].ver = version => local[x].base = vector)

LEMMA OthersStay ==
  ASSUME TypeOK, NEW x \in Slots, NEW s, NEW l, Moves(x, s, l)
  PROVE  /\ \A y \in Slots : y # x => step'[y] = step[y] /\ local'[y] = local[y]
         /\ step'[x] = s /\ local'[x] = l
<1>1. step \in [Slots -> Steps] /\ local \in [Slots -> Locals]
  BY SMTT(30) DEF TypeOK
<1> QED
  BY <1>1 DEF Moves

\* The statement that each is followed by.
LEMMA Target ==
  ASSUME TypeOK, NEW x \in Slots
  PROVE  /\ (\E e \in Essays : Fetch(x, e)) => step'[x] = "provider"
         /\ (\E a \in Answers : Evaluate(x, a)) => step'[x] = "score"
         /\ UpdateSession(x) => step'[x] = "readVector"
         /\ ReadVector(x) => step'[x] = "writeVector"
         /\ WriteVector(x) => step'[x] = "readSnapshot"
         /\ ReadSnapshot(x) => step'[x] = "writeSnapshot"
         /\ WriteSnapshot(x) \/ Abandon(x) => step'[x] = "idle"
<1>1. \A u, m : Moves(x, u, m) => step'[x] = u
  BY OthersStay
<1> QED
  BY <1>1, MovesBy

LEMMA VersionStep ==
  ASSUME TypeOK, ScoredInv, VersionInv, [Next]_vars
  PROVE  VersionInv'
<1>0. version \in Nat /\ \A y \in Slots : step[y] # "idle" => local[y] \in Locals
  BY DEF TypeOK
<1>1. \A y \in Slots : step[y] # "idle" => local[y].ver \in Nat
  BY <1>0 DEF Locals
<1>2. CASE UNCHANGED vars
  BY <1>2 DEF vars, VersionInv
<1>3. CASE Next
  <2>1. PICK x \in Slots :
          \/ \E e \in Essays : Fetch(x, e)
          \/ \E a \in Answers : Evaluate(x, a)
          \/ UpdateSession(x) \/ ReadVector(x) \/ WriteVector(x)
          \/ ReadSnapshot(x) \/ WriteSnapshot(x) \/ Abandon(x)
    BY <1>3, SMTT(30) DEF Next
  <2>2. PICK s, l : Moves(x, s, l)
    BY <2>1, MovesBy
  <2>3. \A y \in Slots : y # x => step'[y] = step[y] /\ local'[y] = local[y]
    BY <2>2, OthersStay
  <2>0. \A u, m : Moves(x, u, m) => step'[x] = u /\ local'[x] = m
    BY OthersStay
  <2>4. CASE ReadVector(x)
    <3>1. version' = version /\ vector' = vector
      BY <2>4, SMTT(30) DEF ReadVector
    <3>2. local'[x] = [local[x] EXCEPT !.base = vector, !.ver = version]
      BY <2>0, <2>4, MovesBy
    <3>3. local[x] \in Locals
      BY <1>0, <2>4 DEF ReadVector, At
    <3>4. local'[x].ver = version /\ local'[x].base = vector
      BY <3>2, <3>3 DEF Locals
    <3> QED
      BY <1>0, <2>3, <3>1, <3>4 DEF VersionInv
  <2>5. CASE WriteVector(x) /\ VersionMatches(x)
    <3>1. version' = version + 1 /\ step'[x] # "writeVector"
      BY <2>0, <2>5, VectorStep, MovesBy
    <3> QED
      BY <1>0, <1>1, <2>3, <3>1, SMTT(30) DEF VersionInv
  <2>6. CASE ~ReadVector(x) /\ ~(WriteVector(x) /\ VersionMatches(x))
    <3>1. version' = version /\ vector' = vector
      BY <2>1, <2>6 DEF Fetch, Evaluate, UpdateSession, WriteVector, ReadSnapshot, WriteSnapshot,
                        Abandon
    <3>2. step'[x] # "writeVector"
      BY <2>1, <2>6, Target
    <3> QED
      BY <2>3, <3>1, <3>2 DEF VersionInv
  <2> QED
    BY <2>4, <2>5, <2>6
<1> QED
  BY <1>2, <1>3

LEMMA TowardsStep ==
  ASSUME TypeOK, ScoredInv, VersionInv, Next, version' # version
  PROVE  \E x \in Slots :
         /\ At(x, "writeVector")
         /\ \A d \in Dimensions :
              IF d \in DOMAIN ScoreOf
              THEN LET t == Normalise(scores[local[x].essay][ScoreOf[d]])
                   IN /\ Between(vector[d], vector'[d], t)
                      /\ Noticeable(vector[d], t) => vector'[d] # vector[d]
              ELSE vector'[d] = vector[d]
<1>1. PICK x \in Slots : WriteVector(x) /\ VersionMatches(x)
  BY DEF Next, Fetch, Evaluate, UpdateSession, ReadVector, WriteVector, ReadSnapshot,
         WriteSnapshot, Abandon
<1>2. step[x] = "writeVector" /\ At(x, "writeVector")
  BY <1>1 DEF WriteVector, At
<1>3. local[x].base = vector
  BY <1>1, <1>2 DEF VersionInv, VersionMatches
<1>4. \A d \in Dimensions : IF d \in DOMAIN ScoreOf THEN vector'[d] \in Updated(x, d)
                            ELSE vector'[d] = vector[d]
  BY <1>1, VectorStep
<1>5. \A d \in DOMAIN ScoreOf : d \in Dimensions =>
        Towards(vector[d], vector'[d], Normalise(scores[local[x].essay][ScoreOf[d]]))
  BY <1>2, <1>3, <1>4, UpdatedType
<1> QED
  BY <1>2, <1>4, <1>5 DEF Towards

\* An update takes the vector as it is towards the score, whatever happened since it was read.
THEOREM MovesTowardsScore == Spec => TowardsScore
<1>1. Init => TypeOK /\ ScoredInv /\ VersionInv
  BY InitType DEF Init, VersionInv
<1>2. TypeOK /\ ScoredInv /\ VersionInv /\ [Next]_vars => TypeOK' /\ ScoredInv' /\ VersionInv'
  BY TypeStep, VersionStep
<1>3. TypeOK /\ ScoredInv /\ VersionInv /\ [Next]_vars =>
        [\E x \in Slots :
         /\ At(x, "writeVector")
         /\ \A d \in Dimensions :
              IF d \in DOMAIN ScoreOf
              THEN LET t == Normalise(scores[local[x].essay][ScoreOf[d]])
                   IN /\ Between(vector[d], vector'[d], t)
                      /\ Noticeable(vector[d], t) => vector'[d] # vector[d]
              ELSE vector'[d] = vector[d]]_version
  BY TowardsStep DEF vars
<1> QED
  BY <1>1, <1>2, <1>3, PTL DEF Spec, TowardsScore

-----------------------------------------------------------------------------
(* The snapshots *)

\* The latest snapshot that was read is the last that there was.
LatestInv ==
    \A x \in Slots : step[x] = "writeSnapshot" => local[x].latest = local[x].known

\* Three roundings of halves, and the difference is a unit at most.
LEMMA DeltaNear ==
  ASSUME NEW sum \in Int, NEW last \in Int, NEW index \in Half(sum),
         NEW delta \in Half(sum - 2 * last)
  PROVE  delta \in Int /\ delta - (index - last) \in -1..1
<1> DEFINE n == sum - 2 * last
<1>1. n \in Int
  OBVIOUS
<1>2. index \in Int /\ 2 * index - sum \in -1..1
  BY HalfBounds
<1> HIDE DEF n
<1>3. delta \in Int /\ 2 * delta - n \in -1..1
  BY <1>1, HalfBounds DEF n
<1> QED
  BY <1>2, <1>3 DEF n

LEMMA LatestStep ==
  ASSUME TypeOK, LatestInv, [Next]_vars
  PROVE  LatestInv'
<1>1. CASE UNCHANGED vars
  BY <1>1 DEF vars, LatestInv
<1>2. CASE Next
  <2>1. PICK x \in Slots :
          \/ \E e \in Essays : Fetch(x, e)
          \/ \E a \in Answers : Evaluate(x, a)
          \/ UpdateSession(x) \/ ReadVector(x) \/ WriteVector(x)
          \/ ReadSnapshot(x) \/ WriteSnapshot(x) \/ Abandon(x)
    BY <1>2 DEF Next
  <2>2. PICK s, l : Moves(x, s, l)
    BY <2>1, MovesBy
  <2>3. \A y \in Slots : y # x => step'[y] = step[y] /\ local'[y] = local[y]
    BY <2>2, OthersStay
  <2>4. \A u, m : Moves(x, u, m) => step'[x] = u /\ local'[x] = m
    BY OthersStay
  <2>5. step'[x] = "writeSnapshot" => local'[x].latest = local'[x].known
    <3>1. CASE ReadSnapshot(x)
      <4>1. local'[x] = [local[x] EXCEPT !.latest = Len(snapshots), !.known = Len(snapshots)]
        BY <2>4, <3>1, MovesBy
      <4>2. local[x] \in Locals
        BY DEF TypeOK
      <4> QED
        BY <4>1, <4>2, SMTT(30) DEF Locals
    <3>2. CASE ~ReadSnapshot(x)
      BY <2>1, <3>2, Target
    <3> QED
      BY <3>1, <3>2
  <2> QED
    BY <2>3, <2>5, SMTT(30) DEF LatestInv
<1> QED
  BY <1>1, <1>2

LEMMA ChainStep ==
  ASSUME TypeOK, LatestInv, DeltasChain, [Next]_vars
  PROVE  DeltasChain'
<1>1. CASE snapshots' = snapshots
  BY <1>1 DEF DeltasChain
<1>2. CASE snapshots' # snapshots
  <2>1. PICK x \in Slots : WriteSnapshot(x)
    BY <1>2 DEF Next, Fetch, Evaluate, UpdateSession, ReadVector, WriteVector, ReadSnapshot,
                Abandon, vars
  <2>2. PICK s \in Snapshot :
           /\ snapshots' = Append(snapshots, s)
           /\ s.index \in Half(Weighted(local[x].seen))
           /\ s.delta \in Deltas(x, Weighted(local[x].seen))
           /\ s.raced = (local[x].known # Len(snapshots))
    BY <2>1, SnapshotStep
  <2>3. snapshots \in Seq(Snapshot)
    BY DEF TypeOK
  <2>4. /\ Len(snapshots) \in Nat /\ Len(snapshots') = Len(snapshots) + 1
        /\ snapshots' \in Seq(Snapshot)
        /\ \A k \in 1..Len(snapshots) : snapshots'[k] = snapshots[k]
        /\ snapshots'[Len(snapshots) + 1] = s
    BY <2>2, <2>3, AppendOK
  <2>5. DOMAIN snapshots' = 1..(Len(snapshots) + 1) /\ DOMAIN snapshots = 1..Len(snapshots)
    BY <2>3, <2>4
  <2>6. SUFFICES ASSUME NEW k \in DOMAIN snapshots', k > 1, ~snapshots'[k].raced
                 PROVE  IF snapshots'[k - 1].index = 0 THEN snapshots'[k].delta = NoDelta
                        ELSE /\ snapshots'[k].delta # NoDelta
                             /\ snapshots'[k].delta - (snapshots'[k].index - snapshots'[k - 1].index)
                                  \in -1..1
    BY Zenon DEF DeltasChain
  <2>7. k \in 1..(Len(snapshots) + 1)
    BY <2>5
  <2>8. CASE k <= Len(snapshots)
    <3>1. k \in 1..Len(snapshots) /\ k - 1 \in 1..Len(snapshots)
      BY <2>4, <2>6, <2>7, <2>8
    <3>2. snapshots'[k] = snapshots[k] /\ snapshots'[k - 1] = snapshots[k - 1]
      BY <2>4, <3>1
    <3> QED
      BY <2>5, <2>6, <3>1, <3>2 DEF DeltasChain
  <2>9. CASE k = Len(snapshots) + 1
    <3>1. snapshots'[k] = s
      BY <2>4, <2>9
    <3>2. local[x].known = Len(snapshots)
      BY <2>2, <2>6, <3>1
    <3>3. step[x] = "writeSnapshot"
      BY <2>1 DEF WriteSnapshot, At
    <3>4. local[x].latest = Len(snapshots)
      BY <3>2, <3>3 DEF LatestInv
    <3>5. k - 1 = Len(snapshots) /\ k - 1 \in 1..Len(snapshots)
      BY <2>4, <2>6, <2>9
    <3>6. snapshots'[k - 1] = snapshots[Len(snapshots)] /\ snapshots[Len(snapshots)] \in Snapshot
      BY <2>3, <2>4, <3>5
    <3>7. Len(snapshots) # 0
      BY <2>4, <3>5
    <3> DEFINE last == snapshots[Len(snapshots)].index
               sum == Weighted(local[x].seen)
    <3>8. last \in Int /\ sum \in Int
      <4>1. last \in Fractions
        BY <3>6, SnapshotIndex
      <4>2. local[x].seen \in Vectors
        BY DEF TypeOK, Locals
      <4>3. sum \in Sums
        BY <4>2, WeightedBounds
      <4> QED
        BY <4>1, <4>3, SetsOfInt
    <3>9. s.delta \in Deltas(x, sum) /\ s.index \in Half(sum)
      BY <2>2
    <3>10. Deltas(x, sum) = (IF last = 0 THEN {NoDelta} ELSE Half(sum - 2 * last))
      BY <3>4, <3>7 DEF Deltas
    <3> HIDE DEF last, sum
    <3>11. CASE last = 0
      BY <3>1, <3>6, <3>9, <3>10, <3>11 DEF last
    <3>12. CASE last # 0
      <4>1. s.delta \in Half(sum - 2 * last)
        BY <3>9, <3>10, <3>12
      <4>2. s.delta \in Int /\ s.delta - (s.index - last) \in -1..1
        BY <3>8, <3>9, <4>1, DeltaNear
      <4>3. s.delta # NoDelta
        BY <4>2, NothingAssumption
      <4>4. snapshots'[k - 1].index = last
        BY <3>6 DEF last
      <4> QED
        BY <3>1, <3>12, <4>2, <4>3, <4>4
    <3> QED
      BY <3>11, <3>12
  <2> QED
    BY <2>4, <2>7, <2>8, <2>9
<1> QED
  BY <1>1, <1>2

\* A delta that is not raced is the difference of two indexes that follow each other.
THEOREM DeltasAddUp == Spec => []DeltasChain
<1>1. Init => TypeOK /\ ScoredInv /\ LatestInv /\ DeltasChain
  <2>1. Init => DOMAIN snapshots = {}
    BY DEF Init
  <2> QED
    BY <2>1, InitType DEF Init, LatestInv, DeltasChain
<1>2. TypeOK /\ ScoredInv /\ LatestInv /\ DeltasChain /\ [Next]_vars =>
        TypeOK' /\ ScoredInv' /\ LatestInv' /\ DeltasChain'
  BY TypeStep, LatestStep, ChainStep
<1> QED
  BY <1>1, <1>2, PTL DEF Spec

-----------------------------------------------------------------------------
(* The results *)

\* One execution has the lock of a job, and its session is not scored before it scores it.
LockInv ==
    /\ \A x, y \in Slots : x # y /\ local[x].essay # NoEssay => local[x].essay # local[y].essay
    /\ \A x \in Slots : step[x] \in {"provider", "score"} => ~Scored(local[x].essay)

\* Scores and level are what the validator and band_to_cefr make of the answer.
ResultInv ==
    \A e \in Essays : Scored(e) =>
        /\ scores[e].overall = HalfBand(answer[e].overall)
        /\ level[e] = band_to_cefr(scores[e].overall)

\* The position of a level: 1 for A1 to 7 for C2.
Position(band) ==
    IF band >= 17 THEN 7 ELSE IF band >= 16 THEN 6 ELSE IF band >= 14 THEN 5
    ELSE IF band >= 11 THEN 4 ELSE IF band >= 8 THEN 3 ELSE IF band >= 6 THEN 2 ELSE 1

LEMMA LevelPosition ==
  ASSUME NEW b \in 0..18
  PROVE  Position(b) \in 1..7 /\ Levels[Position(b)] = band_to_cefr(b)
<1>1. /\ Levels[1] = "A1" /\ Levels[2] = "A2" /\ Levels[3] = "B1" /\ Levels[4] = "B2"
      /\ Levels[5] = "C1" /\ Levels[6] = "C1+" /\ Levels[7] = "C2"
  BY DEF Levels
<1>2. CASE b >= 17
  BY <1>1, <1>2 DEF Position, band_to_cefr
<1>3. CASE b = 16
  BY <1>1, <1>3 DEF Position, band_to_cefr
<1>4. CASE b \in 14..15
  BY <1>1, <1>4 DEF Position, band_to_cefr
<1>5. CASE b \in 11..13
  BY <1>1, <1>5 DEF Position, band_to_cefr
<1>6. CASE b \in 8..10
  BY <1>1, <1>6 DEF Position, band_to_cefr
<1>7. CASE b \in 6..7
  BY <1>1, <1>7 DEF Position, band_to_cefr
<1>8. CASE b \in 0..5
  BY <1>1, <1>8 DEF Position, band_to_cefr
<1> QED
  BY <1>2, <1>3, <1>4, <1>5, <1>6, <1>7, <1>8

LEMMA RankOfBand ==
  ASSUME NEW b \in 0..18
  PROVE  Rank(band_to_cefr(b)) = Position(b)
<1>1. \A j, k \in 1..7 : Levels[j] = Levels[k] => j = k
  BY DEF Levels
<1>2. DOMAIN Levels = 1..7
  BY DEF Levels
<1>3. Position(b) \in 1..7 /\ Levels[Position(b)] = band_to_cefr(b)
  BY LevelPosition
<1>4. \A k \in 1..7 : Levels[k] = band_to_cefr(b) => k = Position(b)
  BY <1>1, <1>3
<1> QED
  BY <1>2, <1>3, <1>4 DEF Rank

LEMMA PositionMonotone ==
  ASSUME NEW b \in 0..18, NEW c \in 0..18, b <= c
  PROVE  Position(b) <= Position(c)
  BY DEF Position

LEMMA BandInRange ==
  ASSUME NEW b \in 0..18
  PROVE  b \in cefr_to_band_range(band_to_cefr(b))
<1>0. /\ cefr_to_band_range("C2") = 17..18 /\ cefr_to_band_range("C1+") = 16..17
      /\ cefr_to_band_range("C1") = 14..15 /\ cefr_to_band_range("B2") = 11..13
      /\ cefr_to_band_range("B1") = 8..10 /\ cefr_to_band_range("A2") = 6..7
      /\ cefr_to_band_range("A1") = 0..5
  BY DEF cefr_to_band_range
<1>1. CASE b >= 17
  <2>1. band_to_cefr(b) = "C2"
    BY <1>1 DEF band_to_cefr
  <2> QED
    BY <1>0, <1>1, <2>1
<1>2. CASE b = 16
  <2>1. band_to_cefr(b) = "C1+"
    BY <1>2 DEF band_to_cefr
  <2> QED
    BY <1>0, <1>2, <2>1
<1>3. CASE b \in 14..15
  <2>1. band_to_cefr(b) = "C1"
    BY <1>3 DEF band_to_cefr
  <2> QED
    BY <1>0, <1>3, <2>1
<1>4. CASE b \in 11..13
  <2>1. band_to_cefr(b) = "B2"
    BY <1>4 DEF band_to_cefr
  <2> QED
    BY <1>0, <1>4, <2>1
<1>5. CASE b \in 8..10
  <2>1. band_to_cefr(b) = "B1"
    BY <1>5 DEF band_to_cefr
  <2> QED
    BY <1>0, <1>5, <2>1
<1>6. CASE b \in 6..7
  <2>1. band_to_cefr(b) = "A2"
    BY <1>6 DEF band_to_cefr
  <2> QED
    BY <1>0, <1>6, <2>1
<1>7. CASE b \in 0..5
  <2>1. band_to_cefr(b) = "A1"
    BY <1>7 DEF band_to_cefr
  <2> QED
    BY <1>0, <1>7, <2>1
<1> QED
  BY <1>1, <1>2, <1>3, <1>4, <1>5, <1>6, <1>7

\* The essay of the execution in slot x after its statement.
LEMMA EssayOf ==
  ASSUME TypeOK, NEW x \in Slots
  PROVE  /\ \A e \in Essays : Fetch(x, e) => local'[x].essay = e
         /\ \/ \E a \in Answers : Evaluate(x, a)
            \/ UpdateSession(x) \/ ReadVector(x) \/ WriteVector(x) \/ ReadSnapshot(x)
            => local'[x].essay = local[x].essay
         /\ WriteSnapshot(x) \/ Abandon(x) => local'[x].essay = NoEssay
<1>1. \A u, m : Moves(x, u, m) => local'[x] = m
  BY OthersStay
<1>2. local[x] \in Locals
  BY DEF TypeOK
<1>3. ASSUME NEW e \in Essays, Fetch(x, e) PROVE local'[x].essay = e
  <2>1. local'[x] = [Idle EXCEPT !.essay = e, !.seen = vector]
    BY <1>1, <1>3, MovesBy
  <2> QED
    BY <2>1, SMTT(30) DEF Idle
<1>4. ReadVector(x) => local'[x].essay = local[x].essay
  <2>1. ReadVector(x) => local'[x] = [local[x] EXCEPT !.base = vector, !.ver = version]
    BY <1>1, MovesBy
  <2> QED
    BY <1>2, <2>1 DEF Locals
<1>5. ReadSnapshot(x) => local'[x].essay = local[x].essay
  <2>1. ReadSnapshot(x) => local'[x] = [local[x] EXCEPT !.latest = Len(snapshots),
                                                        !.known = Len(snapshots)]
    BY <1>1, MovesBy
  <2> QED
    BY <1>2, <2>1 DEF Locals
<1>6. \A a \in Answers : Evaluate(x, a) => local'[x] = local[x]
  BY <1>1, MovesBy
<1>7. UpdateSession(x) \/ WriteVector(x) => local'[x] = local[x]
  BY <1>1, MovesBy
<1>8. WriteSnapshot(x) \/ Abandon(x) => local'[x] = Idle
  BY <1>1, MovesBy
<1>9. Idle.essay = NoEssay
  BY DEF Idle
<1> QED
  BY <1>3, <1>4, <1>5, <1>6, <1>7, <1>8, <1>9

LEMMA LockStep ==
  ASSUME TypeOK, LockInv, [Next]_vars
  PROVE  LockInv'
<1>1. CASE UNCHANGED vars
  BY <1>1 DEF vars, session, LockInv, Scored
<1>2. CASE Next
  <2>1. PICK x \in Slots :
          \/ \E e \in Essays : Fetch(x, e)
          \/ \E a \in Answers : Evaluate(x, a)
          \/ UpdateSession(x) \/ ReadVector(x) \/ WriteVector(x)
          \/ ReadSnapshot(x) \/ WriteSnapshot(x) \/ Abandon(x)
    BY <1>2 DEF Next
  <2>2. PICK s, l : Moves(x, s, l)
    BY <2>1, MovesBy
  <2>3. \A y \in Slots : y # x => step'[y] = step[y] /\ local'[y] = local[y]
    BY <2>2, OthersStay
  <2>4. CASE \E e \in Essays : Fetch(x, e)
    <3>1. PICK e \in Essays : Fetch(x, e)
      BY <2>4
    <3>2. local'[x].essay = e /\ scores' = scores
      BY <3>1, EssayOf DEF Fetch, session
    <3>3. ~Scored(e) /\ \A y \in Slots : local[y].essay # e
      BY <3>1 DEF Fetch
    <3>4. \A y, z \in Slots : y # z /\ local'[y].essay # NoEssay =>
             local'[y].essay # local'[z].essay
      BY <2>3, <3>2, <3>3 DEF LockInv
    <3>5. \A y \in Slots : step'[y] \in {"provider", "score"} => scores'[local'[y].essay] = NoScores
      BY <2>3, <3>2, <3>3 DEF LockInv, Scored
    <3> QED
      BY <3>4, <3>5 DEF LockInv, Scored
  <2>5. CASE UpdateSession(x)
    <3> DEFINE e == local[x].essay
    <3>1. e \in Essays /\ step'[x] = "readVector" /\ local'[x].essay = e
      BY <2>5, SessionStep, Target, EssayOf
    <3>2. e # NoEssay
      BY <3>1, NothingAssumption
    <3>3. \A f \in Essays : f # e => scores'[f] = scores[f]
      <4>1. scores \in [Essays -> [Rubric -> 0..18] \cup {NoScores}]
        BY DEF TypeOK
      <4>2. scores' = [scores EXCEPT ![e] = [c \in Rubric |-> HalfBand(answer[e][c])]]
        BY <2>5, SessionStep
      <4> HIDE DEF e
      <4> QED
        BY <4>1, <4>2
    <3>4. \A y, z \in Slots : y # z /\ local'[y].essay # NoEssay =>
             local'[y].essay # local'[z].essay
      BY <2>3, <3>1 DEF LockInv
    <3>5. \A y \in Slots : y # x => local[y].essay # e
      BY <3>2 DEF LockInv
    <3>6. \A y \in Slots : step[y] # "idle" => local[y].essay \in Essays
      BY DEF TypeOK
    <3> HIDE DEF e
    <3>7. \A y \in Slots : step'[y] \in {"provider", "score"} => scores'[local'[y].essay] = NoScores
      BY <2>3, <3>1, <3>3, <3>5, <3>6 DEF LockInv, Scored
    <3> QED
      BY <3>4, <3>7 DEF LockInv, Scored
  <2>6. CASE \E a \in Answers : Evaluate(x, a)
    <3>1. step[x] = "provider" /\ scores' = scores
      BY <2>6 DEF Evaluate, At, session
    <3>2. local'[x].essay = local[x].essay
      BY <2>6, EssayOf
    <3>4. \A y, z \in Slots : y # z /\ local'[y].essay # NoEssay =>
             local'[y].essay # local'[z].essay
      BY <2>3, <3>2 DEF LockInv
    <3>5. \A y \in Slots : step'[y] \in {"provider", "score"} => scores'[local'[y].essay] = NoScores
      BY <2>3, <3>1, <3>2 DEF LockInv, Scored
    <3> QED
      BY <3>4, <3>5 DEF LockInv, Scored
  <2>7. CASE ReadVector(x) \/ WriteVector(x) \/ ReadSnapshot(x) \/ WriteSnapshot(x) \/ Abandon(x)
    <3>1. scores' = scores /\ step'[x] \notin {"provider", "score"}
      BY <2>7, Target DEF ReadVector, WriteVector, ReadSnapshot, WriteSnapshot, Abandon, session
    <3>2. local'[x].essay = local[x].essay \/ local'[x].essay = NoEssay
      BY <2>7, EssayOf
    <3>4. \A y, z \in Slots : y # z /\ local'[y].essay # NoEssay =>
             local'[y].essay # local'[z].essay
      BY <2>3, <3>2 DEF LockInv
    <3>5. \A y \in Slots : step'[y] \in {"provider", "score"} => scores'[local'[y].essay] = NoScores
      BY <2>3, <3>1 DEF LockInv, Scored
    <3> QED
      BY <3>4, <3>5 DEF LockInv, Scored
  <2> QED
    BY <2>1, <2>4, <2>5, <2>6, <2>7
<1> QED
  BY <1>1, <1>2

LEMMA ResultStep ==
  ASSUME TypeOK, LockInv, ResultInv, [Next]_vars
  PROVE  ResultInv'
<1>1. CASE UNCHANGED <<scores, level, answer>>
  BY <1>1 DEF ResultInv, Scored
<1>2. CASE \E x \in Slots, a \in Answers : Evaluate(x, a)
  <2>1. PICK x \in Slots, a \in Answers : Evaluate(x, a)
    BY <1>2
  <2> DEFINE e == local[x].essay
  <2>2. ~Scored(e) /\ UNCHANGED <<scores, level>> /\ answer' = [answer EXCEPT ![e] = a]
    BY <2>1 DEF Evaluate, At, LockInv, session
  <2>3. answer \in [Essays -> [Rubric -> 0..36]]
    BY DEF TypeOK
  <2> HIDE DEF e
  <2>4. \A f \in Essays : f # e => answer'[f] = answer[f]
    BY ONLY <2>2, <2>3
  <2> QED
    BY <2>2, <2>4 DEF ResultInv, Scored
<1>3. CASE \E x \in Slots : UpdateSession(x)
  <2>1. PICK x \in Slots : UpdateSession(x)
    BY <1>3
  <2> DEFINE e == local[x].essay
             validated == [c \in Rubric |-> HalfBand(answer[e][c])]
             shown == band_to_cefr(HalfBand(answer[e].overall))
  <2>2. e \in Essays /\ scores' = [scores EXCEPT ![e] = validated]
        /\ level' = [level EXCEPT ![e] = shown]
    BY <2>1, SessionStep
  <2>3. answer' = answer
    BY <2>1 DEF UpdateSession
  <2>4. validated.overall = HalfBand(answer[e].overall)
    BY DEF Rubric
  <2>5. shown = band_to_cefr(validated.overall)
    BY <2>4
  <2>6. /\ scores \in [Essays -> [Rubric -> 0..18] \cup {NoScores}]
        /\ level \in [Essays -> {Levels[k] : k \in DOMAIN Levels} \cup {"none"}]
    BY DEF TypeOK
  <2> HIDE DEF e, validated, shown
  <2>7. \A f \in Essays : /\ scores'[f] = (IF f = e THEN validated ELSE scores[f])
                          /\ level'[f] = (IF f = e THEN shown ELSE level[f])
    BY ONLY <2>2, <2>6
  <2> QED
    BY <2>3, <2>4, <2>5, <2>7 DEF ResultInv, Scored
<1> QED
  BY <1>1, <1>2, <1>3 DEF Next, Fetch, ReadVector, WriteVector, ReadSnapshot, WriteSnapshot,
     Abandon, vars, session

LEMMA ResultImplies ==
  ASSUME TypeOK, ResultInv
  PROVE  ResultsAgree
<1>1. \A e \in Essays : Scored(e) => scores[e].overall \in 0..18 /\ answer[e].overall \in 0..36
  <2> SUFFICES ASSUME NEW e \in Essays, Scored(e)
               PROVE  scores[e].overall \in 0..18 /\ answer[e].overall \in 0..36
    OBVIOUS
  <2>1. scores[e] \in [Rubric -> 0..18] /\ answer[e] \in [Rubric -> 0..36]
    BY DEF TypeOK, Scored
  <2>2. "overall" \in Rubric
    BY DEF Rubric
  <2> QED
    BY ONLY <2>1, <2>2
<1>2. SUFFICES ASSUME NEW e \in Essays, Scored(e)
      PROVE LET band == scores[e].overall
            IN /\ 2 * band - answer[e].overall \in -1..1
               /\ Shown(band) = NoScores \/ Shown(band) \in cefr_to_band_range(level[e])
               /\ \A f \in Essays : Scored(f) /\ band <= scores[f].overall =>
                    Rank(level[e]) <= Rank(level[f])
  BY DEF ResultsAgree
<1> DEFINE band == scores[e].overall
<1>3. band \in 0..18 /\ answer[e].overall \in 0..36
  BY <1>1, <1>2
<1>4. band = HalfBand(answer[e].overall) /\ level[e] = band_to_cefr(band)
  BY <1>2 DEF ResultInv
<1>5. 2 * band - answer[e].overall \in -1..1
  BY <1>3, <1>4, HalfBandNearest
<1>6. Shown(band) = NoScores \/ Shown(band) \in cefr_to_band_range(level[e])
  BY <1>3, <1>4, BandInRange DEF Shown
<1>7. \A f \in Essays : Scored(f) /\ band <= scores[f].overall => Rank(level[e]) <= Rank(level[f])
  <2> SUFFICES ASSUME NEW f \in Essays, Scored(f), band <= scores[f].overall
               PROVE  Rank(level[e]) <= Rank(level[f])
    OBVIOUS
  <2> DEFINE other == scores[f].overall
  <2>1. other \in 0..18 /\ level[f] = band_to_cefr(other)
    BY <1>1 DEF ResultInv
  <2>2. band <= other
    OBVIOUS
  <2>3. Rank(level[e]) = Position(band)
    BY <1>3, <1>4, RankOfBand
  <2>4. Rank(level[f]) = Position(other)
    BY <2>1, RankOfBand
  <2> HIDE DEF band, other
  <2>5. Position(band) <= Position(other)
    BY <1>3, <2>1, <2>2, PositionMonotone
  <2> QED
    BY <2>3, <2>4, <2>5
<1> QED
  BY <1>5, <1>6, <1>7

\* Learners are shown the bands and levels that belong to the provider's answers, in order.
THEOREM ResultsAreConsistent == Spec => []ResultsAgree
<1>1. Init => TypeOK /\ ScoredInv /\ LockInv /\ ResultInv
  <2> SUFFICES ASSUME Init PROVE LockInv /\ ResultInv
    BY InitType
  <2>1. /\ \A x \in Slots : step[x] = "idle" /\ local[x].essay = NoEssay
        /\ \A e \in Essays : scores[e] = NoScores
    BY DEF Init, Idle
  <2> QED
    BY <2>1 DEF LockInv, ResultInv, Scored
<1>2. TypeOK /\ ScoredInv /\ LockInv /\ ResultInv /\ [Next]_vars =>
        TypeOK' /\ ScoredInv' /\ LockInv' /\ ResultInv'
  BY TypeStep, LockStep, ResultStep
<1>3. TypeOK /\ ResultInv => ResultsAgree
  BY ResultImplies
<1> QED
  BY <1>1, <1>2, <1>3, PTL DEF Spec
=============================================================================
