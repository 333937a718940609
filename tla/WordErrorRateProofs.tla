------------------------- MODULE WordErrorRateProofs -------------------------
(***************************************************************************)
(* compute_wer is right for all texts over all vocabularies: what it       *)
(* reports is an alignment of the two with the least possible errors.      *)
(*                                                                         *)
(* The table is filled one cell at a time, so that the lower bound, which  *)
(* on paper is an induction on the lengths, is an invariant of the loop.   *)
(***************************************************************************)
EXTENDS WordErrorRate, FiniteSetTheorems, TLAPS

-----------------------------------------------------------------------------
(* The minimum of three *)

LEMMA MinOfThree ==
  ASSUME NEW x \in Nat, NEW y \in Nat, NEW z \in Nat
  PROVE  /\ Min({x, y, z}) \in {x, y, z}
         /\ Min({x, y, z}) <= x
         /\ Min({x, y, z}) <= y
         /\ Min({x, y, z}) <= z
<1>1. \E d \in {x, y, z} : \A e \in {x, y, z} : d =< e
  <2>1. CASE x <= y /\ x <= z BY <2>1
  <2>2. CASE y <= x /\ y <= z BY <2>2
  <2>3. CASE z <= x /\ z <= y BY <2>3
  <2>4. QED BY <2>1, <2>2, <2>3
<1>2. QED
  BY <1>1 DEF Min

-----------------------------------------------------------------------------
(* Alignments *)

Pairs(k, l) == (1 .. k) \X (1 .. l)

Ordered(a) == \A p, q \in a : p[1] < q[1] <=> p[2] < q[2]

\* The words after the first k and the first l, aligned.
Rest(k, l) == {a \in SUBSET ((k + 1 .. n) \X (l + 1 .. m)) : Ordered(a)}

LEMMA AlignmentFinite ==
  ASSUME NEW k \in Nat, NEW l \in Nat, NEW a \in SUBSET ((1 .. k) \X (1 .. l))
  PROVE  /\ IsFiniteSet(a)
         /\ Cardinality(a) \in Nat
         /\ IsFiniteSet(Replaced(a))
         /\ Cardinality(Replaced(a)) \in Nat
<1>0. IsFiniteSet(1 .. k) /\ IsFiniteSet(1 .. l)
  <2>1. 1 \in Int /\ k \in Int /\ l \in Int
    OBVIOUS
  <2>2. QED
    BY ONLY <2>1, FS_Interval
<1>1. IsFiniteSet((1 .. k) \X (1 .. l))
  BY ONLY <1>0, FS_Product
<1>2. IsFiniteSet(a)
  BY <1>1, FS_Subset
<1>3. IsFiniteSet(Replaced(a))
  BY <1>2, FS_Subset DEF Replaced
<1>4. QED
  BY <1>2, <1>3, FS_CardinalityType

LEMMA CostIsInteger ==
  ASSUME NEW k \in Nat, NEW l \in Nat, NEW a \in Alignments(k, l)
  PROVE  Cost(k, l, a) \in Int
<1>1. a \in SUBSET ((1 .. k) \X (1 .. l))
  BY DEF Alignments
<1>2. Cardinality(a) \in Nat /\ Cardinality(Replaced(a)) \in Nat
  BY <1>1, AlignmentFinite
<1>3. QED
  BY <1>2 DEF Cost

LEMMA WithoutPair ==
  ASSUME NEW a, IsFiniteSet(a), NEW p \in a
  PROVE  LET b == a \ {p} IN
         /\ Cardinality(b) = Cardinality(a) - 1
         /\ Cardinality(Replaced(b)) =
              IF SameWord(p[1], p[2]) THEN Cardinality(Replaced(a))
                                      ELSE Cardinality(Replaced(a)) - 1
<1>1. IsFiniteSet(Replaced(a))
  BY FS_Subset DEF Replaced
<1>2. Replaced(a \ {p}) = Replaced(a) \ {p}
  BY DEF Replaced
<1>3. p \in Replaced(a) <=> ~SameWord(p[1], p[2])
  BY DEF Replaced
<1>4. QED
  BY <1>1, <1>2, <1>3, FS_RemoveElement

LEMMA WithPair ==
  ASSUME NEW a, IsFiniteSet(a), NEW p, p \notin a
  PROVE  LET b == a \cup {p} IN
         /\ Cardinality(b) = Cardinality(a) + 1
         /\ Cardinality(Replaced(b)) =
              IF SameWord(p[1], p[2]) THEN Cardinality(Replaced(a))
                                      ELSE Cardinality(Replaced(a)) + 1
<1>1. IsFiniteSet(Replaced(a))
  BY FS_Subset DEF Replaced
<1>2. CASE SameWord(p[1], p[2])
  <2>1. Replaced(a \cup {p}) = Replaced(a)
    BY <1>2 DEF Replaced
  <2>2. QED
    BY <1>2, <2>1, FS_AddElement
<1>3. CASE ~SameWord(p[1], p[2])
  <2>1. Replaced(a \cup {p}) = Replaced(a) \cup {p} /\ p \notin Replaced(a)
    BY <1>3 DEF Replaced
  <2>2. QED
    BY <1>1, <1>3, <2>1, FS_AddElement
<1>4. QED
  BY <1>2, <1>3

\* Leaving out the last word on either side, or both with the pair they form.
LEMMA Shorter ==
  ASSUME NEW k \in Nat \ {0}, NEW l \in Nat \ {0}, NEW a \in Alignments(k, l)
  PROVE  /\ (\A p \in a : p[1] # k) => a \in Alignments(k - 1, l)
         /\ (\A p \in a : p[2] # l) => a \in Alignments(k, l - 1)
         /\ \A p \in a : p[1] = k \/ p[2] = l => a \ {p} \in Alignments(k - 1, l - 1)
         /\ (\A p \in a : p[1] # k /\ p[2] # l) => a \in Alignments(k - 1, l - 1)
         /\ (\E p \in a : p[1] = k) /\ (\E p \in a : p[2] = l) => <<k, l>> \in a
<1>1. a \in SUBSET ((1 .. k) \X (1 .. l)) /\ \A p, q \in a : p[1] < q[1] <=> p[2] < q[2]
  BY DEF Alignments
<1>2. \A p \in a : p[1] \in 1 .. k /\ p[2] \in 1 .. l /\ p = <<p[1], p[2]>>
  BY <1>1
<1>3. (\A p \in a : p[1] # k) => a \in Alignments(k - 1, l)
  <2>1. ASSUME \A p \in a : p[1] # k PROVE \A p \in a : p \in (1 .. k - 1) \X (1 .. l)
    BY <2>1, <1>2
  <2>2. QED
    BY <2>1, <1>1 DEF Alignments
<1>4. (\A p \in a : p[2] # l) => a \in Alignments(k, l - 1)
  <2>1. ASSUME \A p \in a : p[2] # l PROVE \A p \in a : p \in (1 .. k) \X (1 .. l - 1)
    BY <2>1, <1>2
  <2>2. QED
    BY <2>1, <1>1 DEF Alignments
<1>5. (\A p \in a : p[1] # k /\ p[2] # l) => a \in Alignments(k - 1, l - 1)
  <2>1. ASSUME \A p \in a : p[1] # k /\ p[2] # l
        PROVE  \A p \in a : p \in (1 .. k - 1) \X (1 .. l - 1)
    BY <2>1, <1>2
  <2>2. QED
    BY <2>1, <1>1 DEF Alignments
<1>6. ASSUME NEW p \in a, NEW q \in a, p[1] = k \/ p[2] = l, q[1] = k \/ q[2] = l
      PROVE  p = q
  <2>1. /\ p[1] < q[1] <=> p[2] < q[2]
        /\ q[1] < p[1] <=> q[2] < p[2]
    BY <1>1
  <2>2. p[1] = q[1] /\ p[2] = q[2]
    BY <1>2, <1>6, <2>1
  <2>3. QED
    BY <1>2, <2>2
<1>7. ASSUME NEW p \in a, p[1] = k \/ p[2] = l
      PROVE  a \ {p} \in Alignments(k - 1, l - 1)
  <2>1. \A q \in a \ {p} : q[1] # k /\ q[2] # l
    BY <1>6, <1>7
  <2>2. \A q \in a \ {p} : q \in (1 .. k - 1) \X (1 .. l - 1)
    BY <2>1, <1>2
  <2>3. QED
    BY <2>2, <1>1 DEF Alignments
<1>8. ASSUME NEW p \in a, NEW q \in a, p[1] = k, q[2] = l
      PROVE  <<k, l>> \in a
  BY <1>6, <1>8, <1>2
<1>9. QED
  BY <1>3, <1>4, <1>5, <1>7, <1>8

-----------------------------------------------------------------------------
(* The table *)

\* A cell is at most the errors of any alignment.
Bounded(k, l) == \A a \in Alignments(k, l) : dp[k][l] <= Cost(k, l, a)

LEMMA BorderBounded ==
  ASSUME NEW k \in Nat, NEW l \in Nat, k = 0 \/ l = 0, NEW a \in Alignments(k, l)
  PROVE  Cost(k, l, a) = k + l
<1>1. a = {}
  BY DEF Alignments
<1>2. Replaced(a) = {}
  BY <1>1 DEF Replaced
<1>3. Cardinality(a) = 0 /\ Cardinality(Replaced(a)) = 0
  BY ONLY <1>1, <1>2, FS_EmptySet
<1>4. QED
  BY ONLY k \in Nat, l \in Nat, <1>3 DEF Cost

LEMMA SameWordBound ==
  ASSUME NEW k \in Nat \ {0}, NEW l \in Nat \ {0}, NEW a \in Alignments(k, l), SameWord(k, l)
  PROVE  \E b \in Alignments(k - 1, l - 1) :
            Cost(k - 1, l - 1, b) <= Cost(k, l, a)
<1>1. a \in SUBSET ((1 .. k) \X (1 .. l))
  BY DEF Alignments
<1>2. /\ IsFiniteSet(a)
      /\ Cardinality(a) \in Nat
      /\ Cardinality(Replaced(a)) \in Nat
  BY <1>1, AlignmentFinite
<1>3. CASE \A p \in a : p[1] # k /\ p[2] # l
  <2>1. a \in Alignments(k - 1, l - 1)
    BY <1>3, Shorter
  <2>2. QED
    BY <1>2, <2>1 DEF Cost
<1>4. ASSUME NEW p \in a, p[1] = k \/ p[2] = l
      PROVE  Cost(k - 1, l - 1, a \ {p}) <= Cost(k, l, a)
  <2>1. /\ Cardinality(a \ {p}) = Cardinality(a) - 1
        /\ \/ Cardinality(Replaced(a \ {p})) = Cardinality(Replaced(a))
           \/ Cardinality(Replaced(a \ {p})) = Cardinality(Replaced(a)) - 1
    BY <1>2, WithoutPair
  <2>2. QED
    BY <1>2, <2>1 DEF Cost
<1>5. \A p \in a : p[1] = k \/ p[2] = l => a \ {p} \in Alignments(k - 1, l - 1)
  BY Shorter
<1>6. QED
  BY <1>3, <1>4, <1>5

LEMMA OtherWordBound ==
  ASSUME NEW k \in Nat \ {0}, NEW l \in Nat \ {0}, NEW a \in Alignments(k, l), ~SameWord(k, l)
  PROVE  \/ \E b \in Alignments(k - 1, l - 1) : Cost(k - 1, l - 1, b) + 1 = Cost(k, l, a)
         \/ a \in Alignments(k - 1, l) /\ Cost(k - 1, l, a) + 1 = Cost(k, l, a)
         \/ a \in Alignments(k, l - 1) /\ Cost(k, l - 1, a) + 1 = Cost(k, l, a)
<1>1. a \in SUBSET ((1 .. k) \X (1 .. l))
  BY DEF Alignments
<1>2. /\ IsFiniteSet(a)
      /\ Cardinality(a) \in Nat
      /\ Cardinality(Replaced(a)) \in Nat
  BY <1>1, AlignmentFinite
<1>3. CASE \A p \in a : p[1] # k
  <2>1. a \in Alignments(k - 1, l)
    BY <1>3, Shorter
  <2>2. QED
    BY <1>2, <2>1 DEF Cost
<1>4. CASE \A p \in a : p[2] # l
  <2>1. a \in Alignments(k, l - 1)
    BY <1>4, Shorter
  <2>2. QED
    BY <1>2, <2>1 DEF Cost
<1>5. CASE <<k, l>> \in a
  <2> DEFINE b == a \ {<<k, l>>}
  <2>1. b \in Alignments(k - 1, l - 1)
    BY <1>5, Shorter
  <2>2. /\ Cardinality(b) = Cardinality(a) - 1
        /\ Cardinality(Replaced(b)) = Cardinality(Replaced(a)) - 1
    BY <1>2, <1>5, WithoutPair
  <2>3. Cost(k - 1, l - 1, b) + 1 = Cost(k, l, a)
    BY <1>2, <2>2 DEF Cost
  <2>4. QED
    BY <2>1, <2>3
<1>6. QED
  BY <1>3, <1>4, <1>5, Shorter

LEMMA CellBounded ==
  ASSUME NEW k \in 1 .. n, NEW l \in 1 .. m, n \in Nat, m \in Nat, dp \in [0 .. n -> [0 .. m -> Nat]],
         Bounded(k - 1, l), Bounded(k, l - 1), Bounded(k - 1, l - 1),
         NEW a \in Alignments(k, l)
  PROVE  Cell(k, l) <= Cost(k, l, a)
<1>0. k \in Nat \ {0} /\ l \in Nat \ {0}
  BY ONLY k \in 1 .. n, l \in 1 .. m, n \in Nat, m \in Nat
<1>1. /\ dp[k - 1][l] \in Nat
      /\ dp[k][l - 1] \in Nat
      /\ dp[k - 1][l - 1] \in Nat
  <2>1. k \in 0 .. n /\ k - 1 \in 0 .. n /\ l \in 0 .. m /\ l - 1 \in 0 .. m
    BY ONLY k \in 1 .. n, l \in 1 .. m, n \in Nat, m \in Nat
  <2>2. QED
    BY ONLY <2>1, dp \in [0 .. n -> [0 .. m -> Nat]]
<1>2. /\ \A b \in Alignments(k - 1, l) : Cost(k - 1, l, b) \in Int
      /\ \A b \in Alignments(k, l - 1) : Cost(k, l - 1, b) \in Int
      /\ \A b \in Alignments(k - 1, l - 1) : Cost(k - 1, l - 1, b) \in Int
      /\ Cost(k, l, a) \in Int
  <2>1. k \in Nat /\ l \in Nat /\ k - 1 \in Nat /\ l - 1 \in Nat
    BY ONLY k \in 1 .. n, l \in 1 .. m, n \in Nat, m \in Nat
  <2>2. QED
    BY <2>1, CostIsInteger
<1>3. CASE SameWord(k, l)
  <2>1. PICK b \in Alignments(k - 1, l - 1) : Cost(k - 1, l - 1, b) <= Cost(k, l, a)
    BY <1>0, <1>3, SameWordBound
  <2>2. dp[k - 1][l - 1] <= Cost(k - 1, l - 1, b)
    BY DEF Bounded
  <2>3. Cell(k, l) = dp[k - 1][l - 1]
    BY <1>3 DEF Cell
  <2>4. QED
    BY ONLY <1>1, <1>2, <2>1, <2>2, <2>3
<1>4. CASE ~SameWord(k, l)
  <2> DEFINE least == Min({dp[k - 1][l], dp[k][l - 1], dp[k - 1][l - 1]})
  <2>1. /\ least \in Nat
        /\ least <= dp[k - 1][l]
        /\ least <= dp[k][l - 1]
        /\ least <= dp[k - 1][l - 1]
    BY ONLY <1>1, MinOfThree
  <2>2. Cell(k, l) = 1 + least
    BY <1>4 DEF Cell
  <2> HIDE DEF least
  <2>3. ASSUME NEW b \in Alignments(k - 1, l - 1), Cost(k - 1, l - 1, b) + 1 = Cost(k, l, a)
        PROVE  Cell(k, l) <= Cost(k, l, a)
    <3>1. dp[k - 1][l - 1] <= Cost(k - 1, l - 1, b)
      BY DEF Bounded
    <3>2. QED
      BY ONLY <1>1, <1>2, <2>1, <2>2, <2>3, <3>1
  <2>4. ASSUME a \in Alignments(k - 1, l), Cost(k - 1, l, a) + 1 = Cost(k, l, a)
        PROVE  Cell(k, l) <= Cost(k, l, a)
    <3>1. dp[k - 1][l] <= Cost(k - 1, l, a)
      BY <2>4 DEF Bounded
    <3>2. QED
      BY ONLY <1>1, <1>2, <2>1, <2>2, <2>4, <3>1
  <2>5. ASSUME a \in Alignments(k, l - 1), Cost(k, l - 1, a) + 1 = Cost(k, l, a)
        PROVE  Cell(k, l) <= Cost(k, l, a)
    <3>1. dp[k][l - 1] <= Cost(k, l - 1, a)
      BY <2>5 DEF Bounded
    <3>2. QED
      BY ONLY <1>1, <1>2, <2>1, <2>2, <2>5, <3>1
  <2>6. QED
    BY <1>0, <1>4, <2>3, <2>4, <2>5, OtherWordBound
<1>5. QED
  BY <1>3, <1>4
-----------------------------------------------------------------------------
(* Type correctness *)

LEMMA LengthsAreNat ==
  ASSUME TypeOK
  PROVE  n \in Nat /\ m \in Nat
BY DEF TypeOK, n, m

LEMMA TextsStay ==
  ASSUME [Next]_vars
  PROVE  reference' = reference /\ hypothesis' = hypothesis /\ n' = n /\ m' = m
BY DEF Next, vars, texts, EmptyReference, Initialise, FillCell, Match, Substitute, Insert,
       Delete, Finish, n, m

\* The cells the loop has filled, the borders among them.
Filled(k, l) == k = 0 \/ l = 0 \/ pc = "backtrack" \/ k < i \/ (k = i /\ l < j)

\* What the code has put into a filled cell is still what it would put there.
TableInv ==
    pc \in {"fill", "backtrack"} =>
        \A k \in 0 .. n, l \in 0 .. m :
            Filled(k, l) => dp[k][l] = IF k = 0 THEN l ELSE IF l = 0 THEN k ELSE Cell(k, l)

LEMMA InitType == Init => TypeOK
BY TextsAssumption DEF Init, TypeOK, n, m

LEMMA CellIsNat ==
  ASSUME NEW k \in 1 .. n, NEW l \in 1 .. m, n \in Nat, m \in Nat,
         dp \in [0 .. n -> [0 .. m -> Nat]]
  PROVE  Cell(k, l) \in Nat
<1>1. k \in 0 .. n /\ k - 1 \in 0 .. n /\ l \in 0 .. m /\ l - 1 \in 0 .. m
  OBVIOUS
<1>2. dp[k - 1][l] \in Nat /\ dp[k][l - 1] \in Nat /\ dp[k - 1][l - 1] \in Nat
  BY ONLY <1>1, dp \in [0 .. n -> [0 .. m -> Nat]]
<1>3. Min({dp[k - 1][l], dp[k][l - 1], dp[k - 1][l - 1]}) \in Nat
  BY ONLY <1>2, MinOfThree
<1>4. QED
  BY ONLY <1>2, <1>3 DEF Cell

\* Deleting is what is left: the word of the reference is there to delete, and the cell
\* above is one less.
LEMMA DeleteIsSound ==
  ASSUME TypeOK, TableInv, Delete
  PROVE  i > 0 /\ dp[i][j] = dp[i - 1][j] + 1
<1>1. /\ n \in Nat /\ m \in Nat
      /\ i \in 0 .. n /\ j \in 0 .. m
      /\ pc = "backtrack"
      /\ dp \in [0 .. n -> [0 .. m -> Nat]]
  BY LengthsAreNat DEF TypeOK, Delete, Backtracking
<1>2. \A k \in 0 .. n, l \in 0 .. m :
         dp[k][l] = IF k = 0 THEN l ELSE IF l = 0 THEN k ELSE Cell(k, l)
  BY <1>1 DEF TableInv, Filled
<1>3. i > 0
  <2>1. ASSUME i = 0 PROVE FALSE
    <3>1. j > 0 /\ j - 1 \in 0 .. m
      BY <1>1, <2>1 DEF Delete, Backtracking
    <3>2. dp[0][j] = j /\ dp[0][j - 1] = j - 1
      BY ONLY <1>1, <1>2, <3>1
    <3>3. QED
      BY ONLY <1>1, <2>1, <3>1, <3>2, Delete DEF Delete, CanInsert
  <2>2. QED
    BY <1>1, <2>1
<1>4. CASE j = 0
  <2>1. dp[i][0] = i /\ dp[i - 1][0] = i - 1
    BY ONLY <1>1, <1>2, <1>3
  <2>2. QED
    BY ONLY <1>1, <1>3, <1>4, <2>1
<1>5. CASE j > 0
  <2>1. /\ ~SameWord(i, j)
        /\ dp[i][j] # dp[i - 1][j - 1] + 1
        /\ dp[i][j] # dp[i][j - 1] + 1
    BY <1>3, <1>5 DEF Delete, CanMatch, CanSubstitute, CanInsert
  <2>2. i - 1 \in 0 .. n /\ j - 1 \in 0 .. m
    BY ONLY <1>1, <1>3, <1>5
  <2>3. dp[i - 1][j] \in Nat /\ dp[i][j - 1] \in Nat /\ dp[i - 1][j - 1] \in Nat
    BY ONLY <1>1, <2>2
  <2> DEFINE least == Min({dp[i - 1][j], dp[i][j - 1], dp[i - 1][j - 1]})
  <2>4. least \in {dp[i - 1][j], dp[i][j - 1], dp[i - 1][j - 1]}
    BY ONLY <2>3, MinOfThree
  <2>5. dp[i][j] = 1 + least
    <3>1. dp[i][j] = Cell(i, j)
      BY ONLY <1>1, <1>2, <1>3, <1>5
    <3>2. Cell(i, j) = 1 + least
      BY ONLY <2>1 DEF Cell
    <3>3. QED
      BY ONLY <3>1, <3>2
  <2> HIDE DEF least
  <2>6. QED
    BY ONLY <1>3, <2>1, <2>3, <2>4, <2>5
<1>6. QED
  BY <1>1, <1>3, <1>4, <1>5

LEMMA TypeStep == TypeOK /\ TableInv /\ [Next]_vars => TypeOK'
<1> SUFFICES ASSUME TypeOK, TableInv, [Next]_vars PROVE TypeOK'
  OBVIOUS
<1>1. n' = n /\ m' = m /\ reference' = reference /\ hypothesis' = hypothesis
  BY TextsStay
<1>2. n \in Nat /\ m \in Nat
  BY LengthsAreNat
<1>3. CASE EmptyReference
  BY <1>1, <1>2, <1>3 DEF EmptyReference, TypeOK, counts
<1>4. CASE Initialise
  BY <1>1, <1>2, <1>4 DEF Initialise, TypeOK, counts
<1>5. CASE FillCell
  <2>1. /\ dp \in [0 .. n -> [0 .. m -> Nat]]
        /\ i \in 1 .. n /\ j \in 1 .. m
    BY <1>2, <1>5 DEF FillCell, TypeOK
  <2>2. Cell(i, j) \in Nat
    BY ONLY <1>2, <2>1, CellIsNat
  <2>3. dp' \in [0 .. n -> [0 .. m -> Nat]]
    BY ONLY <1>2, <1>5, <2>1, <2>2 DEF FillCell
  <2>4. /\ pc' \in {"fill", "backtrack"}
        /\ i' \in 1 .. n /\ j' \in 1 .. m
    <3>1. \/ j < m /\ j' = j + 1 /\ i' = i /\ pc' = "fill"
          \/ j = m /\ i < n /\ i' = i + 1 /\ j' = 1 /\ pc' = "fill"
          \/ i' = i /\ j' = j /\ pc' = "backtrack"
      BY ONLY <1>5 DEF FillCell
    <3>2. pc' \in {"fill", "backtrack"}
      BY ONLY <3>1
    <3>3. i' \in 1 .. n
      <4>1. i' = i \/ (i < n /\ i' = i + 1)
        BY ONLY <3>1
      <4>2. QED
        BY ONLY <1>2, <2>1, <4>1, SMTT(60)
    <3>4. j' \in 1 .. m
      <4>1. j' = j \/ (j < m /\ j' = j + 1) \/ j' = 1
        BY ONLY <3>1
      <4>2. QED
        BY ONLY <1>2, <2>1, <4>1, SMTT(60)
    <3>5. QED
      BY ONLY <3>2, <3>3, <3>4
  <2>5. substitutions' \in Nat /\ insertions' \in Nat /\ deletions' \in Nat
    BY <1>5 DEF FillCell, counts, TypeOK
  <2>6. reference \in Seq(Words) /\ hypothesis \in Seq(Words)
    BY DEF TypeOK
  <2>7. n > 0 /\ i' \in 0 .. n /\ j' \in 0 .. m /\ i' > 0 /\ j' > 0
    BY ONLY <1>2, <2>1, <2>4
  <2>8. QED
    BY ONLY <1>1, <2>3, <2>4, <2>5, <2>6, <2>7 DEF TypeOK
<1>6. CASE Match
  <2>1. pc = "backtrack" /\ pc' = pc /\ dp' = dp /\ i > 0 /\ j > 0 /\ i' = i - 1 /\ j' = j - 1
    BY ONLY <1>6 DEF Match, Backtracking, CanMatch
  <2>2. substitutions' \in Nat /\ insertions' \in Nat /\ deletions' \in Nat
    BY <1>6 DEF Match, counts, TypeOK
  <2>3. QED
    BY <1>1, <1>2, <2>1, <2>2 DEF TypeOK
<1>7. CASE Substitute
  <2>1. pc = "backtrack" /\ pc' = pc /\ dp' = dp /\ i > 0 /\ j > 0 /\ i' = i - 1 /\ j' = j - 1
    BY ONLY <1>7 DEF Substitute, Backtracking, CanSubstitute
  <2>2. substitutions' \in Nat /\ insertions' \in Nat /\ deletions' \in Nat
    BY <1>7 DEF Substitute, counts, TypeOK
  <2>3. QED
    BY <1>1, <1>2, <2>1, <2>2 DEF TypeOK
<1>8. CASE Insert
  <2>1. pc = "backtrack" /\ pc' = pc /\ dp' = dp /\ j > 0 /\ i' = i /\ j' = j - 1
    BY ONLY <1>8 DEF Insert, Backtracking, CanInsert
  <2>2. substitutions' \in Nat /\ insertions' \in Nat /\ deletions' \in Nat
    BY <1>8 DEF Insert, counts, TypeOK
  <2>3. QED
    BY <1>1, <1>2, <2>1, <2>2 DEF TypeOK
<1>9. CASE Delete
  <2>1. i > 0
    BY <1>9, DeleteIsSound
  <2>2. QED
    BY <1>1, <1>2, <1>9, <2>1 DEF Delete, Backtracking, TypeOK
<1>10. CASE Finish
  BY <1>1, <1>2, <1>10 DEF Finish, TypeOK, counts
<1>11. CASE UNCHANGED vars
  BY <1>1, <1>11 DEF vars, texts, counts, TypeOK
<1>12. QED
  BY <1>3, <1>4, <1>5, <1>6, <1>7, <1>8, <1>9, <1>10, <1>11 DEF Next

LEMMA TableStep == TypeOK /\ TableInv /\ [Next]_vars => TableInv'
<1> SUFFICES ASSUME TypeOK, TableInv, [Next]_vars PROVE TableInv'
  OBVIOUS
<1>1. n' = n /\ m' = m /\ reference' = reference /\ hypothesis' = hypothesis
  BY TextsStay
<1>2. n \in Nat /\ m \in Nat
  BY LengthsAreNat
<1>3. CASE dp' = dp /\ pc' = pc /\ (pc = "backtrack" \/ (i' = i /\ j' = j))
  BY <1>1, <1>3 DEF TableInv, Filled, Cell, SameWord
<1>4. CASE pc' \notin {"fill", "backtrack"}
  BY <1>4 DEF TableInv
<1>5. CASE UNCHANGED vars
  BY <1>3, <1>5 DEF vars
<1>6. CASE Initialise
  <2> SUFFICES ASSUME NEW k \in 0 .. n, NEW l \in 0 .. m, Filled(k, l)'
               PROVE  dp'[k][l] = IF k = 0 THEN l ELSE IF l = 0 THEN k ELSE Cell(k, l)'
    BY <1>1 DEF TableInv
  <2>1. k = 0 \/ l = 0
    BY <1>2, <1>6 DEF Initialise, Filled
  <2>2. QED
    BY <1>6, <2>1 DEF Initialise
<1>7. CASE FillCell
  <2>1. /\ dp \in [0 .. n -> [0 .. m -> Nat]]
        /\ i \in 1 .. n /\ j \in 1 .. m
        /\ pc = "fill"
    BY <1>2, <1>7 DEF FillCell, TypeOK
  <2>2. \A k \in 0 .. n, l \in 0 .. m :
           dp'[k][l] = IF k = i /\ l = j THEN Cell(i, j) ELSE dp[k][l]
    BY ONLY <1>2, <1>7, <2>1 DEF FillCell
  <2> SUFFICES ASSUME NEW k \in 0 .. n, NEW l \in 0 .. m, Filled(k, l)'
               PROVE  dp'[k][l] = IF k = 0 THEN l ELSE IF l = 0 THEN k ELSE Cell(k, l)'
    BY <1>1 DEF TableInv
  <2>3. Filled(k, l) \/ (k = i /\ l = j)
    <3>1. \/ j' = j + 1 /\ i' = i /\ pc' = pc
          \/ j' = 1 /\ i' = i + 1 /\ j = m /\ pc' = pc
          \/ j = m /\ i = n
      BY ONLY <1>7 DEF FillCell
    <3>2. k = 0 \/ l = 0 \/ pc' = "backtrack" \/ k < i' \/ (k = i' /\ l < j')
      BY DEF Filled
    <3>3. QED
      BY ONLY <1>2, <2>1, <3>1, <3>2, k \in 0 .. n, l \in 0 .. m DEF Filled
  <2>4. dp'[k][l] = IF k = 0 THEN l ELSE IF l = 0 THEN k ELSE Cell(k, l)
    BY <2>1, <2>2, <2>3 DEF TableInv
  <2>5. ASSUME k > 0, l > 0 PROVE Cell(k, l)' = Cell(k, l)
    <3>1. k <= i /\ (k = i => l <= j)
      BY ONLY <1>2, <2>1, <2>3, <2>5, k \in 0 .. n, l \in 0 .. m DEF Filled
    <3>2. /\ k - 1 \in 0 .. n /\ l - 1 \in 0 .. m
          /\ k - 1 # i
          /\ k = i => l - 1 # j
      BY ONLY <1>2, <2>1, <2>5, <3>1, k \in 0 .. n, l \in 0 .. m
    <3>3. /\ dp'[k - 1][l] = dp[k - 1][l]
          /\ dp'[k][l - 1] = dp[k][l - 1]
          /\ dp'[k - 1][l - 1] = dp[k - 1][l - 1]
      BY ONLY <2>2, <3>2, k \in 0 .. n, l \in 0 .. m
    <3>4. QED
      BY ONLY <1>1, <3>3 DEF Cell, SameWord
  <2>6. QED
    BY <2>4, <2>5
<1>8. QED
  BY <1>3, <1>4, <1>5, <1>6, <1>7
     DEF Next, EmptyReference, Match, Substitute, Insert, Delete, Finish, Backtracking


\* Every variable of compute_wer keeps its type, and the table is what the code means
\* it to be: the else branch of the walk always has a word to delete.
THEOREM TypeCorrect == Spec => []TypeOK
<1>1. Init => TypeOK /\ TableInv
  BY InitType DEF Init, TableInv
<1>2. QED
  BY <1>1, TypeStep, TableStep, PTL DEF Spec

LEMMA TableHolds == Spec => [](TypeOK /\ TableInv)
<1>1. Init => TypeOK /\ TableInv
  BY InitType DEF Init, TableInv
<1>2. QED
  BY <1>1, TypeStep, TableStep, PTL DEF Spec

-----------------------------------------------------------------------------
(* The errors add up to the distance *)

LEMMA SumStep ==
  ASSUME TypeOK, TableInv, pc \in {"start", "fill"} => Errors = 0, EditsAddUp, [Next]_vars
  PROVE  EditsAddUp'
<1>1. n' = n /\ m' = m
  BY TextsStay
<1>2. /\ n \in Nat /\ m \in Nat
      /\ substitutions \in Nat /\ insertions \in Nat /\ deletions \in Nat
  BY LengthsAreNat DEF TypeOK
<1>3. ASSUME pc = "backtrack" PROVE dp[n][m] \in Nat /\ dp[i][j] \in Nat
  <2>1. n \in 0 .. n /\ m \in 0 .. m /\ i \in 0 .. n /\ j \in 0 .. m
    BY <1>2 DEF TypeOK
  <2>2. QED
    BY ONLY <1>3, <2>1, TypeOK DEF TypeOK
<1>4. CASE pc' # "backtrack"
  BY <1>4 DEF EditsAddUp
<1>5. CASE Initialise \/ FillCell
  <2>1. Errors = 0 /\ Errors' = Errors
    BY <1>5 DEF Initialise, FillCell, counts, Errors
  <2>2. CASE pc' = "backtrack"
    <3>1. i' = n /\ j' = m
      BY <1>2, <1>5, <2>2 DEF Initialise, FillCell
    <3>2. dp'[n][m] \in Nat
      <4>1. TypeOK'
        BY TypeStep
      <4>2. n \in 0 .. n /\ m \in 0 .. m
        BY <1>2
      <4>3. dp' \in [0 .. n -> [0 .. m -> Nat]]
        BY ONLY <1>1, <2>2, <4>1 DEF TypeOK
      <4>4. QED
        BY ONLY <4>2, <4>3
    <3>3. QED
      BY ONLY <1>1, <2>1, <3>1, <3>2 DEF EditsAddUp
  <2>3. QED
    BY <1>4, <2>2
<1>6. CASE Match
  <2>1. /\ pc = "backtrack" /\ i > 0 /\ j > 0 /\ SameWord(i, j)
        /\ i' = i - 1 /\ j' = j - 1 /\ dp' = dp /\ Errors' = Errors
    BY <1>6 DEF Match, Backtracking, CanMatch, counts, Errors
  <2>2. dp[i][j] = dp[i - 1][j - 1]
    <3>1. i \in 0 .. n /\ j \in 0 .. m
      BY DEF TypeOK
    <3>2. dp[i][j] = Cell(i, j)
      BY <2>1, <3>1 DEF TableInv, Filled
    <3>3. QED
      BY ONLY <2>1, <3>2 DEF Cell
  <2>3. QED
    BY <1>1, <2>1, <2>2 DEF EditsAddUp
<1>7. CASE Substitute
  <2>1. /\ pc = "backtrack" /\ i > 0 /\ j > 0
        /\ i' = i - 1 /\ j' = j - 1 /\ dp' = dp
        /\ dp[i][j] = dp[i - 1][j - 1] + 1
        /\ Errors' = substitutions + 1 + insertions + deletions
    BY <1>7 DEF Substitute, Backtracking, CanSubstitute, Errors
  <2>2. dp[i - 1][j - 1] \in Nat
    <3>1. i - 1 \in 0 .. n /\ j - 1 \in 0 .. m
      BY <1>2, <2>1 DEF TypeOK
    <3>2. QED
      BY ONLY <2>1, <3>1, TypeOK DEF TypeOK
  <2>3. QED
    BY ONLY <1>1, <1>2, <1>3, <2>1, <2>2, EditsAddUp DEF EditsAddUp, Errors
<1>8. CASE Insert
  <2>1. /\ pc = "backtrack" /\ j > 0
        /\ i' = i /\ j' = j - 1 /\ dp' = dp
        /\ dp[i][j] = dp[i][j - 1] + 1
        /\ Errors' = substitutions + (insertions + 1) + deletions
    BY <1>8 DEF Insert, Backtracking, CanInsert, Errors
  <2>2. dp[i][j - 1] \in Nat
    <3>1. i \in 0 .. n /\ j - 1 \in 0 .. m
      BY <1>2, <2>1 DEF TypeOK
    <3>2. QED
      BY ONLY <2>1, <3>1, TypeOK DEF TypeOK
  <2>3. QED
    BY ONLY <1>1, <1>2, <1>3, <2>1, <2>2, EditsAddUp DEF EditsAddUp, Errors
<1>9. CASE Delete
  <2>0. i > 0 /\ dp[i][j] = dp[i - 1][j] + 1
    BY <1>9, DeleteIsSound
  <2>1. /\ pc = "backtrack"
        /\ i' = i - 1 /\ j' = j /\ dp' = dp
        /\ Errors' = substitutions + insertions + (deletions + 1)
    BY <1>9 DEF Delete, Backtracking, Errors
  <2>2. dp[i - 1][j] \in Nat
    <3>1. i - 1 \in 0 .. n /\ j \in 0 .. m
      BY <1>2, <2>0 DEF TypeOK
    <3>2. QED
      BY ONLY <2>1, <3>1, TypeOK DEF TypeOK
  <2>3. QED
    BY ONLY <1>1, <1>2, <1>3, <2>0, <2>1, <2>2, EditsAddUp DEF EditsAddUp, Errors
<1>10. CASE EmptyReference \/ Finish
  BY <1>10 DEF EmptyReference, Finish, EditsAddUp
<1>11. CASE UNCHANGED vars
  BY <1>1, <1>11 DEF vars, counts, EditsAddUp, Errors
<1>12. QED
  BY <1>5, <1>6, <1>7, <1>8, <1>9, <1>10, <1>11 DEF Next

LEMMA InitCount == Init => (pc \in {"start", "fill"} => Errors = 0) /\ EditsAddUp
BY DEF Init, EditsAddUp, Errors

LEMMA NoErrorsYet ==
  ASSUME TypeOK, pc \in {"start", "fill"} => Errors = 0, [Next]_vars
  PROVE  (pc \in {"start", "fill"} => Errors = 0)'
BY DEF Next, vars, counts, Errors, EmptyReference, Initialise, FillCell, Match, Substitute,
       Insert, Delete, Finish, Backtracking

\* The errors counted and the errors left are always the edit distance.
THEOREM ErrorsAddUp == Spec => []EditsAddUp
<1> DEFINE Inv == (pc \in {"start", "fill"} => Errors = 0) /\ EditsAddUp
<1>1. Init => Inv
  BY InitCount
<1>2. TypeOK /\ TableInv /\ Inv /\ [Next]_vars => Inv'
  BY SumStep, NoErrorsYet
<1>3. QED
  BY <1>1, <1>2, TableHolds, PTL DEF Spec
-----------------------------------------------------------------------------
(* No alignment has fewer errors *)

BoundInv ==
    pc \in {"fill", "backtrack"} =>
        \A k \in 0 .. n, l \in 0 .. m : Filled(k, l) => Bounded(k, l)

LEMMA CostStays ==
  ASSUME [Next]_vars, NEW k, NEW l, NEW a
  PROVE  Cost(k, l, a)' = Cost(k, l, a) /\ Replaced(a)' = Replaced(a)
<1>1. Replaced(a)' = Replaced(a)
  BY TextsStay DEF Replaced, SameWord
<1>2. QED
  BY <1>1 DEF Cost

LEMMA BoundStays ==
  ASSUME [Next]_vars, NEW k, NEW l, dp'[k][l] = dp[k][l], Bounded(k, l)
  PROVE  Bounded(k, l)'
<1> SUFFICES ASSUME NEW a \in Alignments(k, l) PROVE dp'[k][l] <= Cost(k, l, a)'
  BY DEF Bounded, Alignments
<1>1. Cost(k, l, a)' = Cost(k, l, a)
  BY CostStays
<1>2. QED
  BY <1>1 DEF Bounded

LEMMA BoundStep == TypeOK /\ TableInv /\ BoundInv /\ [Next]_vars => BoundInv'
<1> SUFFICES ASSUME TypeOK, TableInv, BoundInv, [Next]_vars PROVE BoundInv'
  OBVIOUS
<1>1. n' = n /\ m' = m
  BY TextsStay
<1>2. n \in Nat /\ m \in Nat
  BY LengthsAreNat
<1>3. CASE dp' = dp /\ pc' = pc /\ (pc = "backtrack" \/ (i' = i /\ j' = j))
  BY <1>1, <1>3, BoundStays DEF BoundInv, Filled
<1>4. CASE pc' \notin {"fill", "backtrack"}
  BY <1>4 DEF BoundInv
<1>5. CASE UNCHANGED vars
  BY <1>3, <1>5 DEF vars
<1>6. CASE Initialise
  <2> SUFFICES ASSUME NEW k \in 0 .. n, NEW l \in 0 .. m, Filled(k, l)'
               PROVE  Bounded(k, l)'
    BY <1>1 DEF BoundInv
  <2>1. k = 0 \/ l = 0
    BY <1>2, <1>6 DEF Initialise, Filled
  <2>2. dp'[k][l] = k + l
    BY <1>2, <1>6, <2>1 DEF Initialise
  <2>3. ASSUME NEW a \in Alignments(k, l) PROVE dp'[k][l] <= Cost(k, l, a)'
    <3>1. Cost(k, l, a) = k + l
      BY <2>1, BorderBounded
    <3>2. Cost(k, l, a)' = Cost(k, l, a)
      BY CostStays
    <3>3. QED
      BY <2>2, <3>1, <3>2
  <2>4. QED
    BY <2>3 DEF Bounded, Alignments
<1>7. CASE FillCell
  <2>1. /\ dp \in [0 .. n -> [0 .. m -> Nat]]
        /\ i \in 1 .. n /\ j \in 1 .. m
        /\ pc = "fill"
    BY <1>2, <1>7 DEF FillCell, TypeOK
  <2>2. \A k \in 0 .. n, l \in 0 .. m :
           dp'[k][l] = IF k = i /\ l = j THEN Cell(i, j) ELSE dp[k][l]
    BY ONLY <1>2, <1>7, <2>1 DEF FillCell
  <2> SUFFICES ASSUME NEW k \in 0 .. n, NEW l \in 0 .. m, Filled(k, l)'
               PROVE  Bounded(k, l)'
    BY <1>1 DEF BoundInv
  <2>3. CASE k = i /\ l = j
    <3>1. /\ i - 1 \in 0 .. n /\ j - 1 \in 0 .. m /\ i \in 0 .. n /\ j \in 0 .. m
          /\ Filled(i - 1, j) /\ Filled(i, j - 1) /\ Filled(i - 1, j - 1)
      BY ONLY <1>2, <2>1 DEF Filled
    <3>2. Bounded(i - 1, j) /\ Bounded(i, j - 1) /\ Bounded(i - 1, j - 1)
      BY ONLY <2>1, <3>1, BoundInv DEF BoundInv
    <3>3. ASSUME NEW a \in Alignments(i, j) PROVE Cell(i, j) <= Cost(i, j, a)
      BY ONLY <1>2, <2>1, <3>2, <3>3, CellBounded
    <3>4. dp'[k][l] = Cell(i, j)
      BY <2>2, <2>3
    <3>5. ASSUME NEW a \in Alignments(k, l) PROVE dp'[k][l] <= Cost(k, l, a)'
      <4>1. Cost(k, l, a)' = Cost(k, l, a)
        BY CostStays
      <4>2. QED
        BY ONLY <2>3, <3>3, <3>4, <3>5, <4>1
    <3>6. QED
      BY <3>5 DEF Bounded, Alignments
  <2>4. CASE ~(k = i /\ l = j)
    <3>1. Filled(k, l)
      <4>1. \/ j' = j + 1 /\ i' = i /\ pc' = pc
            \/ j' = 1 /\ i' = i + 1 /\ j = m /\ pc' = pc
            \/ j = m /\ i = n
        BY ONLY <1>7 DEF FillCell
      <4>2. k = 0 \/ l = 0 \/ pc' = "backtrack" \/ k < i' \/ (k = i' /\ l < j')
        BY DEF Filled
      <4>3. QED
        BY ONLY <1>2, <2>1, <2>4, <4>1, <4>2, k \in 0 .. n, l \in 0 .. m DEF Filled
    <3>2. dp'[k][l] = dp[k][l]
      BY <2>2, <2>4
    <3>3. QED
      BY <2>1, <3>1, <3>2, BoundStays DEF BoundInv
  <2>5. QED
    BY <2>3, <2>4
<1>8. QED
  BY <1>3, <1>4, <1>5, <1>6, <1>7
     DEF Next, EmptyReference, Match, Substitute, Insert, Delete, Finish, Backtracking

-----------------------------------------------------------------------------
(* The walk describes an alignment *)

\* What the walk has counted are the errors of an alignment of what it has passed.
Describes(a, k, l) ==
    /\ substitutions = Cardinality(Replaced(a))
    /\ deletions = n - k - Cardinality(a)
    /\ insertions = m - l - Cardinality(a)

WalkInv == pc = "backtrack" => \E a \in Rest(i, j) : Describes(a, i, j)

LEMMA RestFinite ==
  ASSUME NEW k \in Nat, NEW l \in Nat, n \in Nat, m \in Nat, NEW a \in Rest(k, l)
  PROVE  IsFiniteSet(a) /\ Cardinality(a) \in Nat
         /\ IsFiniteSet(Replaced(a)) /\ Cardinality(Replaced(a)) \in Nat
<1>1. a \in SUBSET ((1 .. n) \X (1 .. m))
  BY DEF Rest
<1>2. QED
  BY <1>1, AlignmentFinite

LEMMA RestGrows ==
  ASSUME NEW k \in Nat, NEW l \in Nat, n \in Nat, m \in Nat, k <= n, l <= m,
         NEW a \in Rest(k, l)
  PROVE  /\ k > 0 => a \in Rest(k - 1, l)
         /\ l > 0 => a \in Rest(k, l - 1)
         /\ <<k, l>> \notin a
         /\ k > 0 /\ l > 0 => a \cup {<<k, l>>} \in Rest(k - 1, l - 1)
<1>1. Ordered(a) /\ \A p \in a : /\ p = <<p[1], p[2]>>
                                 /\ p[1] \in k + 1 .. n /\ p[2] \in l + 1 .. m
  BY DEF Rest
<1>2. k > 0 => a \in Rest(k - 1, l)
  <2>1. k > 0 => \A p \in a : p \in (k - 1 + 1 .. n) \X (l + 1 .. m)
    BY <1>1
  <2>2. QED
    BY <1>1, <2>1 DEF Rest
<1>3. l > 0 => a \in Rest(k, l - 1)
  <2>1. l > 0 => \A p \in a : p \in (k + 1 .. n) \X (l - 1 + 1 .. m)
    BY <1>1
  <2>2. QED
    BY <1>1, <2>1 DEF Rest
<1>4. <<k, l>> \notin a
  BY <1>1
<1>5. ASSUME k > 0, l > 0 PROVE a \cup {<<k, l>>} \in Rest(k - 1, l - 1)
  <2>1. \A p \in a \cup {<<k, l>>} : p \in (k - 1 + 1 .. n) \X (l - 1 + 1 .. m)
    BY <1>1, <1>5
  <2>2. Ordered(a \cup {<<k, l>>})
    <3> SUFFICES ASSUME NEW p \in a \cup {<<k, l>>}, NEW q \in a \cup {<<k, l>>}
                 PROVE  p[1] < q[1] <=> p[2] < q[2]
      BY DEF Ordered
    <3>1. CASE p \in a /\ q \in a
      BY <1>1, <3>1 DEF Ordered
    <3>2. CASE p = <<k, l>> /\ q \in a
      BY <1>1, <3>2
    <3>3. CASE p \in a /\ q = <<k, l>>
      BY <1>1, <3>3
    <3>4. CASE p = <<k, l>> /\ q = <<k, l>>
      BY <3>4
    <3>5. QED
      BY <3>1, <3>2, <3>3, <3>4
  <2>3. QED
    BY <2>1, <2>2 DEF Rest
<1>6. QED
  BY <1>2, <1>3, <1>4, <1>5

LEMMA WalkStep ==
  ASSUME TypeOK, TableInv, pc \in {"start", "fill"} => Errors = 0, WalkInv, [Next]_vars
  PROVE  WalkInv'
<1>1. n' = n /\ m' = m
  BY TextsStay
<1>2. /\ n \in Nat /\ m \in Nat
      /\ substitutions \in Nat /\ insertions \in Nat /\ deletions \in Nat
      /\ i \in Nat /\ j \in Nat /\ i <= n /\ j <= m
  BY LengthsAreNat DEF TypeOK
<1>3. \A a : Replaced(a)' = Replaced(a)
  BY CostStays
<1>4. CASE pc' # "backtrack"
  BY <1>4 DEF WalkInv
<1>5. CASE pc' = "backtrack" /\ (Initialise \/ FillCell)
  <2>1. i' = n /\ j' = m
    BY <1>2, <1>5 DEF Initialise, FillCell
  <2>2. Errors = 0
    BY <1>5 DEF Initialise, FillCell
  <2>3. substitutions = 0 /\ insertions = 0 /\ deletions = 0
    BY ONLY <1>2, <2>2 DEF Errors
  <2>4. substitutions' = 0 /\ insertions' = 0 /\ deletions' = 0
    BY <1>5, <2>3 DEF Initialise, FillCell, counts
  <2>5. Replaced({}) = {} /\ Cardinality({}) = 0 /\ {} \in Rest(n, m)
    BY FS_EmptySet DEF Replaced, Rest, Ordered
  <2> SUFFICES \E c \in Rest(i', j') :
                  /\ substitutions' = Cardinality(Replaced(c))
                  /\ deletions' = n - i' - Cardinality(c)
                  /\ insertions' = m - j' - Cardinality(c)
    BY <1>1, <1>3 DEF WalkInv, Describes, Rest, Ordered
  <2>6. QED
    BY ONLY <1>2, <2>1, <2>4, <2>5
<1>6. ASSUME NEW a \in Rest(i, j), Describes(a, i, j), pc = "backtrack",
             Match \/ Substitute \/ Insert \/ Delete
      PROVE  WalkInv'
  <2>1. /\ IsFiniteSet(a) /\ Cardinality(a) \in Nat /\ Cardinality(Replaced(a)) \in Nat
    BY <1>2, RestFinite
  <2>2. /\ i > 0 => a \in Rest(i - 1, j)
        /\ j > 0 => a \in Rest(i, j - 1)
        /\ <<i, j>> \notin a
        /\ i > 0 /\ j > 0 => a \cup {<<i, j>>} \in Rest(i - 1, j - 1)
    BY <1>2, RestGrows
  <2> DEFINE b == a \cup {<<i, j>>}
  <2>3. /\ Cardinality(b) = Cardinality(a) + 1
        /\ Cardinality(Replaced(b)) =
             IF SameWord(i, j) THEN Cardinality(Replaced(a)) ELSE Cardinality(Replaced(a)) + 1
    BY <2>1, <2>2, WithPair
  <2> SUFFICES \E c \in Rest(i', j') :
                  /\ substitutions' = Cardinality(Replaced(c))
                  /\ deletions' = n - i' - Cardinality(c)
                  /\ insertions' = m - j' - Cardinality(c)
    BY <1>1, <1>3 DEF WalkInv, Describes, Rest, Ordered
  <2> HIDE DEF b
  <2>4. CASE Match
    <3>1. /\ i > 0 /\ j > 0 /\ SameWord(i, j) /\ i' = i - 1 /\ j' = j - 1
          /\ substitutions' = substitutions /\ deletions' = deletions
          /\ insertions' = insertions
      BY <2>4 DEF Match, CanMatch, counts
    <3>2. b \in Rest(i', j')
      BY <2>2, <3>1 DEF b
    <3>3. QED
      BY ONLY <1>2, <1>6, <2>1, <2>3, <3>1, <3>2 DEF Describes
  <2>5. CASE Substitute
    <3>1. /\ i > 0 /\ j > 0 /\ ~SameWord(i, j) /\ i' = i - 1 /\ j' = j - 1
          /\ substitutions' = substitutions + 1 /\ deletions' = deletions
          /\ insertions' = insertions
      BY <2>5 DEF Substitute, CanMatch, CanSubstitute
    <3>2. b \in Rest(i', j')
      BY <2>2, <3>1 DEF b
    <3>3. QED
      BY ONLY <1>2, <1>6, <2>1, <2>3, <3>1, <3>2 DEF Describes
  <2>6. CASE Insert
    <3>1. /\ j > 0 /\ i' = i /\ j' = j - 1
          /\ substitutions' = substitutions /\ deletions' = deletions
          /\ insertions' = insertions + 1
      BY <2>6 DEF Insert, CanInsert
    <3>2. a \in Rest(i', j')
      BY <2>2, <3>1
    <3>3. QED
      BY ONLY <1>2, <1>6, <2>1, <3>1, <3>2 DEF Describes
  <2>7. CASE Delete
    <3>1. /\ i' = i - 1 /\ j' = j
          /\ substitutions' = substitutions /\ deletions' = deletions + 1
          /\ insertions' = insertions
      BY <2>7 DEF Delete
    <3>2. i > 0
      BY <2>7, DeleteIsSound
    <3>3. a \in Rest(i', j')
      BY <2>2, <3>1, <3>2
    <3>4. QED
      BY ONLY <1>2, <1>6, <2>1, <3>1, <3>3 DEF Describes
  <2>8. QED
    BY <1>6, <2>4, <2>5, <2>6, <2>7
<1>7. CASE Match \/ Substitute \/ Insert \/ Delete
  <2>1. pc = "backtrack"
    BY <1>7 DEF Match, Substitute, Insert, Delete, Backtracking
  <2>2. QED
    BY <1>6, <1>7, <2>1 DEF WalkInv
<1>8. CASE UNCHANGED vars
  BY <1>1, <1>3, <1>8 DEF vars, counts, WalkInv, Describes, Rest, Ordered
<1>9. QED
  BY <1>4, <1>5, <1>7, <1>8 DEF Next, EmptyReference, Finish

-----------------------------------------------------------------------------
(* The result *)

LEMMA OptimalStep ==
  ASSUME TypeOK, TableInv, BoundInv, WalkInv, EditsAddUp, BreakdownIsOptimal, [Next]_vars
  PROVE  BreakdownIsOptimal'
<1>1. n' = n /\ m' = m
  BY TextsStay
<1>2. n \in Nat /\ m \in Nat
  BY LengthsAreNat
<1>3. \A k, l, a : Cost(k, l, a)' = Cost(k, l, a) /\ Replaced(a)' = Replaced(a)
  BY CostStays
<1>4. CASE pc' # "done"
  BY <1>4 DEF BreakdownIsOptimal
<1>5. CASE EmptyReference
  BY <1>1, <1>5 DEF EmptyReference, BreakdownIsOptimal
<1>6. CASE Finish
  <2>1. /\ pc = "backtrack" /\ i = 0 /\ j = 0
        /\ substitutions' = substitutions /\ insertions' = insertions
        /\ deletions' = deletions /\ Errors' = Errors
    BY <1>6 DEF Finish, counts, Errors
  <2>2. PICK a \in Rest(0, 0) : Describes(a, 0, 0)
    BY <2>1 DEF WalkInv
  <2>3. a \in Alignments(n, m)
    BY <2>2 DEF Rest, Alignments, Ordered
  <2>4. Errors + dp[0][0] = dp[n][m]
    BY <2>1 DEF EditsAddUp
  <2>5. dp[0][0] = 0
    BY <1>2, <2>1 DEF TableInv, Filled
  <2>6. Bounded(n, m)
    BY <1>2, <2>1 DEF BoundInv, Filled
  <2>7. Errors \in Nat
    BY DEF TypeOK, Errors
  <2>8. ASSUME NEW b \in Alignments(n, m) PROVE Errors <= Cost(n, m, b)
    BY ONLY <2>4, <2>5, <2>6, <2>7, <2>8 DEF Bounded
  <2>9. /\ substitutions' = Cardinality(Replaced(a))
        /\ deletions' = n - Cardinality(a)
        /\ insertions' = m - Cardinality(a)
    BY <1>2, <2>1, <2>2 DEF Describes
  <2>10. QED
    BY <1>1, <1>3, <2>1, <2>3, <2>8, <2>9 DEF BreakdownIsOptimal, Alignments
<1>7. CASE UNCHANGED vars
  BY <1>1, <1>3, <1>7 DEF vars, counts, Errors, BreakdownIsOptimal, Alignments
<1>8. QED
  BY <1>4, <1>5, <1>6, <1>7
     DEF Next, TypeOK, Initialise, FillCell, Match, Substitute, Insert, Delete, Backtracking

\* For all texts over all vocabularies, compute_wer reports an alignment of the hypothesis
\* with the reference that has the least number of errors.
THEOREM ResultIsOptimal == Spec => []BreakdownIsOptimal
<1> DEFINE Inv ==
       /\ pc \in {"start", "fill"} => Errors = 0
       /\ EditsAddUp
       /\ BoundInv
       /\ WalkInv
       /\ BreakdownIsOptimal
<1>1. Init => Inv
  BY InitCount DEF Init, BoundInv, WalkInv, BreakdownIsOptimal
<1>2. TypeOK /\ TableInv /\ Inv /\ [Next]_vars => Inv'
  BY NoErrorsYet, SumStep, BoundStep, WalkStep, OptimalStep
<1>3. QED
  BY <1>1, <1>2, TableHolds, PTL DEF Spec
=============================================================================
