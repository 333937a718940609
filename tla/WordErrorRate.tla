---------------------------- MODULE WordErrorRate ----------------------------
(***************************************************************************)
(* compute_wer of calibration/wer_engine.py: the edit distance of two      *)
(* texts, word by word, and the walk back through its table that splits    *)
(* the errors into substitutions, insertions and deletions.  One action    *)
(* per iteration of a loop.  A text is the sequence of words that          *)
(* normalise_text leaves.                                                  *)
(***************************************************************************)
EXTENDS Integers, Sequences, FiniteSetsExt

CONSTANTS Words, Texts

ASSUME TextsAssumption == Texts \subseteq Seq(Words)

VARIABLES
    reference, hypothesis,
    pc,
    dp,     \* dp[k][l]: edits that align the first k words with the first l
    i, j,   \* the loops' indices
    substitutions, insertions, deletions

texts == <<reference, hypothesis>>
counts == <<substitutions, insertions, deletions>>
vars == <<texts, pc, dp, i, j, counts>>

n == Len(reference)
m == Len(hypothesis)
Errors == substitutions + insertions + deletions

Init ==
    /\ reference \in Texts
    /\ hypothesis \in Texts
    /\ pc = "start"
    /\ dp = << >>
    /\ i = 0
    /\ j = 0
    /\ substitutions = 0
    /\ insertions = 0
    /\ deletions = 0

\* Every variable has its type; an index the walk uses is never negative, where Python
\* would take a cell from the other end of the table.
TypeOK ==
    /\ reference \in Seq(Words)
    /\ hypothesis \in Seq(Words)
    /\ pc \in {"start", "fill", "backtrack", "done"}
    /\ pc \in {"fill", "backtrack"} => dp \in [0 .. n -> [0 .. m -> Nat]] /\ n > 0
    /\ i \in 0 .. n
    /\ j \in 0 .. m
    /\ pc = "fill" => i > 0 /\ j > 0
    /\ substitutions \in Nat /\ insertions \in Nat /\ deletions \in Nat

\* The word error rate of an empty reference is undefined, and reported as 0.
EmptyReference ==
    /\ pc = "start"
    /\ n = 0
    /\ pc' = "done"
    /\ UNCHANGED <<texts, dp, i, j, counts>>

\* Mutant: the borders are not initialised.
Initialise_NoBorders ==
    /\ pc = "start"
    /\ n > 0
    /\ dp' = [k \in 0 .. n |-> [l \in 0 .. m |-> 0]]
    /\ IF m > 0 THEN pc' = "fill" /\ i' = 1 /\ j' = 1
                ELSE pc' = "backtrack" /\ i' = n /\ j' = 0
    /\ UNCHANGED <<texts, counts>>

\* The table, its borders, and the first cell to fill, if there is one.
Initialise ==
    /\ pc = "start"
    /\ n > 0
    /\ dp' = [k \in 0 .. n |-> [l \in 0 .. m |->
                 IF l = 0 THEN k ELSE IF k = 0 THEN l ELSE 0]]
    /\ IF m > 0 THEN pc' = "fill" /\ i' = 1 /\ j' = 1
                ELSE pc' = "backtrack" /\ i' = n /\ j' = 0
    /\ UNCHANGED <<texts, counts>>

SameWord(k, l) == reference[k] = hypothesis[l]

\* Mutant: a substitution is forgotten.
Cell_NoSubstitution(k, l) ==
    IF SameWord(k, l) THEN dp[k - 1][l - 1] ELSE 1 + Min({dp[k - 1][l], dp[k][l - 1]})

Cell(k, l) ==
    IF SameWord(k, l) THEN dp[k - 1][l - 1]
    ELSE 1 + Min({dp[k - 1][l], dp[k][l - 1], dp[k - 1][l - 1]})

FillCell ==
    /\ pc = "fill"
    /\ dp' = [dp EXCEPT ![i][j] = Cell(i, j)]
    /\ \/ /\ j < m
          /\ j' = j + 1
          /\ UNCHANGED <<pc, i>>
       \/ /\ j = m /\ i < n
          /\ i' = i + 1
          /\ j' = 1
          /\ UNCHANGED pc
       \/ /\ j = m /\ i = n
          /\ pc' = "backtrack"
          /\ UNCHANGED <<i, j>>
    /\ UNCHANGED <<texts, counts>>
-----------------------------------------------------------------------------
(* The walk back, with the cases in the order in which the code tries them *)

Backtracking == pc = "backtrack" /\ (i > 0 \/ j > 0)

CanMatch == i > 0 /\ j > 0 /\ SameWord(i, j)
CanSubstitute == i > 0 /\ j > 0 /\ dp[i][j] = dp[i - 1][j - 1] + 1

\* Mutant: the first word cannot be an insertion.
CanInsert_NotFirst == j > 1 /\ dp[i][j] = dp[i][j - 1] + 1

CanInsert == j > 0 /\ dp[i][j] = dp[i][j - 1] + 1

\* Mutant: the indices are not lowered.
Match_Stays ==
    /\ Backtracking
    /\ CanMatch
    /\ UNCHANGED vars

Match ==
    /\ Backtracking
    /\ CanMatch
    /\ i' = i - 1
    /\ j' = j - 1
    /\ UNCHANGED <<texts, pc, dp, counts>>

Substitute ==
    /\ Backtracking
    /\ ~CanMatch
    /\ CanSubstitute
    /\ substitutions' = substitutions + 1
    /\ i' = i - 1
    /\ j' = j - 1
    /\ UNCHANGED <<texts, pc, dp, insertions, deletions>>

Insert ==
    /\ Backtracking
    /\ ~CanMatch /\ ~CanSubstitute
    /\ CanInsert
    /\ insertions' = insertions + 1
    /\ j' = j - 1
    /\ UNCHANGED <<texts, pc, dp, i, substitutions, deletions>>

Delete ==
    /\ Backtracking
    /\ ~CanMatch /\ ~CanSubstitute /\ ~CanInsert
    /\ deletions' = deletions + 1
    /\ i' = i - 1
    /\ UNCHANGED <<texts, pc, dp, j, substitutions, insertions>>

Finish ==
    /\ pc = "backtrack"
    /\ i = 0 /\ j = 0
    /\ pc' = "done"
    /\ UNCHANGED <<texts, dp, i, j, counts>>

Next ==
    \/ EmptyReference
    \/ Initialise
    \/ FillCell
    \/ Match
    \/ Substitute
    \/ Insert
    \/ Delete
    \/ Finish

Spec == Init /\ [][Next]_vars

-----------------------------------------------------------------------------
(* Properties *)

\* The errors counted so far and the errors left, in the cell the walk has reached, are
\* the distance: whatever the ties in the table, the else branch is a deletion.
EditsAddUp == pc = "backtrack" => Errors + dp[i][j] = dp[n][m]

\* An alignment of the first k words with the first l: pairs of words, in the same order
\* on both sides.
Alignments(k, l) ==
    {a \in SUBSET ((1 .. k) \X (1 .. l)) : \A p, q \in a : p[1] < q[1] <=> p[2] < q[2]}

Replaced(a) == {p \in a : ~SameWord(p[1], p[2])}

\* What is not aligned is deleted or inserted.
Cost(k, l, a) == k + l - 2 * Cardinality(a) + Cardinality(Replaced(a))

\* The result describes an alignment, and there is none with fewer errors: this is the
\* word error rate as it is defined, not as it is computed.
BreakdownIsOptimal ==
    pc = "done" /\ n > 0 =>
        \E a \in Alignments(n, m) :
            /\ substitutions = Cardinality(Replaced(a))
            /\ deletions = n - Cardinality(a)
            /\ insertions = m - Cardinality(a)
            /\ \A b \in Alignments(n, m) : Errors <= Cost(n, m, b)
=============================================================================
