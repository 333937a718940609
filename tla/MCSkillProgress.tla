--------------------------- MODULE MCSkillProgress ---------------------------
(* Instances of SkillProgress for TLC. *)
EXTENDS SkillProgress, TLC

CONSTANTS e1, e2, e3, x1, x2

Even(quarters) == [c \in Rubric |-> quarters]

\* The ends of the scale, a tie that is rounded up and one that is rounded down, the border of
\* two levels, and an answer whose scores differ.
SomeAnswers ==
    {Even(0), Even(36), Even(27), Even(25), Even(32)}
    \cup {[Even(20) EXCEPT !.grammatical_range = 3, !.overall = 16]}

Symmetry == Permutations(Slots) \cup Permutations(Essays)
=============================================================================
