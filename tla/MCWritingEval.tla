--------------------------- MODULE MCWritingEval ---------------------------
(* Small instances of WritingEval for TLC. *)
EXTENDS WritingEval, TLC

CONSTANTS s1, s2, s3, s4, u1, x1, x2

OneOwner == [s \in Sessions |-> u1]

Symmetry == Permutations(Sessions) \cup Permutations(Slots)
=============================================================================
