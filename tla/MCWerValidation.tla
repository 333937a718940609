-------------------------- MODULE MCWerValidation --------------------------
(* Small instances of WerValidation for TLC. *)
EXTENDS WerValidation, TLC

CONSTANTS s1, s2, en, fr, q1, q2

OneEach == [s \in Samples |-> IF s = s1 THEN en ELSE fr]

Symmetry == Permutations(Requests)
=============================================================================
