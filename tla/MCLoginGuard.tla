----------------------------- MODULE MCLoginGuard -----------------------------
(* Instances of LoginGuard for TLC. *)
EXTENDS LoginGuard, TLC

MCSymmetry == Permutations(Requests) \cup Permutations(Secrets)
=============================================================================
