--------------------------- MODULE SkillVectorLog ---------------------------
(***************************************************************************)
(* What the skill vector of a learner promises: it is the result of some   *)
(* evaluations, folded in one after the other, each into the vector that   *)
(* the previous one left, and `version' says how many.                     *)
(*                                                                         *)
(* The six dimensions are abstracted to the sequence of evaluations folded *)
(* into them.  A moving average is not commutative and never forgets, so   *)
(* two vectors are told apart exactly by these sequences.                  *)
(***************************************************************************)
EXTENDS Naturals, Sequences

CONSTANTS Users, Evaluations

VARIABLES vector, version

Init ==
  /\ vector = [u \in Users |-> <<>>]
  /\ version = [u \in Users |-> 0]

\* One evaluation is folded into the vector of u, atomically.
Fold(u, e) ==
  /\ vector' = [vector EXCEPT ![u] = Append(@, e)]
  /\ version' = [version EXCEPT ![u] = @ + 1]

Next == \E u \in Users, e \in Evaluations : Fold(u, e)

Spec == Init /\ [][Next]_<<vector, version>>
=============================================================================
