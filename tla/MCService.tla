------------------------------ MODULE MCService ------------------------------
(* Instances of Service for TLC. *)
EXTENDS Service

CONSTANTS r1, r2, x1, t1
=============================================================================
