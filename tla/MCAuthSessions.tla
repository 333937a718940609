--------------------------- MODULE MCAuthSessions ---------------------------
(* Small instances of AuthSessions for TLC. *)
EXTENDS AuthSessions, TLC

CONSTANTS u1, c1, c2, t1, t2, t3, t4, t5, r1, r2, r3

OneAccount == [c \in Clients |-> u1]

Symmetry == Permutations(Clients) \cup Permutations(Tokens) \cup Permutations(Requests)
=============================================================================
