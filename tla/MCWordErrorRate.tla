-------------------------- MODULE MCWordErrorRate --------------------------
(* Small instances of WordErrorRate for TLC. *)
EXTENDS WordErrorRate

CONSTANTS MaxLength

ShortTexts == UNION {[1 .. k -> Words] : k \in 0 .. MaxLength}
=============================================================================
