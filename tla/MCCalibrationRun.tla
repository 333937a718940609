--------------------------- MODULE MCCalibrationRun ---------------------------
(* Instances of CalibrationRun for TLC: examiners gave the essays the bands   *)
(* 4, 5, 6, ..., and the provider answers one of Bands, for every category.   *)
EXTENDS CalibrationRun

MCCategories == {"lexical_resource", "overall"}
MCAnswers == {[c \in MCCategories |-> b] : b \in Bands}
MCConsensus == [e \in Essays |-> [c \in MCCategories |-> 12 + 4 * e]]
=============================================================================
