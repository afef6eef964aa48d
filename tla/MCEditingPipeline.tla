--------------------------- MODULE MCEditingPipeline ---------------------------
(* Instances of EditingPipeline for TLC. *)
EXTENDS EditingPipeline, TLC

CONSTANTS main, helper, testMain

Symmetry == Permutations({main, helper})
===============================================================================
