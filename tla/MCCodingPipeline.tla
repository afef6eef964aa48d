--------------------------- MODULE MCCodingPipeline ---------------------------
(* Instances of CodingPipeline for TLC. *)
EXTENDS CodingPipeline

===============================================================================
