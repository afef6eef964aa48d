------------------------------- MODULE MCLlmCall -------------------------------
(* Instances of LlmCall for TLC. *)
EXTENDS LlmCall

===============================================================================
