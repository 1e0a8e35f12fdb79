--------------------------- MODULE MCLogPipeline ---------------------------
(* A small instance of LogPipeline for TLC; temporal properties: no symmetry. *)
EXTENDS LogPipeline, TLC
=============================================================================
