---------------------------- MODULE MCAppProcess ----------------------------
(* A small instance of AppProcess for TLC; temporal properties: no symmetry. *)
EXTENDS AppProcess, TLC
=============================================================================
