--------------------------- MODULE MCDomainWorker ---------------------------
(* A small instance of DomainWorker for TLC; temporal properties: no symmetry. *)
EXTENDS DomainWorker, TLC
=============================================================================
