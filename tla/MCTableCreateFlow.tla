------------------------- MODULE MCTableCreateFlow -------------------------
(* A small instance of TableCreateFlow for TLC: an account is its own name. *)
EXTENDS TableCreateFlow

MCNameOf == [u \in DiscordIds |-> u]
=============================================================================
