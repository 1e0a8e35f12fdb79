-------------------------- MODULE MCTableAggregate --------------------------
(* A small instance of TableAggregate for TLC. *)
EXTENDS TableAggregate, TLC

Symmetry == Permutations(Usernames) \cup Permutations(DiscordIds)
=============================================================================
