--------------------------- MODULE MCTableService ---------------------------
(* A small instance of TableService for TLC. *)
EXTENDS TableService, TLC

Symmetry == Permutations(Usernames) \cup Permutations(DiscordIds)
              \cup Permutations(TableIds) \cup Permutations(Calls)
=============================================================================
