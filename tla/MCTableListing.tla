--------------------------- MODULE MCTableListing ---------------------------
(* A small instance of TableListing for TLC: an account is its own name, and *)
(* all drafts are made in one guild.                                        *)
EXTENDS TableListing, TLC

MCNameOf == [u \in DiscordIds |-> u]
MCGuildOf == [d \in Drafts |-> CHOOSE g \in Guilds : TRUE]

Symmetry == Permutations(DiscordIds) \cup Permutations(TableIds)
              \cup Permutations(Submissions) \cup Permutations(Drafts)
=============================================================================
