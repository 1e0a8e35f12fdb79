---------------------------- MODULE TableListing ----------------------------
(***************************************************************************)
(* RpgTableListCommand beside RpgTableCreateCommand: users list the active *)
(* tables of their guild while others create them.  A list is one query,   *)
(* cut at MaxTables in an order the code does not choose, and one reply;   *)
(* the reply stands inside the try around the query.                       *)
(***************************************************************************)
EXTENDS TableCreateFlow

CONSTANTS
  Listers,    \* uses of the list command
  Guilds,
  GuildOf,    \* the guild in which each draft was made
  MaxTables   \* RpgTableListCommand.MAX_TABLES

ASSUME ListingAssumption == GuildOf \in [Drafts -> Guilds] /\ MaxTables \in Nat

VARIABLES
  step,   \* where each use stands
  guild,  \* the guild it was made in, or "none"
  known,  \* the tables its user could know of when asking (history)
  shown,  \* the tables the query found
  heard   \* "nothing", "list" or "failed": what the user saw

listingVars == <<step, guild, known, shown, heard>>

\* The tables that submissions made in a guild: the guild of their draft.
TablesOf(g, submissions) ==
  {made[s] : s \in {s \in submissions : made[s] # NoId /\ GuildOf[target[s]] = g}}

ListingInit ==
  /\ Init
  /\ step = [l \in Listers |-> "idle"]
  /\ guild = [l \in Listers |-> "none"]
  /\ known = [l \in Listers |-> {}]
  /\ shown = [l \in Listers |-> {}]
  /\ heard = [l \in Listers |-> "nothing"]

Advance(l, label) == step' = [step EXCEPT ![l] = label]

See(l, what) == heard' = [heard EXCEPT ![l] = what]

\* A list nobody will see is forgotten.
Forget(l) ==
  /\ guild' = [guild EXCEPT ![l] = "none"]
  /\ known' = [known EXCEPT ![l] = {}]
  /\ shown' = [shown EXCEPT ![l] = {}]
  /\ UNCHANGED heard

\* The command is used in a guild; elsewhere it is only answered.
Ask(l) ==
  /\ step[l] = "idle"
  /\ \E g \in Guilds :
       /\ guild' = [guild EXCEPT ![l] = g]
       /\ known' = [known EXCEPT ![l] = TablesOf(g, {s \in Submissions : answer[s] = "created"})]
  /\ Advance(l, "query")
  /\ UNCHANGED <<shown, heard>>

\* Mutant: the criteria lose the guild.
MatchingAnywhere(g) == {id \in TableIds : tables[id] # NoTable /\ tables[id].status = "active"}

\* createSearchQuery: active tables of the guild.
Matching(g) == {id \in TablesOf(g, Submissions) : tables[id] # NoTable /\ tables[id].status = "active"}

\* findMany: without a sort, any MaxTables of the tables that match.
Query(l) ==
  /\ step[l] = "query"
  /\ LET matching == Matching(guild[l])
     IN  \E some \in SUBSET matching :
           /\ some = matching \/ Cardinality(some) = MaxTables
           /\ Cardinality(some) <= MaxTables
           /\ shown' = [shown EXCEPT ![l] = some]
  /\ Advance(l, "reply")
  /\ UNCHANGED <<guild, known, heard>>

\* The query rejects, or the reply does, seen by the user or not; the catch
\* replies once more.
ListFails(l) ==
  /\ \/ step[l] \in {"query", "reply"} /\ Forget(l)
     \/ step[l] = "reply" /\ See(l, "list") /\ UNCHANGED <<guild, known, shown>>
  /\ Advance(l, "tellFailed")

\* The list reaches the user, or the reply of the catch does, which Discord
\* refuses when the first one has come through.
Reply(l) ==
  /\ \/ step[l] = "reply" /\ See(l, "list")
     \/ step[l] = "tellFailed" /\ heard[l] = "nothing" /\ See(l, "failed")
  /\ Advance(l, "done")
  /\ UNCHANGED <<guild, known, shown>>

\* The reply of the catch rejects too, and the handler throws.
ReplyFails(l) ==
  /\ step[l] = "tellFailed"
  /\ Advance(l, "done")
  /\ UNCHANGED <<guild, known, shown, heard>>

List == \E l \in Listers : Ask(l) \/ Query(l) \/ ListFails(l) \/ Reply(l) \/ ReplyFails(l)

CrashAll ==
  /\ Crash
  /\ step' = [l \in Listers |-> IF step[l] = "idle" THEN "idle" ELSE "done"]
  /\ UNCHANGED <<guild, known, shown, heard>>

ListingNext ==
  \/ Serve /\ UNCHANGED listingVars
  \/ List /\ UNCHANGED vars
  \/ CrashAll

ListingSpec == ListingInit /\ [][ListingNext]_<<vars, listingVars>>

-----------------------------------------------------------------------------
(* Properties *)

\* A list that a user sees has every table of the guild whose creation had
\* returned when the list was asked for, unless it is full, and only tables
\* made in that guild, whatever other creations are under way (findMany,
\* createSearchQuery, createTable).
CreatedTablesAreListed ==
  \A l \in Listers : heard[l] = "list" =>
    /\ known[l] \subseteq shown[l] \/ Cardinality(shown[l]) = MaxTables
    /\ \A s \in Submissions : made[s] \in shown[l] => GuildOf[target[s]] = guild[l]
=============================================================================
