--------------------------- MODULE TableAggregate ---------------------------
(***************************************************************************)
(* One Table object in memory and the calls made on it, in any order.      *)
(* A method checks everything it may throw on before it writes anything,   *)
(* so a call that throws leaves the object as it was.                      *)
(***************************************************************************)
EXTENDS TableEntity

CONSTANT MaxVersion  \* bound on the version, so on the length of a run

VARIABLES
  table,     \* the object
  founders   \* the number of players it was created with (history)

vars == <<table, founders>>

Init ==
  \E s \in Selections : /\ table = NewTable(s)
                        /\ founders = Len(s)

Call(possible, result) ==
  /\ table.version < MaxVersion
  /\ table' = IF possible THEN result ELSE table
  /\ UNCHANGED founders

\* The account of a user need not have the name it had at creation: users
\* rename themselves, and the service takes both as separate arguments.
CallAddPlayer(name, id) == Call(CanAddPlayer(table, name), AddPlayer(table, name, id))

CallInactivatePlayer(id) ==
  Call(CanInactivatePlayer(table, id), InactivatePlayer(table, id))

CallArchive == Call(CanArchive(table), Archive(table))

CallUnarchive == Call(TRUE, Unarchive(table))

Next ==
  \/ \E name \in Usernames, id \in DiscordIds : CallAddPlayer(name, id)
  \/ \E id \in DiscordIds : CallInactivatePlayer(id)
  \/ CallArchive
  \/ CallUnarchive

Spec == Init /\ [][Next]_vars

-----------------------------------------------------------------------------
(* Properties *)

\* The object is a Table, with as many founders as the select menu allows.
TypeOK ==
  /\ table \in Table
  /\ founders \in MinPlayers .. MaxPlayers

\* However joins, leaves, archivals and restorations follow one another, the
\* table keeps between MIN_PLAYERS and MAX_PLAYERS active players, though
\* absent players stay in the same list (addPlayer, inactivatePlayer).
ActiveWithinLimits ==
  Cardinality(ActivePlayers(table)) \in MinPlayers .. MaxPlayers

\* A user name sits at the table at most once, even after the player who had
\* it became absent (addPlayer looks at every player).
OneSeatPerUsername ==
  \A i, j \in DOMAIN table.players :
    table.players[i].username = table.players[j].username => i = j

Absent(t) == {i \in DOMAIN t.players : t.players[i].status = "absent"}

\* What is left of the version when every player who joined after the creation
\* and every player who left are taken away.
Flips(t, f) == t.version - 1 - (Len(t.players) - f) - Cardinality(Absent(t))

\* The version alone tells the table's past: take away the players that
\* joined and those that left, and what remains is the number of times the
\* table was archived or restored, odd exactly when it is archived now.  A
\* method that changes the table without updateActions, or counts a call
\* that threw or a restoration of an active table, breaks it.
VersionTellsThePast ==
  /\ Flips(table, founders) \in Nat
  /\ Flips(table, founders) % 2 = 1 <=> table.status = "archived"
  /\ table.archivedAt = "date" <=> table.status = "archived"

\* A seat is never given up, renamed or handed on, and a player who became
\* absent stays so: no method of the aggregate brings a player back.
SeatsAreKept ==
  [][\A i \in DOMAIN table.players :
       /\ i \in DOMAIN table'.players
       /\ table'.players[i].username = table.players[i].username
       /\ table'.players[i].userDiscordId = table.players[i].userDiscordId
       /\ table.players[i].status # "active" => table'.players[i] = table.players[i]]_vars

\* An archived table does not change in any way except by being restored, and
\* restoring it changes nothing but the archival.
ArchivedTableIsFrozen ==
  [][table.status = "archived" =>
       /\ table'.players = table.players
       /\ table' # table => table'.status = "active"]_vars
=============================================================================
