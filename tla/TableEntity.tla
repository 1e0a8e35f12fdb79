---------------------------- MODULE TableEntity ----------------------------
(***************************************************************************)
(* The RPG table aggregate: the entities Table and TablePlayer as values,  *)
(* and each of their methods as a pair of a guard (the errors it throws)   *)
(* and a result (what it leaves in the object).  TableAggregate runs them  *)
(* on one object; TableService runs them on copies read from MongoDB.      *)
(*                                                                         *)
(* Left out: names, guild and master of the table (never written after     *)
(* construction) and createdAt/updatedAt.  Of archivedAt only whether it   *)
(* is set is kept.                                                         *)
(***************************************************************************)
EXTENDS Integers, Sequences, FiniteSets

CONSTANTS
  Usernames,    \* Discord user names
  DiscordIds,   \* Discord account ids
  MaxPlayers,   \* Table.MAX_PLAYERS, 7 in the code
  MinPlayers    \* Table.MIN_PLAYERS, 2 in the code

ASSUME LimitsAssumption ==
  /\ MaxPlayers \in Nat
  /\ MinPlayers \in Nat
  /\ MinPlayers <= MaxPlayers

PlayerState == {"active", "absent", "banned"}
TableStatus == {"active", "archived"}

TablePlayer == [username : Usernames, userDiscordId : DiscordIds,
                status : PlayerState, version : Nat]

Table == [players : Seq(TablePlayer), status : TableStatus,
          archivedAt : {"undefined", "date"}, version : Nat]

\* What the select menu of table creation hands over: between MinPlayers and
\* MaxPlayers accounts, no account twice.  Discord user names are unique at any
\* one moment, so no name appears twice either.
IsSelection(s) ==
  /\ Len(s) \in MinPlayers .. MaxPlayers
  /\ \A i, j \in DOMAIN s : i # j => /\ s[i].username # s[j].username
                                    /\ s[i].userDiscordId # s[j].userDiscordId

SelectedPlayer == [username : Usernames, userDiscordId : DiscordIds]

Selections ==
  {s \in UNION {[1 .. n -> SelectedPlayer] : n \in MinPlayers .. MaxPlayers} :
     IsSelection(s)}

-----------------------------------------------------------------------------
(* TablePlayer *)

NewPlayer(name, id) ==
  [username |-> name, userDiscordId |-> id, status |-> "active", version |-> 1]

ChangePlayerStatus(player, newStatus) ==
  [player EXCEPT !.status = newStatus, !.version = @ + 1]

-----------------------------------------------------------------------------
(* Table *)

\* The constructor takes any list of players: it checks neither their number
\* nor whether they repeat.
NewTable(selected) ==
  [players    |-> [i \in DOMAIN selected |->
                     NewPlayer(selected[i].username, selected[i].userDiscordId)],
   status     |-> "active",
   archivedAt |-> "undefined",
   version    |-> 1]

ActivePlayers(t) == {i \in DOMAIN t.players : t.players[i].status = "active"}

\* Mutant: the guard against archived tables is dropped.
IsUpdatableAlways(t) == TRUE

IsUpdatable(t) == t.status # "archived"

\* Mutant: only active players count.
HasUsernameActive(t, name) == \E i \in ActivePlayers(t) : t.players[i].username = name

\* Any player with the name counts, whatever its status and its account.
HasUsername(t, name) == \E i \in DOMAIN t.players : t.players[i].username = name

\* Mutant: the limit is off by one.
CanAddPlayerOffByOne(t, name) ==
  /\ IsUpdatable(t)
  /\ Cardinality(ActivePlayers(t)) <= MaxPlayers
  /\ ~ HasUsername(t, name)

CanAddPlayer(t, name) ==
  /\ IsUpdatable(t)
  /\ Cardinality(ActivePlayers(t)) < MaxPlayers
  /\ ~ HasUsername(t, name)

AddPlayer(t, name, id) ==
  [t EXCEPT !.players = Append(@, NewPlayer(name, id)), !.version = @ + 1]

ActiveSeatsOf(t, id) == {i \in ActivePlayers(t) : t.players[i].userDiscordId = id}

\* players.find(...): the first active player of the account.
FirstActiveSeat(t, id) ==
  CHOOSE i \in ActiveSeatsOf(t, id) : \A j \in ActiveSeatsOf(t, id) : i <= j

CanInactivatePlayer(t, id) ==
  /\ IsUpdatable(t)
  /\ Cardinality(ActivePlayers(t)) > MinPlayers
  /\ ActiveSeatsOf(t, id) # {}

\* Mutant: updateActions is forgotten.
InactivatePlayerUncounted(t, id) ==
  [t EXCEPT !.players[FirstActiveSeat(t, id)] = ChangePlayerStatus(@, "absent")]

\* Mutant: the player is taken out of the list.
InactivatePlayerRemoves(t, id) ==
  LET seat == FirstActiveSeat(t, id)
  IN  [t EXCEPT !.players = SubSeq(@, 1, seat - 1) \o SubSeq(@, seat + 1, Len(@)),
                !.version = @ + 1]

InactivatePlayer(t, id) ==
  [t EXCEPT !.players[FirstActiveSeat(t, id)] = ChangePlayerStatus(@, "absent"),
            !.version = @ + 1]

CanArchive(t) == IsUpdatable(t)

Archive(t) ==
  [t EXCEPT !.status = "archived", !.archivedAt = "date", !.version = @ + 1]

\* Mutant: the date of archival is cleared with null.
UnarchiveNull(t) ==
  IF t.status = "active" THEN t
  ELSE [t EXCEPT !.status = "active", !.archivedAt = "null", !.version = @ + 1]

\* unarchive never throws: on an active table it returns without a change.
Unarchive(t) ==
  IF t.status = "active" THEN t
  ELSE [t EXCEPT !.status = "active", !.archivedAt = "undefined", !.version = @ + 1]
=============================================================================
