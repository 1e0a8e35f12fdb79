------------------------ MODULE TableAggregateProofs ------------------------
(***************************************************************************)
(* What the entity's methods do to a table and to the number of its active *)
(* players, and from it what TableAggregate states of a table: for any     *)
(* limits, names, accounts and length of run.                              *)
(***************************************************************************)
EXTENDS TableAggregate, FiniteSetTheorems, SequenceTheorems,
        WellFoundedInduction, TLAPS

-----------------------------------------------------------------------------
(* The methods *)

\* A player as the constructor makes it is a TablePlayer, active.
LEMMA NewPlayerType ==
  ASSUME NEW name \in Usernames, NEW id \in DiscordIds
  PROVE  /\ NewPlayer(name, id) \in TablePlayer
         /\ NewPlayer(name, id).status = "active"
         /\ NewPlayer(name, id).username = name
  BY DEF NewPlayer, TablePlayer, PlayerState

\* changePlayerStatus writes the status and the version, nothing else.
LEMMA ChangePlayerStatusType ==
  ASSUME NEW player \in TablePlayer, NEW status \in PlayerState
  PROVE  LET p == ChangePlayerStatus(player, status)
         IN  /\ p \in TablePlayer
             /\ p.username = player.username
             /\ p.userDiscordId = player.userDiscordId
             /\ p.status = status
<1> DEFINE p == ChangePlayerStatus(player, status)
<1>1. player.version + 1 \in Nat
  BY DEF TablePlayer
<1>2. p \in TablePlayer
  BY <1>1 DEF ChangePlayerStatus, TablePlayer
<1>3. p.username = player.username /\ p.userDiscordId = player.userDiscordId
  BY DEF ChangePlayerStatus, TablePlayer
<1>4. p.status = status
  BY DEF ChangePlayerStatus, TablePlayer
<1> QED
  BY <1>2, <1>3, <1>4

\* The seats of a table are a finite set, and so are its active players.
LEMMA ActiveFinite ==
  ASSUME NEW t \in Table
  PROVE  /\ IsFiniteSet(DOMAIN t.players)
         /\ IsFiniteSet(ActivePlayers(t))
         /\ ActivePlayers(t) \subseteq DOMAIN t.players
         /\ Cardinality(ActivePlayers(t)) \in Nat
<1>1. DOMAIN t.players = 1 .. Len(t.players) /\ Len(t.players) \in Nat
  BY DEF Table
<1>2. IsFiniteSet(DOMAIN t.players)
  <2>1. 1 \in Int /\ Len(t.players) \in Int
    BY <1>1
  <2> QED
    BY ONLY <1>1, <2>1, FS_Interval
<1>3. ActivePlayers(t) \subseteq DOMAIN t.players
  BY DEF ActivePlayers
<1> QED
  BY <1>2, <1>3, FS_Subset, FS_CardinalityType

\* A selection of players is a sequence of the length the menu allows.
LEMMA SelectionType ==
  ASSUME NEW s \in Selections
  PROVE  /\ s \in Seq(SelectedPlayer)
         /\ Len(s) \in MinPlayers .. MaxPlayers
         /\ DOMAIN s = 1 .. Len(s)
         /\ \A i, j \in DOMAIN s : i # j => s[i].username # s[j].username
<1>1. PICK n \in MinPlayers .. MaxPlayers :
        s \in [1 .. n -> SelectedPlayer]
  BY DEF Selections
<1>2. n \in Nat
  BY <1>1, LimitsAssumption
<1>3. s \in Seq(SelectedPlayer) /\ Len(s) = n
  <2>1. s \in Seq(SelectedPlayer)
    BY <1>1, <1>2, SeqDef
  <2>2. DOMAIN s = 1 .. n /\ DOMAIN s = 1 .. Len(s) /\ Len(s) \in Nat
    BY <1>1, <2>1
  <2> QED
    BY <1>2, <2>1, <2>2
<1>4. IsSelection(s)
  BY DEF Selections
<1> QED
  BY <1>1, <1>3, <1>4 DEF IsSelection

\* A new table is a Table, all its players are active, and it has one seat
\* for each player selected, with the name of that player.
LEMMA NewTableType ==
  ASSUME NEW s \in Selections
  PROVE  /\ NewTable(s) \in Table
         /\ DOMAIN NewTable(s).players = DOMAIN s
         /\ Len(NewTable(s).players) = Len(s)
         /\ ActivePlayers(NewTable(s)) = DOMAIN s
         /\ Cardinality(ActivePlayers(NewTable(s))) = Len(s)
         /\ \A i \in DOMAIN s : NewTable(s).players[i] =
              NewPlayer(s[i].username, s[i].userDiscordId)
<1> DEFINE ps == [i \in DOMAIN s |-> NewPlayer(s[i].username, s[i].userDiscordId)]
<1>1. /\ s \in Seq(SelectedPlayer)
      /\ Len(s) \in Nat
      /\ DOMAIN s = 1 .. Len(s)
  BY SelectionType
<1>2. \A i \in DOMAIN s : s[i].username \in Usernames /\ s[i].userDiscordId \in DiscordIds
  <2>1. \A i \in DOMAIN s : s[i] \in SelectedPlayer
    BY <1>1, ElementOfSeq
  <2> QED
    BY <2>1 DEF SelectedPlayer
<1>3. \A i \in DOMAIN s : ps[i] \in TablePlayer /\ ps[i].status = "active"
  BY <1>2, NewPlayerType
<1>4. ps \in Seq(TablePlayer) /\ Len(ps) = Len(s) /\ DOMAIN ps = DOMAIN s
  <2>1. ps \in [1 .. Len(s) -> TablePlayer]
    BY <1>1, <1>3
  <2>2. ps \in Seq(TablePlayer)
    BY <2>1, <1>1, SeqDef
  <2> QED
    BY <2>1, <2>2, <1>1
<1>5. NewTable(s).players = ps
  BY DEF NewTable
<1>6. NewTable(s) \in Table
  BY <1>4 DEF NewTable, Table, TableStatus
<1>7. ActivePlayers(NewTable(s)) = DOMAIN s
  BY <1>3, <1>4, <1>5 DEF ActivePlayers
<1>8. Cardinality(DOMAIN s) = Len(s)
  BY <1>1, FS_Interval
<1> QED
  BY <1>4, <1>5, <1>6, <1>7, <1>8

\* addPlayer adds one seat, at the end, and one active player.
LEMMA AddPlayerEffect ==
  ASSUME NEW t \in Table, NEW name \in Usernames, NEW id \in DiscordIds
  PROVE  LET u == AddPlayer(t, name, id)
         IN  /\ u \in Table
             /\ Len(u.players) = Len(t.players) + 1
             /\ \A i \in DOMAIN t.players : i \in DOMAIN u.players /\ u.players[i] = t.players[i]
             /\ DOMAIN u.players = DOMAIN t.players \cup {Len(t.players) + 1}
             /\ u.players[Len(t.players) + 1] = NewPlayer(name, id)
             /\ Cardinality(ActivePlayers(u)) = Cardinality(ActivePlayers(t)) + 1
             /\ u.version = t.version + 1
             /\ u.status = t.status /\ u.archivedAt = t.archivedAt
<1> DEFINE u == AddPlayer(t, name, id)
<1> DEFINE n == Len(t.players) + 1
<1>1. NewPlayer(name, id) \in TablePlayer /\ NewPlayer(name, id).status = "active"
  BY NewPlayerType
<1>2. t.players \in Seq(TablePlayer) /\ t.version \in Nat
  BY DEF Table
<1>3. u = [t EXCEPT !.players = Append(t.players, NewPlayer(name, id)), !.version = t.version + 1]
  BY DEF AddPlayer
<1>4. u.players = Append(t.players, NewPlayer(name, id))
  BY <1>3 DEF Table
<1>5. /\ u \in Table
      /\ u.version = t.version + 1
      /\ u.status = t.status /\ u.archivedAt = t.archivedAt
  <2>1. Append(t.players, NewPlayer(name, id)) \in Seq(TablePlayer)
    BY <1>1, <1>2
  <2>2. t.version + 1 \in Nat
    BY <1>2
  <2> QED
    BY <2>1, <2>2, <1>3 DEF Table
<1>6. /\ Len(u.players) = n
      /\ DOMAIN u.players = DOMAIN t.players \cup {n}
      /\ n \notin DOMAIN t.players
      /\ u.players[n] = NewPlayer(name, id)
      /\ \A i \in DOMAIN t.players : u.players[i] = t.players[i]
  BY <1>1, <1>2, <1>4
<1>7. ActivePlayers(u) = ActivePlayers(t) \cup {n}
  BY <1>1, <1>6 DEF ActivePlayers
<1>8. Cardinality(ActivePlayers(u)) = Cardinality(ActivePlayers(t)) + 1
  <2>1. n \notin ActivePlayers(t)
    BY <1>6, ActiveFinite
  <2> QED
    BY <2>1, <1>7, ActiveFinite, FS_AddElement
<1> QED
  BY <1>5, <1>6, <1>8

\* The seat inactivatePlayer writes is one of the account's active seats.
LEMMA FirstActiveSeatExists ==
  ASSUME NEW t \in Table, NEW id, ActiveSeatsOf(t, id) # {}
  PROVE  FirstActiveSeat(t, id) \in ActiveSeatsOf(t, id)
<1> DEFINE S == ActiveSeatsOf(t, id)
<1>1. S \subseteq Nat /\ S # {}
  <2>1. DOMAIN t.players \subseteq Nat
    BY DEF Table
  <2> QED
    BY <2>1 DEF ActiveSeatsOf, ActivePlayers
<1>2. \E i \in S : \A j \in S : i <= j
  <2>1. PICK i \in S : \A j \in S : ~ (<<j, i>> \in OpToRel(<, Nat))
    BY <1>1, NatLessThanWellFounded, WFMin
  <2>2. \A j \in S : ~ (j < i)
    BY <1>1, <2>1 DEF OpToRel
  <2> QED
    BY <1>1, <2>2
<1> QED
  BY <1>2 DEF FirstActiveSeat

\* inactivatePlayer writes one seat, an active one, which becomes absent: the
\* account and the name stay, and there is one active player less.
LEMMA InactivatePlayerEffect ==
  ASSUME NEW t \in Table, NEW id, ActiveSeatsOf(t, id) # {}
  PROVE  LET u == InactivatePlayer(t, id)
             k == FirstActiveSeat(t, id)
         IN  /\ u \in Table
             /\ k \in ActivePlayers(t)
             /\ DOMAIN u.players = DOMAIN t.players
             /\ Len(u.players) = Len(t.players)
             /\ \A i \in DOMAIN t.players \ {k} : u.players[i] = t.players[i]
             /\ u.players[k].username = t.players[k].username
             /\ u.players[k].userDiscordId = t.players[k].userDiscordId
             /\ u.players[k].status = "absent"
             /\ Cardinality(ActivePlayers(u)) = Cardinality(ActivePlayers(t)) - 1
             /\ u.version = t.version + 1
             /\ u.status = t.status /\ u.archivedAt = t.archivedAt
<1> DEFINE u == InactivatePlayer(t, id)
<1> DEFINE k == FirstActiveSeat(t, id)
<1> DEFINE p == ChangePlayerStatus(t.players[k], "absent")
<1>1. /\ t.players \in Seq(TablePlayer)
      /\ t.version \in Nat
      /\ DOMAIN t.players = 1 .. Len(t.players)
  BY DEF Table
<1>2. k \in ActivePlayers(t) /\ k \in DOMAIN t.players /\ t.players[k] \in TablePlayer
  <2>1. k \in ActivePlayers(t)
    BY FirstActiveSeatExists DEF ActiveSeatsOf
  <2> QED
    BY <2>1, <1>1, ActiveFinite, ElementOfSeq
<1>3. /\ p \in TablePlayer
      /\ p.username = t.players[k].username
      /\ p.userDiscordId = t.players[k].userDiscordId
      /\ p.status = "absent"
  BY <1>2, ChangePlayerStatusType DEF PlayerState
<1> DEFINE ps == [t.players EXCEPT ![k] = p]
<1>4. u = [t EXCEPT !.players = ps, !.version = t.version + 1]
  BY DEF InactivatePlayer, Table
<1> HIDE DEF u, k, p
<1>5. /\ ps \in Seq(TablePlayer)
      /\ Len(ps) = Len(t.players)
      /\ DOMAIN ps = DOMAIN t.players
      /\ ps[k] = p
      /\ \A i \in DOMAIN t.players \ {k} : ps[i] = t.players[i]
  <2>1. k \in 1 .. Len(t.players)
    BY <1>1, <1>2
  <2> QED
    BY <1>1, <1>3, <2>1, ExceptSeq
<1> HIDE DEF ps
<1>6. /\ u \in Table
      /\ u.players = ps
      /\ u.version = t.version + 1
      /\ u.status = t.status /\ u.archivedAt = t.archivedAt
  <2>1. t.version + 1 \in Nat
    BY <1>1
  <2> QED
    BY <1>4, <1>5, <2>1 DEF Table
<1>7. ActivePlayers(u) = ActivePlayers(t) \ {k}
  BY <1>3, <1>5, <1>6 DEF ActivePlayers
<1>8. Cardinality(ActivePlayers(u)) = Cardinality(ActivePlayers(t)) - 1
  BY <1>2, <1>7, ActiveFinite, FS_RemoveElement
<1> QED
  BY <1>2, <1>3, <1>5, <1>6, <1>8 DEF u, k

\* Archiving and restoring leave the players alone.
LEMMA ArchiveEffect ==
  ASSUME NEW t \in Table
  PROVE  /\ Archive(t) \in Table
         /\ Archive(t).players = t.players
         /\ Archive(t).status = "archived" /\ Archive(t).archivedAt = "date"
         /\ Archive(t).version = t.version + 1
<1>1. t.version + 1 \in Nat
  BY DEF Table
<1>2. Archive(t) \in Table
  BY <1>1 DEF Archive, Table, TableStatus
<1>3. Archive(t).players = t.players /\ Archive(t).version = t.version + 1
  BY DEF Archive, Table
<1>4. Archive(t).status = "archived" /\ Archive(t).archivedAt = "date"
  BY DEF Archive, Table
<1> QED
  BY <1>2, <1>3, <1>4

LEMMA UnarchiveEffect ==
  ASSUME NEW t \in Table
  PROVE  /\ Unarchive(t) \in Table
         /\ Unarchive(t).players = t.players
         /\ Unarchive(t).status = "active"
         /\ t.status = "active" => Unarchive(t) = t
         /\ t.status # "active" => /\ Unarchive(t).archivedAt = "undefined"
                                   /\ Unarchive(t).version = t.version + 1
<1>1. CASE t.status = "active"
  BY <1>1 DEF Unarchive
<1>2. CASE t.status # "active"
  <2> DEFINE u == [t EXCEPT !.status = "active", !.archivedAt = "undefined",
                            !.version = t.version + 1]
  <2>1. Unarchive(t) = u
    BY <1>2 DEF Unarchive
  <2>2. t.version + 1 \in Nat
    BY DEF Table
  <2>3. u \in Table
    BY <2>2 DEF Table, TableStatus
  <2>4. u.players = t.players /\ u.version = t.version + 1
    BY DEF Table
  <2>5. u.status = "active" /\ u.archivedAt = "undefined"
    BY DEF Table
  <2> QED
    BY <1>2, <2>1, <2>3, <2>4, <2>5
<1> QED
  BY <1>1, <1>2

-----------------------------------------------------------------------------
(* The aggregate *)

\* An update of the aggregate: the four calls, as what they leave in `table`.
LEMMA NextCases ==
  ASSUME [Next]_vars
  PROVE  \/ UNCHANGED vars
         \/ /\ founders' = founders
            /\ \/ \E name \in Usernames, id \in DiscordIds :
                    CanAddPlayer(table, name) /\ table' = AddPlayer(table, name, id)
               \/ \E id \in DiscordIds :
                    CanInactivatePlayer(table, id) /\ table' = InactivatePlayer(table, id)
               \/ CanArchive(table) /\ table' = Archive(table)
               \/ table' = Unarchive(table)
<1>1. CASE UNCHANGED vars
  BY <1>1
<1>2. CASE \E name \in Usernames, id \in DiscordIds : CallAddPlayer(name, id)
  BY <1>2 DEF CallAddPlayer, Call, vars
<1>3. CASE \E id \in DiscordIds : CallInactivatePlayer(id)
  BY <1>3 DEF CallInactivatePlayer, Call, vars
<1>4. CASE CallArchive
  BY <1>4 DEF CallArchive, Call, vars
<1>5. CASE CallUnarchive
  BY <1>5 DEF CallUnarchive, Call, vars
<1> QED
  BY <1>1, <1>2, <1>3, <1>4, <1>5 DEF Next

\* The object stays a Table through every sequence of calls.
THEOREM TypeCorrect == Spec => []TypeOK
<1>1. Init => TypeOK
  BY NewTableType, SelectionType DEF Init, TypeOK
<1>2. TypeOK /\ [Next]_vars => TypeOK'
  <2> SUFFICES ASSUME TypeOK, [Next]_vars
               PROVE  TypeOK'
    OBVIOUS
  <2>1. table \in Table /\ founders \in MinPlayers .. MaxPlayers
    BY DEF TypeOK
  <2>2. CASE UNCHANGED vars
    BY <2>1, <2>2 DEF TypeOK, vars
  <2>3. ASSUME founders' = founders,
               NEW name \in Usernames, NEW id \in DiscordIds,
               table' = AddPlayer(table, name, id)
        PROVE  TypeOK'
    BY <2>1, <2>3, AddPlayerEffect DEF TypeOK
  <2>4. ASSUME founders' = founders,
               NEW id \in DiscordIds, CanInactivatePlayer(table, id),
               table' = InactivatePlayer(table, id)
        PROVE  TypeOK'
    BY <2>1, <2>4, InactivatePlayerEffect DEF TypeOK, CanInactivatePlayer
  <2>5. CASE founders' = founders /\ table' = Archive(table)
    BY <2>1, <2>5, ArchiveEffect DEF TypeOK
  <2>6. CASE founders' = founders /\ table' = Unarchive(table)
    BY <2>1, <2>6, UnarchiveEffect DEF TypeOK
  <2> QED
    BY <2>2, <2>3, <2>4, <2>5, <2>6, NextCases
<1> QED
  BY <1>1, <1>2, PTL DEF Spec

\* The number of active players stays between the limits: each guard looks at
\* the number that the lemmas show its method to change by one.
THEOREM LimitsHold == Spec => []ActiveWithinLimits
<1>1. Init => ActiveWithinLimits
  BY NewTableType, SelectionType DEF Init, ActiveWithinLimits
<1>2. TypeOK /\ ActiveWithinLimits /\ [Next]_vars => ActiveWithinLimits'
  <2> SUFFICES ASSUME TypeOK, ActiveWithinLimits, [Next]_vars
               PROVE  ActiveWithinLimits'
    OBVIOUS
  <2>1. /\ table \in Table
        /\ Cardinality(ActivePlayers(table)) \in Nat
        /\ Cardinality(ActivePlayers(table)) \in MinPlayers .. MaxPlayers
    BY ActiveFinite DEF TypeOK, ActiveWithinLimits
  <2>2. CASE UNCHANGED vars
    BY <2>1, <2>2 DEF ActiveWithinLimits, ActivePlayers, vars
  <2>3. ASSUME NEW name \in Usernames, NEW id \in DiscordIds,
               CanAddPlayer(table, name), table' = AddPlayer(table, name, id)
        PROVE  ActiveWithinLimits'
    <3>1. Cardinality(ActivePlayers(table')) = Cardinality(ActivePlayers(table)) + 1
      BY <2>1, <2>3, AddPlayerEffect
    <3>2. Cardinality(ActivePlayers(table)) < MaxPlayers
      BY <2>3 DEF CanAddPlayer
    <3> QED
      BY <2>1, <3>1, <3>2, LimitsAssumption DEF ActiveWithinLimits, ActivePlayers
  <2>4. ASSUME NEW id \in DiscordIds,
               CanInactivatePlayer(table, id), table' = InactivatePlayer(table, id)
        PROVE  ActiveWithinLimits'
    <3>1. Cardinality(ActivePlayers(table')) = Cardinality(ActivePlayers(table)) - 1
      BY <2>1, <2>4, InactivatePlayerEffect DEF CanInactivatePlayer
    <3>2. Cardinality(ActivePlayers(table)) > MinPlayers
      BY <2>4 DEF CanInactivatePlayer
    <3> QED
      BY <2>1, <3>1, <3>2, LimitsAssumption DEF ActiveWithinLimits, ActivePlayers
  <2>5. CASE table' = Archive(table) \/ table' = Unarchive(table)
    <3>1. ActivePlayers(table') = ActivePlayers(table)
      BY <2>1, <2>5, ArchiveEffect, UnarchiveEffect DEF ActivePlayers
    <3> QED
      BY <2>1, <3>1 DEF ActiveWithinLimits, ActivePlayers
  <2> QED
    BY <2>2, <2>3, <2>4, <2>5, NextCases
<1> QED
  BY <1>1, <1>2, TypeCorrect, PTL DEF Spec

\* No user name ever has two seats: addPlayer compares the new name with that
\* of every player, present or absent, and no other method writes a name.
THEOREM UsernamesStayUnique == Spec => []OneSeatPerUsername
<1>1. Init => OneSeatPerUsername
  <2> SUFFICES ASSUME NEW s \in Selections, table = NewTable(s)
               PROVE  OneSeatPerUsername
    BY DEF Init
  <2>1. /\ DOMAIN table.players = DOMAIN s
        /\ \A i \in DOMAIN s : table.players[i].username = s[i].username
    <3>1. /\ DOMAIN table.players = DOMAIN s
          /\ \A i \in DOMAIN s :
               table.players[i] = NewPlayer(s[i].username, s[i].userDiscordId)
      BY NewTableType
    <3>2. \A i \in DOMAIN s :
            NewPlayer(s[i].username, s[i].userDiscordId).username = s[i].username
      BY DEF NewPlayer
    <3> QED
      BY <3>1, <3>2
  <2> QED
    BY <2>1, SelectionType DEF OneSeatPerUsername
<1>2. TypeOK /\ OneSeatPerUsername /\ [Next]_vars => OneSeatPerUsername'
  <2> SUFFICES ASSUME TypeOK, OneSeatPerUsername, [Next]_vars
               PROVE  OneSeatPerUsername'
    OBVIOUS
  <2>1. table \in Table
    BY DEF TypeOK
  <2>2. CASE UNCHANGED vars
    BY <2>2 DEF OneSeatPerUsername, vars
  <2>3. ASSUME NEW name \in Usernames, NEW id \in DiscordIds,
               CanAddPlayer(table, name), table' = AddPlayer(table, name, id)
        PROVE  OneSeatPerUsername'
    <3> DEFINE n == Len(table.players) + 1
    <3>1. /\ DOMAIN table'.players = DOMAIN table.players \cup {n}
          /\ table'.players[n].username = name
          /\ \A i \in DOMAIN table.players : table'.players[i] = table.players[i]
      BY <2>1, <2>3, AddPlayerEffect, NewPlayerType
    <3>2. \A i \in DOMAIN table.players : table.players[i].username # name
      BY <2>3 DEF CanAddPlayer, HasUsername
    <3> QED
      BY <3>1, <3>2 DEF OneSeatPerUsername
  <2>4. ASSUME NEW id \in DiscordIds,
               CanInactivatePlayer(table, id), table' = InactivatePlayer(table, id)
        PROVE  OneSeatPerUsername'
    <3>1. /\ DOMAIN table'.players = DOMAIN table.players
          /\ \A i \in DOMAIN table.players :
               table'.players[i].username = table.players[i].username
      BY <2>1, <2>4, InactivatePlayerEffect DEF CanInactivatePlayer
    <3> QED
      BY <3>1 DEF OneSeatPerUsername
  <2>5. CASE table' = Archive(table) \/ table' = Unarchive(table)
    <3>1. table'.players = table.players
      BY <2>1, <2>5, ArchiveEffect, UnarchiveEffect
    <3> QED
      BY <3>1 DEF OneSeatPerUsername
  <2> QED
    BY <2>2, <2>3, <2>4, <2>5, NextCases
<1> QED
  BY <1>1, <1>2, TypeCorrect, PTL DEF Spec

\* Seats are never given up, renamed or handed on, and absence is final.
THEOREM SeatsStay == Spec => SeatsAreKept
<1> DEFINE Kept == \A i \in DOMAIN table.players :
       /\ i \in DOMAIN table'.players
       /\ table'.players[i].username = table.players[i].username
       /\ table'.players[i].userDiscordId = table.players[i].userDiscordId
       /\ table.players[i].status # "active" => table'.players[i] = table.players[i]
<1>1. TypeOK /\ [Next]_vars => [Kept]_vars
  <2> SUFFICES ASSUME TypeOK, [Next]_vars, ~ UNCHANGED vars
               PROVE  Kept
    OBVIOUS
  <2>1. table \in Table
    BY DEF TypeOK
  <2>2. ASSUME NEW name \in Usernames, NEW id \in DiscordIds,
               table' = AddPlayer(table, name, id)
        PROVE  Kept
    BY <2>1, <2>2, AddPlayerEffect
  <2>3. ASSUME NEW id \in DiscordIds,
               CanInactivatePlayer(table, id), table' = InactivatePlayer(table, id)
        PROVE  Kept
    <3> DEFINE k == FirstActiveSeat(table, id)
    <3>1. /\ k \in ActivePlayers(table)
          /\ DOMAIN table'.players = DOMAIN table.players
          /\ \A i \in DOMAIN table.players \ {k} : table'.players[i] = table.players[i]
          /\ table'.players[k].username = table.players[k].username
          /\ table'.players[k].userDiscordId = table.players[k].userDiscordId
      BY <2>1, <2>3, InactivatePlayerEffect DEF CanInactivatePlayer
    <3>2. table.players[k].status = "active"
      BY <3>1 DEF ActivePlayers
    <3> QED
      BY <3>1, <3>2
  <2>4. CASE table' = Archive(table) \/ table' = Unarchive(table)
    BY <2>1, <2>4, ArchiveEffect, UnarchiveEffect
  <2> QED
    BY <2>2, <2>3, <2>4, NextCases
<1> QED
  BY <1>1, TypeCorrect, PTL DEF Spec, SeatsAreKept

-----------------------------------------------------------------------------
(* The version and the table's past *)

\* What each method does to the number of absent players.
LEMMA AbsentEffect ==
  ASSUME NEW t \in Table
  PROVE  /\ Cardinality(Absent(t)) \in Nat
         /\ \A name \in Usernames, id \in DiscordIds :
              Absent(AddPlayer(t, name, id)) = Absent(t)
         /\ \A id \in DiscordIds : ActiveSeatsOf(t, id) # {} =>
              Cardinality(Absent(InactivatePlayer(t, id))) = Cardinality(Absent(t)) + 1
         /\ Absent(Archive(t)) = Absent(t)
         /\ Absent(Unarchive(t)) = Absent(t)
<1>1. IsFiniteSet(Absent(t)) /\ Cardinality(Absent(t)) \in Nat
  <2>1. Absent(t) \subseteq DOMAIN t.players
    BY DEF Absent
  <2> QED
    BY <2>1, ActiveFinite, FS_Subset, FS_CardinalityType
<1>2. ASSUME NEW name \in Usernames, NEW id \in DiscordIds
      PROVE  Absent(AddPlayer(t, name, id)) = Absent(t)
  <2> DEFINE u == AddPlayer(t, name, id)
  <2> DEFINE n == Len(t.players) + 1
  <2>1. /\ DOMAIN u.players = DOMAIN t.players \cup {n}
        /\ \A i \in DOMAIN t.players : u.players[i] = t.players[i]
        /\ u.players[n].status = "active"
    BY AddPlayerEffect, NewPlayerType
  <2> HIDE DEF u
  <2>2. Absent(u) = Absent(t)
    BY <2>1 DEF Absent
  <2> QED
    BY <2>2 DEF u
<1>3. ASSUME NEW id \in DiscordIds, ActiveSeatsOf(t, id) # {}
      PROVE  Cardinality(Absent(InactivatePlayer(t, id))) = Cardinality(Absent(t)) + 1
  <2> DEFINE u == InactivatePlayer(t, id)
  <2> DEFINE k == FirstActiveSeat(t, id)
  <2>1. /\ k \in ActivePlayers(t)
        /\ DOMAIN u.players = DOMAIN t.players
        /\ u.players[k].status = "absent"
        /\ \A i \in DOMAIN t.players \ {k} : u.players[i] = t.players[i]
    BY <1>3, InactivatePlayerEffect
  <2>2. k \in DOMAIN t.players /\ t.players[k].status = "active"
    BY <2>1 DEF ActivePlayers
  <2> HIDE DEF u, k
  <2>3. Absent(u) = Absent(t) \cup {k} /\ k \notin Absent(t)
    BY <2>1, <2>2 DEF Absent
  <2> QED
    BY <1>1, <2>3, FS_AddElement DEF u
<1>4. Absent(Archive(t)) = Absent(t) /\ Absent(Unarchive(t)) = Absent(t)
  BY ArchiveEffect, UnarchiveEffect DEF Absent
<1> QED
  BY <1>1, <1>2, <1>3, <1>4

\* A player who leaves raises the version and the number of absent players.
LEMMA LeavingFlips ==
  ASSUME NEW t, NEW u, NEW f \in Int,
         t.version \in Nat, Len(t.players) \in Nat, Cardinality(Absent(t)) \in Nat,
         u.version = t.version + 1,
         Len(u.players) = Len(t.players),
         Cardinality(Absent(u)) = Cardinality(Absent(t)) + 1
  PROVE  Flips(u, f) = Flips(t, f)
<1> DEFINE a == Cardinality(Absent(t))
<1> DEFINE b == Cardinality(Absent(u))
<1> DEFINE l == Len(t.players)
<1> DEFINE m == Len(u.players)
<1> DEFINE v == t.version
<1> DEFINE w == u.version
<1>1. f \in Int /\ v \in Int /\ l \in Int /\ a \in Int /\ w = v + 1 /\ m = l /\ b = a + 1
  OBVIOUS
<1>2. Flips(t, f) = v - 1 - (l - f) - a /\ Flips(u, f) = w - 1 - (m - f) - b
  BY DEF Flips
<1> HIDE DEF a, b, l, m, v, w
<1>3. w - 1 - (m - f) - b = v - 1 - (l - f) - a
  BY ONLY <1>1
<1> QED
  BY <1>2, <1>3

\* The version gives away how often the table was archived and restored.
THEOREM VersionAccounts == Spec => []VersionTellsThePast
<1>1. Init => VersionTellsThePast
  <2> SUFFICES ASSUME NEW s \in Selections, table = NewTable(s), founders = Len(s)
               PROVE  VersionTellsThePast
    BY DEF Init
  <2>1. /\ DOMAIN table.players = ActivePlayers(table)
        /\ Len(table.players) = founders
        /\ founders \in Nat
    BY NewTableType, SelectionType, LimitsAssumption
  <2>2. Absent(table) = {}
    BY <2>1 DEF Absent, ActivePlayers
  <2>3. table.version = 1 /\ table.status = "active" /\ table.archivedAt = "undefined"
    BY DEF NewTable
  <2>4. Flips(table, founders) = 0
    BY <2>1, <2>2, <2>3, FS_EmptySet DEF Flips
  <2> QED
    BY <2>3, <2>4 DEF VersionTellsThePast
<1>2. TypeOK /\ VersionTellsThePast /\ [Next]_vars => VersionTellsThePast'
  <2> SUFFICES ASSUME TypeOK, VersionTellsThePast, [Next]_vars
               PROVE  VersionTellsThePast'
    OBVIOUS
  <2>1. /\ table \in Table
        /\ table.version \in Nat /\ Len(table.players) \in Nat
        /\ founders \in Int
        /\ Cardinality(Absent(table)) \in Nat
        /\ table.status \in {"active", "archived"}
    BY AbsentEffect, LimitsAssumption DEF TypeOK, Table, TableStatus
  <2>flips. Flips(table, founders) \in Int /\ Flips(table, founders) \in Nat
    BY DEF VersionTellsThePast
  <2>2. CASE UNCHANGED vars
    BY <2>2 DEF VersionTellsThePast, Flips, Absent, vars
  <2>3. ASSUME founders' = founders, NEW name \in Usernames, NEW id \in DiscordIds,
               table' = AddPlayer(table, name, id)
        PROVE  VersionTellsThePast'
    <3>1. /\ table'.version = table.version + 1
          /\ Len(table'.players) = Len(table.players) + 1
          /\ table'.status = table.status /\ table'.archivedAt = table.archivedAt
      BY <2>1, <2>3, AddPlayerEffect
    <3>2. Absent(table') = Absent(table)
      BY <2>1, <2>3, AbsentEffect
    <3>3. /\ Len(table'.players) = Len(table.players) + 1
          /\ Cardinality(Absent(table')) = Cardinality(Absent(table))
      BY <2>1, <3>1, <3>2
    <3>4. Flips(table', founders) = Flips(table, founders)
      BY <2>1, <3>1, <3>3 DEF Flips
    <3> QED
      BY <2>3, <2>flips, <3>1, <3>4 DEF VersionTellsThePast
  <2>4. ASSUME founders' = founders, NEW id \in DiscordIds,
               CanInactivatePlayer(table, id), table' = InactivatePlayer(table, id)
        PROVE  VersionTellsThePast'
    <3>1. /\ table'.version = table.version + 1
          /\ Len(table'.players) = Len(table.players)
          /\ table'.status = table.status /\ table'.archivedAt = table.archivedAt
      BY <2>1, <2>4, InactivatePlayerEffect DEF CanInactivatePlayer
    <3>2. Cardinality(Absent(table')) = Cardinality(Absent(table)) + 1
      BY <2>1, <2>4, AbsentEffect DEF CanInactivatePlayer
    <3>4. Flips(table', founders) = Flips(table, founders)
      BY <2>1, <3>1, <3>2, LeavingFlips
    <3> QED
      BY <2>4, <2>flips, <3>1, <3>4 DEF VersionTellsThePast
  <2>5. ASSUME founders' = founders, table.status # "archived",
               table' = Archive(table)
        PROVE  VersionTellsThePast'
    <3>1. /\ table'.version = table.version + 1
          /\ table'.players = table.players
          /\ table'.status = "archived" /\ table'.archivedAt = "date"
      BY <2>1, <2>5, ArchiveEffect
    <3>2. Absent(table') = Absent(table)
      BY <2>1, <2>5, AbsentEffect
    <3>3. /\ Len(table'.players) = Len(table.players)
          /\ Cardinality(Absent(table')) = Cardinality(Absent(table))
      BY <2>1, <3>1, <3>2
    <3>4. Flips(table', founders) = Flips(table, founders) + 1
      BY <2>1, <3>1, <3>3 DEF Flips
    <3> QED
      BY <2>5, <2>flips, <3>1, <3>4 DEF VersionTellsThePast
  <2>6. ASSUME founders' = founders, table.status # "active",
               table' = Unarchive(table)
        PROVE  VersionTellsThePast'
    <3>1. /\ table'.version = table.version + 1
          /\ table'.players = table.players
          /\ table'.status = "active" /\ table'.archivedAt = "undefined"
      BY <2>1, <2>6, UnarchiveEffect
    <3>2. Absent(table') = Absent(table)
      BY <2>1, <2>6, AbsentEffect
    <3>3. /\ Len(table'.players) = Len(table.players)
          /\ Cardinality(Absent(table')) = Cardinality(Absent(table))
      BY <2>1, <3>1, <3>2
    <3>4. Flips(table', founders) = Flips(table, founders) + 1
      BY <2>1, <3>1, <3>3 DEF Flips
    <3> QED
      BY <2>1, <2>6, <2>flips, <3>1, <3>4 DEF VersionTellsThePast
  <2>7. CASE founders' = founders /\ table.status = "active" /\ table' = Unarchive(table)
    BY <2>1, <2>7, UnarchiveEffect DEF VersionTellsThePast, Flips, Absent
  <2> QED
    BY <2>2, <2>3, <2>4, <2>5, <2>6, <2>7, NextCases DEF CanArchive, IsUpdatable
<1> QED
  BY <1>1, <1>2, TypeCorrect, PTL DEF Spec

\* An archived table only changes by being restored, players and all.
THEOREM ArchivedStaysFrozen == Spec => ArchivedTableIsFrozen
<1>1. TypeOK /\ [Next]_vars =>
        [table.status = "archived" =>
           /\ table'.players = table.players
           /\ table' # table => table'.status = "active"]_vars
  <2> SUFFICES ASSUME TypeOK, [Next]_vars, table.status = "archived"
               PROVE  /\ table'.players = table.players
                      /\ table' # table => table'.status = "active"
    OBVIOUS
  <2>1. table \in Table
    BY DEF TypeOK
  <2>2. UNCHANGED vars \/ table' = Unarchive(table)
    BY NextCases DEF CanAddPlayer, CanInactivatePlayer, CanArchive, IsUpdatable
  <2>3. CASE UNCHANGED vars
    BY <2>3 DEF vars
  <2>4. CASE table' = Unarchive(table)
    BY <2>1, <2>4, UnarchiveEffect
  <2> QED
    BY <2>2, <2>3, <2>4
<1> QED
  BY <1>1, TypeCorrect, PTL DEF Spec, ArchivedTableIsFrozen
=============================================================================
