------------------------- MODULE TableListingProofs -------------------------
(***************************************************************************)
(* Creating and listing tables in Discord, for any number of drafts,       *)
(* submissions, users, tables, lists and guilds, and for any limits: what  *)
(* a table made by a submission is, what its user is told of it, and what  *)
(* a list of the guild's tables shows, under every overlap of submissions, *)
(* every failure of Redis, Discord and the service, and every crash.       *)
(***************************************************************************)
EXTENDS TableListing, FiniteSetTheorems, SequenceTheorems, TLAPS

\* What createTable is given: the users selected, in some order.
Asked(order) ==
  [i \in DOMAIN order |-> [username |-> NameOf[order[i]], userDiscordId |-> order[i]]]

\* The table a submission may make.
AskedBy(s, t) == \E order \in InOrder(picked[s]) : t = NewTable(Asked(order))

\* The inductive invariant, for one submission.  Before createTable is called
\* nothing is made; the call is made with a draft that was read and players
\* that were judged valid; and the user is told something only at the end.
Handling(s) ==
  /\ pc[s] \in {"idle", "get", "del"} => made[s] = NoId /\ answer[s] = "none"
  /\ pc[s] \in {"tellExpired", "tellInvalid"} => made[s] = NoId
  /\ pc[s] = "create" => found[s] /\ ValidPlayers(s)
  /\ pc[s] = "tellCreated" => made[s] # NoId
  /\ told[s] # "nothing" => pc[s] = "done"
  /\ told[s] \in {"expired", "invalid"} => made[s] = NoId
  /\ told[s] = "created" \/ answer[s] = "created" => made[s] # NoId
  /\ made[s] # NoId => found[s] /\ ValidPlayers(s) /\ AskedBy(s, tables[made[s]])

\* And for the drafts.  A menu that was submitted never goes back to the state
\* in which its draft is stored, so a draft that was consumed is not stored
\* again.
MenuOf(s) == pc[s] # "idle" => menu[target[s]] \in {"shown", "closed"}

DraftsConsumed ==
  /\ cached \cap consumed = {}
  /\ \A d \in consumed : menu[d] \in {"shown", "closed"}

\* No two submissions have a table in common.
OwnTables == \A s, t \in Submissions : made[s] = made[t] /\ made[s] # NoId => s = t

FlowInv ==
  /\ TypeOK
  /\ \A s \in Submissions : Handling(s)
  /\ \A s \in Submissions : MenuOf(s)
  /\ DraftsConsumed
  /\ OwnTables

-----------------------------------------------------------------------------
(* Lemmas *)

\* The store's own copy of the entity is the entity.
LEMMA StoreEntity ==
  /\ Store!Selections = Selections
  /\ \A p : Store!NewTable(p) = NewTable(p)
<1>1. Store!SelectedPlayer = SelectedPlayer
  BY DEF Store!SelectedPlayer, SelectedPlayer
<1>2. \A p : Store!IsSelection(p) <=> IsSelection(p)
  BY DEF Store!IsSelection, IsSelection
<1>3. Store!Selections = Selections
  BY <1>1, <1>2 DEF Store!Selections, Selections
<1>4. \A n, a : Store!NewPlayer(n, a) = NewPlayer(n, a)
  BY DEF Store!NewPlayer, NewPlayer
<1>5. \A p : Store!NewTable(p) = NewTable(p)
  BY <1>4 DEF Store!NewTable, NewTable
<1> QED
  BY <1>3, <1>5

\* An order of the users names each of them once: a sequence as long as the
\* set it covers repeats nobody.
LEMMA OrderIsInjective ==
  ASSUME NEW users, Cardinality(users) \in Nat, NEW order \in InOrder(users)
  PROVE  \A i, j \in DOMAIN order : order[i] = order[j] => i = j
<1> DEFINE n == Cardinality(users)
<1>1. /\ order \in [1 .. n -> users]
      /\ \A u \in users : \E i \in DOMAIN order : order[i] = u
  BY DEF InOrder
<1>2. order \in Surjection(1 .. n, users)
  BY <1>1 DEF Surjection
<1>3. IsFiniteSet(1 .. n) /\ Cardinality(1 .. n) = n
  BY FS_Interval
<1>4. order \in Injection(1 .. n, users)
  BY <1>2, <1>3, FS_SurjSameCardinalityImpliesInj
<1>5. \A i, j \in 1 .. n : order[i] = order[j] => i = j
  BY <1>4 DEF Injection, IsInjective
<1> QED
  BY <1>1, <1>5

\* What createTable is given is a selection, as TableStore expects it.
LEMMA AskedIsSelection ==
  ASSUME NEW users \in SUBSET DiscordIds,
         Cardinality(users) \in MinPlayers .. MaxPlayers,
         NEW order \in InOrder(users)
  PROVE  /\ Asked(order) \in Selections
         /\ DOMAIN Asked(order) = DOMAIN order
         /\ DOMAIN order = 1 .. Cardinality(users)
         /\ {order[i] : i \in DOMAIN order} = users
<1> DEFINE n == Cardinality(users)
<1> DEFINE p == Asked(order)
<1>1. n \in MinPlayers .. MaxPlayers /\ n \in Nat
  BY LimitsAssumption
<1>2. /\ order \in [1 .. n -> users]
      /\ \A u \in users : \E i \in DOMAIN order : order[i] = u
  BY DEF InOrder
<1>3. \A i, j \in 1 .. n : order[i] = order[j] => i = j
  BY <1>1, <1>2, OrderIsInjective
<1>4. \A i \in 1 .. n : /\ p[i].username = NameOf[order[i]]
                        /\ p[i].userDiscordId = order[i]
                        /\ p[i] \in SelectedPlayer
  BY <1>2, NameOfAssumption DEF Asked, SelectedPlayer
<1>5. p \in [1 .. n -> SelectedPlayer] /\ DOMAIN p = 1 .. n
  BY <1>2, <1>4 DEF Asked
<1>6. Len(p) = n
  BY <1>1, <1>5
<1>7. \A i, j \in 1 .. n : i # j => /\ p[i].username # p[j].username
                                   /\ p[i].userDiscordId # p[j].userDiscordId
  BY <1>2, <1>3, <1>4, NameOfAssumption
<1>8. IsSelection(p)
  BY <1>1, <1>5, <1>6, <1>7 DEF IsSelection
<1>9. p \in Selections
  BY <1>1, <1>5, <1>8 DEF Selections
<1> QED
  BY <1>2, <1>5, <1>9

\* A new table is a Table, with an active seat for each player selected.
LEMMA NewTableOf ==
  ASSUME NEW n \in MinPlayers .. MaxPlayers, NEW p \in Selections, DOMAIN p = 1 .. n
  PROVE  /\ NewTable(p) \in Table
         /\ DOMAIN NewTable(p).players = DOMAIN p
         /\ Cardinality(ActivePlayers(NewTable(p))) = n
         /\ \A i \in DOMAIN p : NewTable(p).players[i] =
              NewPlayer(p[i].username, p[i].userDiscordId)
<1> DEFINE ps == [i \in 1 .. n |-> NewPlayer(p[i].username, p[i].userDiscordId)]
<1>1. n \in Nat
  BY LimitsAssumption
<1>2. p \in [1 .. n -> SelectedPlayer]
  BY DEF Selections
<1>3. \A i \in 1 .. n : ps[i] \in TablePlayer /\ ps[i].status = "active"
  BY <1>2 DEF SelectedPlayer, NewPlayer, TablePlayer, PlayerState
<1>4. ps \in Seq(TablePlayer)
  BY <1>1, <1>3, SeqDef
<1>5. NewTable(p).players = ps
  BY DEF NewTable
<1>6. NewTable(p) \in Table
  BY <1>4, <1>5 DEF NewTable, Table, TableStatus
<1>7. ActivePlayers(NewTable(p)) = 1 .. n
  BY <1>3, <1>5 DEF ActivePlayers
<1>8. Cardinality(1 .. n) = n
  BY <1>1, FS_Interval
<1> QED
  BY <1>5, <1>6, <1>7, <1>8

\* The table a submission may make has the users selected as its players, all
\* of them active.
LEMMA AskedTable ==
  ASSUME TypeOK, NEW s \in Submissions, ValidPlayers(s), NEW t, AskedBy(s, t)
  PROVE  /\ t \in Table
         /\ t # NoTable
         /\ t.status = "active"
         /\ Accounts(t) = picked[s]
         /\ Cardinality(ActivePlayers(t)) = Cardinality(picked[s])
<1>1. PICK order \in InOrder(picked[s]) : t = NewTable(Asked(order))
  BY DEF AskedBy
<1>2. /\ picked[s] \in SUBSET DiscordIds
      /\ Cardinality(picked[s]) \in MinPlayers .. MaxPlayers
  BY DEF TypeOK, ValidPlayers
<1> DEFINE p == Asked(order)
<1>3. /\ p \in Selections
      /\ DOMAIN p = 1 .. Cardinality(picked[s])
      /\ DOMAIN p = DOMAIN order
      /\ {order[i] : i \in DOMAIN order} = picked[s]
  BY <1>2, AskedIsSelection
<1>4. /\ NewTable(p) \in Table
      /\ DOMAIN NewTable(p).players = DOMAIN p
      /\ Cardinality(ActivePlayers(NewTable(p))) = Cardinality(picked[s])
      /\ \A i \in DOMAIN p : NewTable(p).players[i] =
            NewPlayer(p[i].username, p[i].userDiscordId)
  BY <1>2, <1>3, NewTableOf
<1>5. \A i \in DOMAIN p : p[i].userDiscordId = order[i]
  BY <1>3 DEF Asked
<1> HIDE DEF p
<1>6. \A i \in DOMAIN p : NewTable(p).players[i].userDiscordId = order[i]
  <2>1. \A name, id : NewPlayer(name, id).userDiscordId = id
    BY DEF NewPlayer
  <2> QED
    BY <1>4, <1>5, <2>1
<1>7. Accounts(t) = picked[s]
  <2>1. Accounts(t) = {NewTable(p).players[i].userDiscordId : i \in DOMAIN p}
    BY <1>1, <1>4 DEF Accounts, p
  <2> QED
    BY <2>1, <1>3, <1>6
<1>8. t.status = "active"
  BY <1>1 DEF NewTable
<1> QED
  BY <1>1, <1>4, <1>7, <1>8, NoTableAssumption DEF p

\* createTable adds a table that was asked for, under an id no table has.
LEMMA AddsWhatIsAsked ==
  ASSUME FlowInv, NEW s \in Submissions, CreateAdds(s)
  PROVE  /\ answer[s] = "none"
         /\ made[s] = NoId
         /\ ValidPlayers(s)
         /\ found[s]
         /\ UNCHANGED <<menu, master, cached, consumed, handling, answer>>
         /\ \E id \in TableIds, order \in InOrder(picked[s]) :
              /\ tables[id] = NoTable
              /\ tables' = [tables EXCEPT ![id] = NewTable(Asked(order))]
              /\ made' = [made EXCEPT ![s] = id]
<1>1. PICK order \in InOrder(picked[s]) : Store!Add(s, Asked(order))
  BY DEF CreateAdds, Asked
<1>2. /\ pc[s] = "create"
      /\ UNCHANGED <<menu, master, cached, consumed, handling>>
  BY DEF CreateAdds
<1>3. ValidPlayers(s) /\ found[s]
  BY <1>2 DEF FlowInv, Handling
<1>4. /\ answer[s] = "none"
      /\ made[s] = NoId
      /\ UNCHANGED answer
      /\ \E id \in TableIds :
           /\ tables[id] = NoTable
           /\ tables' = [tables EXCEPT ![id] = NewTable(Asked(order))]
           /\ made' = [made EXCEPT ![s] = id]
  BY <1>1, StoreEntity DEF Store!Add
<1> QED
  BY <1>2, <1>3, <1>4

\* What a step does not touch stays as it is.
LEMMA HandlingStays ==
  ASSUME NEW t \in Submissions, Handling(t),
         pc'[t] = pc[t], told'[t] = told[t], answer'[t] = answer[t],
         made'[t] = made[t], found'[t] = found[t], picked'[t] = picked[t],
         target' = target, master' = master,
         made[t] # NoId => tables'[made[t]] = tables[made[t]]
  PROVE  Handling(t)'
<1>1. ValidPlayers(t)' <=> ValidPlayers(t)
  BY DEF ValidPlayers
<1>2. made[t] # NoId => (AskedBy(t, tables[made[t]])' <=> AskedBy(t, tables[made[t]]))
  BY DEF AskedBy
<1> QED
  BY <1>1, <1>2 DEF Handling

\* A step of one submission that leaves the store and what was asked alone.
LEMMA HandlingMoves ==
  ASSUME TypeOK, NEW s \in Submissions, \A t \in Submissions : Handling(t),
         NEW label \in Pcs, pc' = [pc EXCEPT ![s] = label],
         label \in {"get", "del"} => made[s] = NoId /\ answer[s] = "none",
         label \in {"tellExpired", "tellInvalid"} => made[s] = NoId,
         label = "create" => found[s] /\ ValidPlayers(s),
         label = "tellCreated" => made[s] # NoId,
         label # "idle",
         told[s] = "nothing" \/ label = "done",
         UNCHANGED <<master, target, picked, found, told, storeVars>>
  PROVE  \A t \in Submissions : Handling(t)'
<1> SUFFICES ASSUME NEW t \in Submissions PROVE Handling(t)'
  OBVIOUS
<1>1. CASE t # s
  <2>1. pc'[t] = pc[t]
    BY <1>1 DEF TypeOK
  <2> QED
    BY <2>1, HandlingStays DEF storeVars
<1>2. CASE t = s
  <2>1. pc'[s] = label
    BY DEF TypeOK
  <2>2. ValidPlayers(s)' <=> ValidPlayers(s)
    BY DEF ValidPlayers
  <2>3. AskedBy(s, tables[made[s]])' <=> AskedBy(s, tables[made[s]])
    BY DEF AskedBy, storeVars
  <2>4. Handling(s)
    OBVIOUS
  <2> QED
    BY <1>2, <2>1, <2>2, <2>3, <2>4 DEF Handling, storeVars
<1> QED
  BY <1>1, <1>2

-----------------------------------------------------------------------------
(* The invariant is preserved *)

LEMMA FlowInvInit == Init => FlowInv
<1> SUFFICES ASSUME Init PROVE FlowInv
  OBVIOUS
<1>1. Store!Init
  BY DEF Init
<1>2. TypeOK
  BY <1>1 DEF Init, TypeOK, Store!Init, Menus, Pcs
<1>3. \A s \in Submissions : Handling(s)
  BY <1>1 DEF Init, Handling, Store!Init
<1> QED
  BY <1>1, <1>2, <1>3 DEF Init, FlowInv, MenuOf, DraftsConsumed, OwnTables, Store!Init

LEMMA FlowTypeStep == FlowInv /\ [Next]_vars => TypeOK'
<1> SUFFICES ASSUME FlowInv, [Next]_vars PROVE TypeOK'
  OBVIOUS
<1> USE DEF FlowInv
<1>1. ASSUME NEW d \in Drafts, SubmitModal(d) PROVE TypeOK'
  BY <1>1 DEF SubmitModal, SetMenu, TypeOK, Menus, handling, storeVars
<1>2. ASSUME NEW d \in Drafts, Modal(d) PROVE TypeOK'
  BY <1>2 DEF Modal, StoreDraft, ShowMenu, ModalFails, SetMenu, TypeOK, Menus,
              handling, storeVars
<1>3. ASSUME NEW d \in Drafts, Expire(d) PROVE TypeOK'
  BY <1>3 DEF Expire, TypeOK, handling, storeVars
<1>4. ASSUME NEW s \in Submissions, Submit(s) PROVE TypeOK'
  BY <1>4 DEF Submit, Goto, TypeOK, Pcs, storeVars
<1>5. ASSUME NEW s \in Submissions, GetDraft(s) PROVE TypeOK'
  BY <1>5 DEF GetDraft, Goto, TypeOK, Pcs, storeVars
<1>6. ASSUME NEW s \in Submissions, DelDraft(s) PROVE TypeOK'
  BY <1>6 DEF DelDraft, Goto, TypeOK, Pcs, storeVars
<1>7. ASSUME NEW s \in Submissions, CacheFails(s) PROVE TypeOK'
  BY <1>7 DEF CacheFails, Goto, TypeOK, Pcs, storeVars
<1>8. ASSUME NEW s \in Submissions, CreateAdds(s) PROVE TypeOK'
  <2>1. PICK id \in TableIds, order \in InOrder(picked[s]) :
          /\ tables' = [tables EXCEPT ![id] = NewTable(Asked(order))]
          /\ made' = [made EXCEPT ![s] = id]
          /\ UNCHANGED <<menu, master, cached, consumed, handling, answer>>
          /\ ValidPlayers(s)
    BY <1>8, AddsWhatIsAsked
  <2>2. NewTable(Asked(order)) \in Table
    BY <2>1, AskedTable DEF AskedBy
  <2> QED
    BY <2>1, <2>2 DEF TypeOK, handling
<1>9. ASSUME NEW s \in Submissions, CreateReturns(s) PROVE TypeOK'
  BY <1>9 DEF CreateReturns, Store!ReportCreated, Store!ReportFailed, Goto, TypeOK, Pcs
<1>10. ASSUME NEW s \in Submissions, Update(s) PROVE TypeOK'
  BY <1>10 DEF Update, Tell, SetMenu, Goto, TypeOK, Pcs, Menus, storeVars
<1>11. ASSUME NEW s \in Submissions, UpdateFails(s) PROVE TypeOK'
  BY <1>11 DEF UpdateFails, Goto, TypeOK, Pcs, storeVars
<1>12. ASSUME Crash PROVE TypeOK'
  BY <1>12 DEF Crash, TypeOK, Pcs, Menus, storeVars
<1>13. ASSUME UNCHANGED vars PROVE TypeOK'
  BY <1>13 DEF vars, TypeOK, handling, storeVars
<1> QED
  BY <1>1, <1>2, <1>3, <1>4, <1>5, <1>6, <1>7, <1>8, <1>9, <1>10, <1>11, <1>12, <1>13
     DEF Next, Serve, Handle

LEMMA HandlingStep == FlowInv /\ [Next]_vars => \A t \in Submissions : Handling(t)'
<1> SUFFICES ASSUME FlowInv, [Next]_vars PROVE \A t \in Submissions : Handling(t)'
  OBVIOUS
<1>0. TypeOK /\ \A t \in Submissions : Handling(t)
  BY DEF FlowInv
<1>1. ASSUME NEW d \in Drafts, SubmitModal(d) \/ Modal(d) \/ Expire(d)
      PROVE  \A t \in Submissions : Handling(t)'
  <2>1. UNCHANGED <<master, handling, storeVars>>
    BY <1>1 DEF SubmitModal, Modal, StoreDraft, ShowMenu, ModalFails, Expire
  <2> QED
    BY <1>0, <2>1, HandlingStays DEF handling, storeVars
<1>2. ASSUME NEW s \in Submissions, Submit(s) PROVE \A t \in Submissions : Handling(t)'
  <2>1. /\ pc[s] = "idle"
        /\ pc' = [pc EXCEPT ![s] = "get"]
        /\ \A t \in Submissions \ {s} : picked'[t] = picked[t]
        /\ UNCHANGED <<master, target, found, told, storeVars>>
    BY <1>0, <1>2 DEF Submit, Goto, TypeOK
  <2>2. ASSUME NEW t \in Submissions, t # s PROVE Handling(t)'
    BY <1>0, <2>1, <2>2, HandlingStays DEF storeVars, TypeOK
  <2>3. Handling(s)'
    <3>1. pc'[s] = "get" /\ made[s] = NoId /\ answer[s] = "none" /\ told[s] = "nothing"
      BY <1>0, <2>1 DEF TypeOK, Handling
    <3> QED
      BY <2>1, <3>1 DEF Handling, storeVars
  <2> QED
    BY <2>2, <2>3
<1>3. ASSUME NEW s \in Submissions, GetDraft(s) PROVE \A t \in Submissions : Handling(t)'
  <2>1. /\ pc[s] = "get"
        /\ pc' = [pc EXCEPT ![s] = "del"]
        /\ \A t \in Submissions \ {s} : found'[t] = found[t]
        /\ UNCHANGED <<master, target, picked, told, storeVars>>
    BY <1>0, <1>3 DEF GetDraft, Goto, TypeOK
  <2>2. ASSUME NEW t \in Submissions, t # s PROVE Handling(t)'
    BY <1>0, <2>1, <2>2, HandlingStays DEF storeVars, TypeOK
  <2>3. Handling(s)'
    <3>1. pc'[s] = "del" /\ made[s] = NoId /\ answer[s] = "none" /\ told[s] = "nothing"
      BY <1>0, <2>1 DEF TypeOK, Handling
    <3> QED
      BY <2>1, <3>1 DEF Handling, storeVars
  <2> QED
    BY <2>2, <2>3
<1>4. ASSUME NEW s \in Submissions, DelDraft(s) PROVE \A t \in Submissions : Handling(t)'
  <2>1. pc[s] = "del" /\ made[s] = NoId /\ answer[s] = "none" /\ told[s] = "nothing"
    BY <1>0, <1>4 DEF DelDraft, Handling
  <2>2. UNCHANGED <<master, target, picked, found, told, storeVars>>
    BY <1>4 DEF DelDraft
  <2>3. CASE ~ found[s]
    <3>1. pc' = [pc EXCEPT ![s] = "tellExpired"]
      BY <1>4, <2>3 DEF DelDraft, Goto
    <3> QED
      BY <1>0, <2>1, <2>2, <3>1, HandlingMoves DEF Pcs
  <2>4. CASE found[s] /\ ValidPlayers(s)
    <3>1. pc' = [pc EXCEPT ![s] = "create"]
      BY <1>4, <2>4 DEF DelDraft, Goto
    <3> QED
      BY <1>0, <2>1, <2>2, <2>4, <3>1, HandlingMoves DEF Pcs
  <2>5. CASE found[s] /\ ~ ValidPlayers(s)
    <3>1. pc' = [pc EXCEPT ![s] = "tellInvalid"]
      BY <1>4, <2>5 DEF DelDraft, Goto
    <3> QED
      BY <1>0, <2>1, <2>2, <3>1, HandlingMoves DEF Pcs
  <2> QED
    BY <2>3, <2>4, <2>5
<1>5. ASSUME NEW s \in Submissions, CacheFails(s) PROVE \A t \in Submissions : Handling(t)'
  BY <1>0, <1>5, HandlingMoves DEF CacheFails, Goto, Pcs
<1>6. ASSUME NEW s \in Submissions, CreateAdds(s) PROVE \A t \in Submissions : Handling(t)'
  <2>1. PICK id \in TableIds, order \in InOrder(picked[s]) :
          /\ tables[id] = NoTable
          /\ tables' = [tables EXCEPT ![id] = NewTable(Asked(order))]
          /\ made' = [made EXCEPT ![s] = id]
    BY <1>6, AddsWhatIsAsked DEF FlowInv
  <2>2. /\ answer[s] = "none" /\ made[s] = NoId
        /\ found[s] /\ ValidPlayers(s)
        /\ UNCHANGED <<master, pc, target, picked, found, told, answer>>
        /\ pc[s] = "create"
    BY <1>6, AddsWhatIsAsked DEF handling, CreateAdds
  <2>3. ASSUME NEW t \in Submissions, t # s PROVE Handling(t)'
    <3>1. made'[t] = made[t]
      BY <1>0, <2>1, <2>3 DEF TypeOK
    <3>2. made[t] # NoId => tables'[made[t]] = tables[made[t]]
      <4> SUFFICES ASSUME made[t] # NoId PROVE tables'[made[t]] = tables[made[t]]
        OBVIOUS
      <4>1. tables[made[t]] # NoTable
        BY <1>0, AskedTable DEF Handling
      <4> QED
        BY <1>0, <2>1, <4>1 DEF TypeOK
    <3> QED
      BY <1>0, <2>2, <3>1, <3>2, HandlingStays
  <2>4. Handling(s)'
    <3>1. made'[s] = id /\ tables'[id] = NewTable(Asked(order))
      BY <1>0, <2>1 DEF TypeOK
    <3>2. AskedBy(s, tables[made[s]])'
      BY <2>2, <3>1 DEF AskedBy
    <3>3. ValidPlayers(s)'
      BY <2>2 DEF ValidPlayers
    <3>4. Handling(s)
      BY <1>0
    <3> QED
      BY <2>2, <3>2, <3>3, <3>4 DEF Handling
  <2> QED
    BY <2>3, <2>4
<1>7. ASSUME NEW s \in Submissions, CreateReturns(s) PROVE \A t \in Submissions : Handling(t)'
  <2>1. /\ pc[s] = "create"
        /\ answer[s] = "none"
        /\ told[s] = "nothing"
        /\ UNCHANGED <<master, target, picked, found, told, tables, made>>
    BY <1>0, <1>7 DEF CreateReturns, Store!ReportCreated, Store!ReportFailed, TypeOK, Handling
  <2>2. /\ \A t \in Submissions \ {s} : pc'[t] = pc[t] /\ answer'[t] = answer[t]
        /\ \/ made[s] # NoId /\ answer'[s] = "created" /\ pc'[s] = "tellCreated"
           \/ answer'[s] = "failed" /\ pc'[s] = "tellFailed"
    BY <1>0, <1>7 DEF CreateReturns, Store!ReportCreated, Store!ReportFailed, Goto, TypeOK
  <2>3. ASSUME NEW t \in Submissions, t # s PROVE Handling(t)'
    BY <1>0, <2>1, <2>2, <2>3, HandlingStays
  <2>4. Handling(s)'
    <3>1. ValidPlayers(s)' <=> ValidPlayers(s)
      BY <2>1 DEF ValidPlayers
    <3>2. AskedBy(s, tables[made[s]])' <=> AskedBy(s, tables[made[s]])
      BY <2>1 DEF AskedBy
    <3>3. Handling(s)
      BY <1>0
    <3> QED
      BY <2>1, <2>2, <3>1, <3>2, <3>3 DEF Handling
  <2> QED
    BY <2>3, <2>4
<1>8. ASSUME NEW s \in Submissions, Update(s) PROVE \A t \in Submissions : Handling(t)'
  <2>1. /\ pc[s] \in Telling
        /\ \/ pc[s] = "tellExpired" /\ told'[s] = "expired"
           \/ pc[s] = "tellInvalid" /\ told'[s] = "invalid"
           \/ pc[s] = "tellCreated" /\ told'[s] = "created"
           \/ pc[s] = "tellFailed"  /\ told'[s] = "failed"
        /\ pc'[s] = "done"
        /\ \A t \in Submissions \ {s} : pc'[t] = pc[t] /\ told'[t] = told[t]
        /\ UNCHANGED <<master, target, picked, found, storeVars>>
    BY <1>0, <1>8 DEF Update, Tell, Goto, TypeOK, Telling
  <2>2. ASSUME NEW t \in Submissions, t # s PROVE Handling(t)'
    BY <1>0, <2>1, <2>2, HandlingStays DEF storeVars
  <2>3. Handling(s)'
    <3>1. ValidPlayers(s)' <=> ValidPlayers(s)
      BY <2>1 DEF ValidPlayers
    <3>2. AskedBy(s, tables[made[s]])' <=> AskedBy(s, tables[made[s]])
      BY <2>1 DEF AskedBy, storeVars
    <3>3. Handling(s)
      BY <1>0
    <3> QED
      BY <2>1, <3>1, <3>2, <3>3 DEF Handling, storeVars
  <2> QED
    BY <2>2, <2>3
<1>9. ASSUME NEW s \in Submissions, UpdateFails(s) PROVE \A t \in Submissions : Handling(t)'
  <2>1. told[s] = "nothing"
    BY <1>0, <1>9 DEF UpdateFails, Telling, Handling, TypeOK
  <2>2. UNCHANGED <<master, target, picked, found, told, storeVars>>
    BY <1>9 DEF UpdateFails
  <2>3. PICK label \in {"tellFailed", "done"} : pc' = [pc EXCEPT ![s] = label]
    BY <1>9 DEF UpdateFails, Goto
  <2> QED
    BY <1>0, <2>1, <2>2, <2>3, HandlingMoves DEF Pcs
<1>10. ASSUME Crash PROVE \A t \in Submissions : Handling(t)'
  <2> SUFFICES ASSUME NEW t \in Submissions PROVE Handling(t)'
    OBVIOUS
  <2>1. /\ pc'[t] = pc[t] \/ (pc[t] \in Running /\ pc'[t] = "lost")
        /\ UNCHANGED <<master, target, picked, found, told, storeVars>>
    BY <1>10 DEF Crash
  <2>2. ValidPlayers(t)' <=> ValidPlayers(t)
    BY <2>1 DEF ValidPlayers
  <2>3. AskedBy(t, tables[made[t]])' <=> AskedBy(t, tables[made[t]])
    BY <2>1 DEF AskedBy, storeVars
  <2>4. Handling(t)
    BY <1>0
  <2> QED
    BY <2>1, <2>2, <2>3, <2>4 DEF Handling, storeVars, Running
<1>11. ASSUME UNCHANGED vars PROVE \A t \in Submissions : Handling(t)'
  BY <1>0, <1>11, HandlingStays DEF vars, handling, storeVars
<1> QED
  BY <1>1, <1>2, <1>3, <1>4, <1>5, <1>6, <1>7, <1>8, <1>9, <1>10, <1>11
     DEF Next, Serve, Handle

\* A menu is shown before it is submitted, and only an answer changes it then.
LEMMA MenuStep == FlowInv /\ [Next]_vars => \A t \in Submissions : MenuOf(t)'
<1> SUFFICES ASSUME FlowInv, [Next]_vars, NEW t \in Submissions PROVE MenuOf(t)'
  OBVIOUS
<1>0. TypeOK /\ MenuOf(t) /\ target[t] \in Drafts
  BY DEF FlowInv, TypeOK
<1>1. ASSUME NEW d \in Drafts, SubmitModal(d) \/ Modal(d) \/ Expire(d) PROVE MenuOf(t)'
  BY <1>0, <1>1 DEF SubmitModal, Modal, StoreDraft, ShowMenu, ModalFails, Expire, SetMenu,
                    MenuOf, TypeOK, handling
<1>2. ASSUME NEW s \in Submissions, Submit(s) PROVE MenuOf(t)'
  BY <1>0, <1>2 DEF Submit, Goto, MenuOf, TypeOK
<1>3. ASSUME NEW s \in Submissions,
             GetDraft(s) \/ DelDraft(s) \/ CacheFails(s) \/ CreateReturns(s) \/ UpdateFails(s)
      PROVE  MenuOf(t)'
  <2>1. /\ pc[s] # "idle"
        /\ \A u \in Submissions \ {s} : pc'[u] = pc[u]
        /\ UNCHANGED <<menu, target>>
    BY <1>0, <1>3 DEF GetDraft, DelDraft, CacheFails, CreateReturns, UpdateFails, Telling,
                      Goto, TypeOK
  <2> QED
    BY <1>0, <2>1 DEF MenuOf
<1>4. ASSUME NEW s \in Submissions, CreateAdds(s) PROVE MenuOf(t)'
  BY <1>0, <1>4 DEF CreateAdds, MenuOf, handling
<1>5. ASSUME NEW s \in Submissions, Update(s) PROVE MenuOf(t)'
  <2>1. /\ pc[s] # "idle"
        /\ \A u \in Submissions \ {s} : pc'[u] = pc[u]
        /\ menu' = [menu EXCEPT ![target[s]] = "closed"]
        /\ UNCHANGED target
    BY <1>0, <1>5 DEF Update, Goto, SetMenu, TypeOK
  <2> QED
    BY <1>0, <2>1 DEF MenuOf, TypeOK
<1>6. ASSUME Crash PROVE MenuOf(t)'
  BY <1>0, <1>6 DEF Crash, MenuOf, Running
<1>7. ASSUME UNCHANGED vars PROVE MenuOf(t)'
  BY <1>0, <1>7 DEF vars, handling, MenuOf
<1> QED
  BY <1>1, <1>2, <1>3, <1>4, <1>5, <1>6, <1>7 DEF Next, Serve, Handle

\* A draft is stored before its menu is shown, and consumed after.
LEMMA ConsumedStep == FlowInv /\ [Next]_vars => DraftsConsumed'
<1> SUFFICES ASSUME FlowInv, [Next]_vars PROVE DraftsConsumed'
  OBVIOUS
<1>0. /\ TypeOK
      /\ DraftsConsumed
      /\ \A s \in Submissions : MenuOf(s) /\ target[s] \in Drafts
  BY DEF FlowInv, TypeOK
<1>1. ASSUME NEW d \in Drafts, SubmitModal(d) \/ Modal(d) \/ Expire(d) PROVE DraftsConsumed'
  BY <1>0, <1>1 DEF SubmitModal, Modal, StoreDraft, ShowMenu, ModalFails, Expire, SetMenu,
                    DraftsConsumed, TypeOK
<1>2. ASSUME NEW s \in Submissions,
             Submit(s) \/ GetDraft(s) \/ CreateAdds(s) \/ CreateReturns(s) \/ UpdateFails(s)
      PROVE  DraftsConsumed'
  <2>1. UNCHANGED <<menu, cached, consumed>>
    BY <1>2 DEF Submit, GetDraft, CreateAdds, CreateReturns, UpdateFails
  <2> QED
    BY <1>0, <2>1 DEF DraftsConsumed
<1>3. ASSUME NEW s \in Submissions, DelDraft(s) \/ CacheFails(s) PROVE DraftsConsumed'
  <2>1. /\ menu[target[s]] \in {"shown", "closed"}
        /\ UNCHANGED menu
    BY <1>0, <1>3 DEF DelDraft, CacheFails, MenuOf
  <2>2. \/ UNCHANGED <<cached, consumed>>
        \/ /\ consumed' = consumed \cup {target[s]}
           /\ cached' = cached \ {target[s]}
    BY <1>3 DEF DelDraft, CacheFails
  <2> QED
    BY <1>0, <2>1, <2>2 DEF DraftsConsumed
<1>4. ASSUME NEW s \in Submissions, Update(s) PROVE DraftsConsumed'
  BY <1>0, <1>4 DEF Update, SetMenu, DraftsConsumed, TypeOK
<1>5. ASSUME Crash PROVE DraftsConsumed'
  BY <1>0, <1>5 DEF Crash, DraftsConsumed, TypeOK
<1>6. ASSUME UNCHANGED vars PROVE DraftsConsumed'
  BY <1>0, <1>6 DEF vars, DraftsConsumed
<1> QED
  BY <1>1, <1>2, <1>3, <1>4, <1>5, <1>6 DEF Next, Serve, Handle

\* The collection only grows, and what a submission made stays its own.
Grows ==
  /\ \A id \in TableIds : tables[id] # NoTable => tables'[id] = tables[id]
  /\ \A s \in Submissions : made[s] # NoId => made'[s] = made[s]

LEMMA StoreStep ==
  ASSUME FlowInv, [Next]_vars
  PROVE  OwnTables' /\ Grows /\ UNCHANGED <<master, target>>
<1>0. TypeOK /\ OwnTables
  BY DEF FlowInv
<1>1. ASSUME UNCHANGED <<tables, made>> PROVE OwnTables' /\ Grows
  BY <1>0, <1>1 DEF OwnTables, Grows
<1>2. ASSUME NEW s \in Submissions, CreateAdds(s) PROVE OwnTables' /\ Grows
  <2>1. PICK id \in TableIds, order \in InOrder(picked[s]) :
          /\ tables[id] = NoTable
          /\ tables' = [tables EXCEPT ![id] = NewTable(Asked(order))]
          /\ made' = [made EXCEPT ![s] = id]
          /\ made[s] = NoId
    BY <1>2, AddsWhatIsAsked
  <2>2. Grows
    BY <1>0, <2>1 DEF Grows, TypeOK
  <2>3. \A t \in Submissions : made[t] # NoId => made[t] # id
    <3> SUFFICES ASSUME NEW t \in Submissions, made[t] # NoId PROVE tables[made[t]] # NoTable
      BY <2>1
    <3>1. Handling(t)
      BY DEF FlowInv
    <3> QED
      BY <1>0, <3>1, AskedTable DEF Handling
  <2>4. OwnTables'
    BY <1>0, <2>1, <2>3 DEF OwnTables, TypeOK
  <2> QED
    BY <2>2, <2>4
<1>3. UNCHANGED <<master, target>>
  BY DEF Next, Serve, Handle, SubmitModal, Modal, StoreDraft, ShowMenu, ModalFails, Expire,
         Submit, GetDraft, DelDraft, CacheFails, CreateAdds, CreateReturns, Update, UpdateFails,
         Crash, vars, handling
<1>4. UNCHANGED <<tables, made>> \/ \E s \in Submissions : CreateAdds(s)
  BY DEF Next, Serve, Handle, SubmitModal, Modal, StoreDraft, ShowMenu, ModalFails, Expire,
         Submit, GetDraft, DelDraft, CacheFails, CreateReturns, Store!ReportCreated,
         Store!ReportFailed, Update, UpdateFails, Crash, vars, storeVars
<1> QED
  BY <1>1, <1>2, <1>3, <1>4

LEMMA FlowInvStep == FlowInv /\ [Next]_vars => FlowInv'
BY FlowTypeStep, HandlingStep, MenuStep, ConsumedStep, StoreStep DEF FlowInv

\* Where a submission stands tells what it has read, made and told, and every
\* table is the one its submission asked for.
THEOREM FlowInvariant == Spec => []FlowInv
BY FlowInvInit, FlowInvStep, PTL DEF Spec

-----------------------------------------------------------------------------
(* What creation promises *)

\* The handlers' state is of the right kind in every reachable state.
THEOREM FlowTypeCorrect == Spec => []TypeOK
<1>1. FlowInv => TypeOK
  BY DEF FlowInv
<1> QED
  BY <1>1, FlowInvariant, PTL

\* A table made through Discord is the one its submission asked for.
THEOREM FlowTablesAreAsAsked == Spec => []TablesAreAsAsked
<1>1. ASSUME FlowInv PROVE TablesAreAsAsked
  <2> SUFFICES ASSUME NEW s \in Submissions, made[s] # NoId
               PROVE  /\ found[s]
                      /\ Accounts(tables[made[s]]) = picked[s]
                      /\ Cardinality(ActivePlayers(tables[made[s]])) \in MinPlayers .. MaxPlayers
                      /\ master[target[s]] \notin Accounts(tables[made[s]])
    BY DEF TablesAreAsAsked
  <2>1. found[s] /\ ValidPlayers(s) /\ AskedBy(s, tables[made[s]])
    BY <1>1 DEF FlowInv, Handling
  <2>2. /\ Accounts(tables[made[s]]) = picked[s]
        /\ Cardinality(ActivePlayers(tables[made[s]])) = Cardinality(picked[s])
    BY <1>1, <2>1, AskedTable DEF FlowInv
  <2> QED
    BY <2>1, <2>2 DEF ValidPlayers
<1> QED
  BY <1>1, FlowInvariant, PTL

\* What the user is told of success, expiry and invalid players is true.
THEOREM FlowAnswersAreTrue == Spec => []AnswersAreTrue
<1>1. ASSUME FlowInv PROVE AnswersAreTrue
  <2> SUFFICES ASSUME NEW s \in Submissions
               PROVE  /\ told[s] = "created" => made[s] # NoId /\ tables[made[s]] # NoTable
                      /\ told[s] \in {"expired", "invalid"} => made[s] = NoId
    BY DEF AnswersAreTrue
  <2>1. Handling(s) /\ TypeOK
    BY <1>1 DEF FlowInv
  <2>2. made[s] # NoId => tables[made[s]] # NoTable
    BY <2>1, AskedTable DEF Handling
  <2> QED
    BY <2>1, <2>2 DEF Handling
<1> QED
  BY <1>1, FlowInvariant, PTL

\* No submission reads a draft that another one has consumed.
THEOREM FlowConsumedDraftsStayGone == Spec => ConsumedDraftsStayGone
<1>1. ASSUME FlowInv, [Next]_vars, NEW s \in Submissions, found'[s], ~ found[s]
      PROVE  target[s] \notin consumed
  <2>1. ASSUME NEW t \in Submissions, GetDraft(t) PROVE target[s] \in cached
    BY <1>1, <2>1 DEF GetDraft, FlowInv, TypeOK
  <2>2. (UNCHANGED found) \/ \E t \in Submissions : GetDraft(t)
    BY <1>1 DEF Next, Serve, Handle, SubmitModal, Modal, StoreDraft, ShowMenu, ModalFails,
           Expire, Submit, DelDraft, CacheFails, CreateAdds, CreateReturns, Update,
           UpdateFails, Crash, vars, handling
  <2> QED
    BY <1>1, <2>1, <2>2 DEF FlowInv, DraftsConsumed
<1>2. FlowInv /\ [Next]_vars =>
        [\A s \in Submissions : found'[s] /\ ~ found[s] => target[s] \notin consumed]_vars
  BY <1>1
<1> QED
  BY <1>2, FlowInvariant, PTL DEF Spec, ConsumedDraftsStayGone

\* The command uses createTable only through what TableStore promises of it,
\* with arguments TableStore accepts: every behaviour of the flow is one of
\* the store, as every behaviour of TableService is.
THEOREM FlowUsesTheStore == Spec => Store!Spec
<1>1. Init => Store!Init
  BY DEF Init
<1>2. ASSUME FlowInv, [Next]_vars PROVE [Store!Next]_(Store!storeVars)
  <2>1. ASSUME NEW s \in Submissions, CreateAdds(s) PROVE Store!Next
    <3>1. PICK order \in InOrder(picked[s]) : Store!Add(s, Asked(order))
      BY <2>1 DEF CreateAdds, Asked
    <3>2. Asked(order) \in Store!Selections
      BY <1>2, <2>1, <3>1, AddsWhatIsAsked, AskedIsSelection, StoreEntity
         DEF FlowInv, TypeOK, ValidPlayers
    <3> QED
      BY <3>1, <3>2 DEF Store!Next
  <2>2. ASSUME NEW s \in Submissions, CreateReturns(s) PROVE Store!Next
    BY <2>2 DEF CreateReturns, Store!Next
  <2>3. \/ UNCHANGED <<tables, made, answer>>
        \/ \E s \in Submissions : CreateAdds(s) \/ CreateReturns(s)
    BY <1>2 DEF Next, Serve, Handle, SubmitModal, Modal, StoreDraft, ShowMenu, ModalFails,
           Expire, Submit, GetDraft, DelDraft, CacheFails, Update, UpdateFails, Crash, vars,
           storeVars
  <2> QED
    BY <2>1, <2>2, <2>3 DEF Store!storeVars
<1> QED
  BY <1>1, <1>2, FlowInvariant, PTL DEF Spec, Store!Spec

-----------------------------------------------------------------------------
(* Listing *)

\* Listing only reads: with the lists taken away, what is left is the flow.
LEMMA ListingIsFlow == ListingSpec => Spec
<1>1. ListingInit => Init
  BY DEF ListingInit
<1>2. [ListingNext]_<<vars, listingVars>> => [Next]_vars
  BY DEF ListingNext, CrashAll, Next, vars
<1> QED
  BY <1>1, <1>2, PTL DEF ListingSpec, Spec

\* The inductive invariant, for one use of the list command.  What its user
\* could know of and what the query found are tables of the guild, active
\* ones, for as long as they are kept.
Listed(l) ==
  /\ step[l] \in {"idle", "query", "reply"} => heard[l] = "nothing"
  /\ step[l] = "idle" => known[l] = {} /\ shown[l] = {}
  /\ known[l] \subseteq Matching(guild[l])
  /\ shown[l] \subseteq Matching(guild[l])
  /\ step[l] = "reply" \/ heard[l] = "list" =>
       known[l] \subseteq shown[l] \/ Cardinality(shown[l]) = MaxTables

ListInv ==
  /\ step \in [Listers -> {"idle", "query", "reply", "tellFailed", "done"}]
  /\ guild \in [Listers -> Guilds \cup {"none"}]
  /\ DOMAIN known = Listers /\ DOMAIN shown = Listers /\ DOMAIN heard = Listers
  /\ \A l \in Listers : Listed(l)

LEMMA ListInvInit == ListingInit => ListInv
BY DEF ListingInit, ListInv, Listed

\* What matches a query goes on matching it.
LEMMA MatchingGrows ==
  ASSUME FlowInv, [Next]_vars, NEW g
  PROVE  Matching(g) \subseteq Matching(g)'
<1>1. TypeOK /\ Grows /\ UNCHANGED target
  BY StoreStep DEF FlowInv
<1> SUFFICES ASSUME NEW id \in Matching(g) PROVE id \in Matching(g)'
  OBVIOUS
<1>2. PICK s \in Submissions : made[s] = id /\ made[s] # NoId /\ GuildOf[target[s]] = g
  BY DEF Matching, TablesOf
<1>3. tables[id] # NoTable /\ tables[id].status = "active" /\ id \in TableIds
  BY <1>1, <1>2 DEF Matching, TypeOK
<1>4. tables'[id] = tables[id] /\ made'[s] = made[s]
  BY <1>1, <1>2, <1>3 DEF Grows
<1> QED
  BY <1>1, <1>2, <1>3, <1>4 DEF Matching, TablesOf

\* A list that nobody works on keeps what it has.
LEMMA ListedStays ==
  ASSUME FlowInv, [Next]_vars, NEW l \in Listers, Listed(l),
         \/ step'[l] = step[l]
         \/ step'[l] = "done",
         guild'[l] = guild[l], known'[l] = known[l], shown'[l] = shown[l], heard'[l] = heard[l]
  PROVE  Listed(l)'
<1>1. Matching(guild[l]) \subseteq Matching(guild[l])'
  <2> DEFINE g == guild[l]
  <2>1. PICK h : h = g
    OBVIOUS
  <2>2. Matching(h) \subseteq Matching(h)'
    BY MatchingGrows
  <2> QED
    BY <2>1, <2>2 DEF Matching, TablesOf
<1> QED
  BY <1>1 DEF Listed

\* The tables a user could know of when asking match the query.
LEMMA KnownMatches ==
  ASSUME FlowInv, NEW g
  PROVE  TablesOf(g, {s \in Submissions : answer[s] = "created"}) \subseteq Matching(g)
<1> SUFFICES ASSUME NEW s \in Submissions, answer[s] = "created", made[s] # NoId
             PROVE  tables[made[s]] # NoTable /\ tables[made[s]].status = "active"
  BY DEF TablesOf, Matching
<1>1. Handling(s) /\ TypeOK
  BY DEF FlowInv
<1> QED
  BY <1>1, AskedTable DEF Handling

\* A step of one list, seen from that list.
LEMMA ListingStepOwn ==
  ASSUME FlowInv, ListInv, NEW l \in Listers, UNCHANGED vars,
         Ask(l) \/ Query(l) \/ ListFails(l) \/ Reply(l) \/ ReplyFails(l)
  PROVE  Listed(l)'
<1>0. Listed(l) /\ l \in DOMAIN step /\ l \in DOMAIN guild /\ l \in DOMAIN known
        /\ l \in DOMAIN shown /\ l \in DOMAIN heard
  BY DEF ListInv
<1>1. \A g : Matching(g)' = Matching(g)
  BY DEF vars, handling, storeVars, Matching, TablesOf
<1>2. CASE Ask(l)
  <2>1. PICK g \in Guilds :
          /\ guild'[l] = g
          /\ known'[l] = TablesOf(g, {s \in Submissions : answer[s] = "created"})
    BY <1>0, <1>2 DEF Ask
  <2>2. step'[l] = "query" /\ step[l] = "idle" /\ UNCHANGED <<shown, heard>>
    BY <1>0, <1>2 DEF Ask, Advance
  <2>3. known'[l] \subseteq Matching(g)
    BY <2>1, KnownMatches
  <2> QED
    BY <1>0, <1>1, <2>1, <2>2, <2>3 DEF Listed
<1>3. CASE Query(l)
  <2>1. PICK some \in SUBSET Matching(guild[l]) :
          /\ some = Matching(guild[l]) \/ Cardinality(some) = MaxTables
          /\ shown'[l] = some
    BY <1>0, <1>3 DEF Query
  <2>2. step'[l] = "reply" /\ step[l] = "query" /\ UNCHANGED <<guild, known, heard>>
    BY <1>0, <1>3 DEF Query, Advance
  <2> QED
    BY <1>0, <1>1, <2>1, <2>2 DEF Listed
<1>4. CASE ListFails(l)
  <2>1. step'[l] = "tellFailed" /\ step[l] \in {"query", "reply"}
    BY <1>0, <1>4 DEF ListFails, Advance
  <2>2. CASE Forget(l)
    <3>1. /\ guild'[l] = "none" /\ known'[l] = {} /\ shown'[l] = {}
          /\ heard'[l] = "nothing"
      BY <1>0, <2>1, <2>2 DEF Forget, Listed
    <3> QED
      BY <2>1, <3>1 DEF Listed
  <2>3. CASE step[l] = "reply" /\ See(l, "list") /\ UNCHANGED <<guild, known, shown>>
    BY <1>0, <1>1, <2>1, <2>3 DEF See, Listed
  <2> QED
    BY <1>4, <2>2, <2>3 DEF ListFails
<1>5. CASE Reply(l)
  <2>1. step'[l] = "done" /\ UNCHANGED <<guild, known, shown>>
    BY <1>0, <1>5 DEF Reply, Advance
  <2>2. \/ step[l] = "reply" /\ heard'[l] = "list"
        \/ heard'[l] = "failed"
    BY <1>0, <1>5 DEF Reply, See
  <2> QED
    BY <1>0, <1>1, <2>1, <2>2 DEF Listed
<1>6. CASE ReplyFails(l)
  <2>1. step'[l] = "done" /\ UNCHANGED <<guild, known, shown, heard>>
    BY <1>0, <1>6 DEF ReplyFails, Advance
  <2> QED
    BY <1>0, <1>1, <2>1 DEF Listed
<1> QED
  BY <1>2, <1>3, <1>4, <1>5, <1>6

LEMMA ListInvStep ==
  FlowInv /\ ListInv /\ [ListingNext]_<<vars, listingVars>> => ListInv'
<1> SUFFICES ASSUME FlowInv, ListInv, [ListingNext]_<<vars, listingVars>> PROVE ListInv'
  OBVIOUS
<1>1. [Next]_vars
  BY DEF ListingNext, CrashAll, Next, vars
<1>2. ASSUME UNCHANGED listingVars PROVE ListInv'
  <2>1. \A l \in Listers : Listed(l)'
    BY <1>1, <1>2, ListedStays DEF ListInv, listingVars
  <2> QED
    BY <1>2, <2>1 DEF ListInv, listingVars
<1>3. ASSUME CrashAll PROVE ListInv'
  <2>1. /\ step' = [l \in Listers |-> IF step[l] = "idle" THEN "idle" ELSE "done"]
        /\ UNCHANGED <<guild, known, shown, heard>>
    BY <1>3 DEF CrashAll
  <2>2. \A l \in Listers : Listed(l)'
    BY <1>1, <2>1, ListedStays DEF ListInv
  <2> QED
    BY <2>1, <2>2 DEF ListInv
<1>4. ASSUME NEW l \in Listers,
             Ask(l) \/ Query(l) \/ ListFails(l) \/ Reply(l) \/ ReplyFails(l),
             UNCHANGED vars
      PROVE  ListInv'
  <2>1. /\ step' \in [Listers -> {"idle", "query", "reply", "tellFailed", "done"}]
        /\ guild' \in [Listers -> Guilds \cup {"none"}]
    BY <1>4 DEF ListInv, Ask, Query, ListFails, Reply, ReplyFails, Forget, Advance
  <2>2. /\ DOMAIN known' = Listers /\ DOMAIN shown' = Listers /\ DOMAIN heard' = Listers
    BY <1>4 DEF ListInv, Ask, Query, ListFails, Reply, ReplyFails, Forget, See
  <2>3. \A m \in Listers \ {l} :
          /\ step'[m] = step[m]
          /\ guild'[m] = guild[m]
          /\ known'[m] = known[m]
          /\ shown'[m] = shown[m]
          /\ heard'[m] = heard[m]
    BY <1>4 DEF ListInv, Ask, Query, ListFails, Reply, ReplyFails, Forget, Advance, See
  <2>4. \A m \in Listers : Listed(m)'
    BY <1>1, <1>4, <2>3, ListedStays, ListingStepOwn DEF ListInv
  <2> QED
    BY <2>1, <2>2, <2>4 DEF ListInv
<1> QED
  BY <1>2, <1>3, <1>4 DEF ListingNext, List

\* A list that a user sees is complete unless it is full, and of the guild.
THEOREM ListsAreComplete == ListingSpec => []CreatedTablesAreListed
<1>1. ASSUME FlowInv, ListInv PROVE CreatedTablesAreListed
  <2> SUFFICES ASSUME NEW l \in Listers, heard[l] = "list"
               PROVE  /\ known[l] \subseteq shown[l] \/ Cardinality(shown[l]) = MaxTables
                      /\ \A s \in Submissions :
                           made[s] \in shown[l] => GuildOf[target[s]] = guild[l]
    BY DEF CreatedTablesAreListed
  <2>1. Listed(l)
    BY <1>1 DEF ListInv
  <2>2. ASSUME NEW s \in Submissions, made[s] \in shown[l]
        PROVE  GuildOf[target[s]] = guild[l]
    <3>1. PICK t \in Submissions :
            made[t] = made[s] /\ made[t] # NoId /\ GuildOf[target[t]] = guild[l]
      BY <2>1, <2>2 DEF Listed, Matching, TablesOf
    <3> QED
      BY <1>1, <3>1 DEF FlowInv, OwnTables
  <2> QED
    BY <2>1, <2>2 DEF Listed
<1>2. ListingSpec => []FlowInv
  BY ListingIsFlow, FlowInvariant, PTL
<1>3. ListingSpec => []ListInv
  BY <1>2, ListInvInit, ListInvStep, PTL DEF ListingSpec
<1> QED
  BY <1>1, <1>2, <1>3, PTL

=============================================================================
