------------------------- MODULE TableServiceProofs -------------------------
(***************************************************************************)
(* The table service keeps the promise of TableStore, for any number of    *)
(* calls, tables, names and accounts, under every overlap of the calls,    *)
(* every crash and every database failure.                                 *)
(***************************************************************************)
EXTENDS TableService, FiniteSetTheorems, SequenceTheorems, TLAPS

IInv == TypeOK /\ CallsAreConsistent /\ EveryTableHasOneMaker

\* What the constructor makes of a selection is a Table.
LEMMA NewTableType ==
  ASSUME NEW s \in Selections
  PROVE  NewTable(s) \in Table
<1>1. PICK n \in MinPlayers .. MaxPlayers : s \in [1 .. n -> SelectedPlayer]
  BY DEF Selections
<1>2. n \in Nat
  BY <1>1, LimitsAssumption
<1>3. \A i \in 1 .. n : NewPlayer(s[i].username, s[i].userDiscordId) \in TablePlayer
  BY <1>1 DEF SelectedPlayer, NewPlayer, TablePlayer, PlayerState
<1>4. [i \in 1 .. n |-> NewPlayer(s[i].username, s[i].userDiscordId)] \in Seq(TablePlayer)
  BY <1>2, <1>3, SeqDef
<1> QED
  BY <1>1, <1>4 DEF NewTable, Table, TableStatus

\* The methods of the entity make a Table of a Table.
LEMMA ResultType ==
  ASSUME NEW r \in Requests, r.op # "create", NEW t \in Table
  PROVE  Result(r, t) \in Table
<1>1. t.players \in Seq(TablePlayer) /\ t.version + 1 \in Nat
  BY DEF Table
<1>2. CASE r.op = "addPlayer"
  <2>1. NewPlayer(r.name, r.account) \in TablePlayer
    BY <1>2 DEF Requests, NewPlayer, TablePlayer, PlayerState
  <2>2. Append(t.players, NewPlayer(r.name, r.account)) \in Seq(TablePlayer)
    BY <1>1, <2>1
  <2> QED
    BY <1>1, <1>2, <2>2 DEF Result, AddPlayer, Table
<1>3. CASE r.op = "inactivatePlayer"
  <2> DEFINE k == FirstActiveSeat(t, r.account)
             p == ChangePlayerStatus(t.players[k], "absent")
             ps == [t.players EXCEPT ![k] = p]
  <2>1. Result(r, t) = [t EXCEPT !.players = ps, !.version = t.version + 1]
    BY <1>3 DEF Result, InactivatePlayer, Table
  <2>2. k \in 1 .. Len(t.players) => p \in TablePlayer
    <3>1. k \in 1 .. Len(t.players) => t.players[k] \in TablePlayer
      BY <1>1, ElementOfSeq
    <3>2. ASSUME NEW q \in TablePlayer PROVE ChangePlayerStatus(q, "absent") \in TablePlayer
      <4>1. q.version + 1 \in Nat
        BY DEF TablePlayer
      <4> QED
        BY <4>1 DEF ChangePlayerStatus, TablePlayer, PlayerState
    <3> QED
      BY <3>1, <3>2
  <2> HIDE DEF k, p
  <2>3. ps \in Seq(TablePlayer)
    <3>1. CASE k \in 1 .. Len(t.players)
      BY <1>1, <2>2, <3>1, ExceptSeq
    <3>2. CASE k \notin 1 .. Len(t.players)
      <4>1. DOMAIN t.players = 1 .. Len(t.players)
        BY <1>1
      <4>2. ps = t.players
        BY <1>1, <3>2, <4>1
      <4> QED
        BY <1>1, <4>2
    <3> QED
      BY <3>1, <3>2
  <2> HIDE DEF ps
  <2> QED
    BY <1>1, <2>1, <2>3 DEF Table
<1>4. CASE r.op = "archive"
  BY <1>1, <1>4 DEF Result, Archive, Table, TableStatus
<1>5. CASE r.op = "unarchive"
  BY <1>1, <1>5 DEF Result, Unarchive, Table, TableStatus
<1> QED
  BY <1>2, <1>3, <1>4, <1>5 DEF Requests

\* What is saved is a new table, under an id no table has.
LEMMA SaveCreates ==
  ASSUME TypeOK, CallsAreConsistent, NEW c \in Calls, Save(c)
  PROVE  /\ request[c].op = "create"
         /\ request[c].players \in Selections
         /\ copy[c] = NewTable(request[c].players)
         /\ \E id \in TableIds :
              /\ tables[id] = NoTable
              /\ tables' = [tables EXCEPT ![id] = copy[c]]
              /\ saved' = [saved EXCEPT ![c] = id]
<1>1. PICK id \in InsertionIds(c) :
        /\ tables[id] = NoTable
        /\ tables' = Insert(tables, id, copy[c])
        /\ saved' = [saved EXCEPT ![c] = id]
  BY DEF Save
<1>2. pc[c] = "save" /\ request[c] \in Requests
  BY DEF Save, CallsAreConsistent, Consistent
<1>3. request[c].op = "create"
  <2> SUFFICES ASSUME request[c].op # "create" PROVE FALSE
    OBVIOUS
  <2>1. id = request[c].tableId
    BY <1>1 DEF InsertionIds
  <2> QED
    BY <1>1, <1>2, <2>1 DEF CallsAreConsistent, Consistent
<1>4. request[c].players \in Selections
  BY <1>2, <1>3 DEF Requests
<1>5. copy[c] = NewTable(request[c].players)
  BY <1>2, <1>3 DEF CallsAreConsistent, Consistent
<1>6. id \in TableIds
  BY <1>1, <1>3 DEF InsertionIds
<1> QED
  BY <1>1, <1>3, <1>4, <1>5, <1>6 DEF Insert

\* The parts of an action that are shared keep their variables' types.
LEMMA GotoType ==
  ASSUME pc \in [Calls -> Pcs], NEW c, NEW label \in Pcs, Goto(c, label)
  PROVE  pc' \in [Calls -> Pcs]
  BY DEF Goto

LEMMA LogType ==
  ASSUME audit \in [Calls -> SUBSET Messages], NEW c,
         NEW messages \in SUBSET Messages, Log(c, messages)
  PROVE  audit' \in [Calls -> SUBSET Messages]
<1>1. \A d \in Calls : audit[d] \cup messages \in SUBSET Messages
  OBVIOUS
<1> QED
  BY <1>1 DEF Log

LEMMA FailType ==
  ASSUME TypeOK, NEW c, NEW error \in Errors, Fail(c, error)
  PROVE  /\ pc' \in [Calls -> Pcs]
         /\ outcome' \in [Calls -> {"none", "ok"} \cup Errors]
         /\ audit' \in [Calls -> SUBSET Messages]
<1>1. pc' \in [Calls -> Pcs]
  BY GotoType DEF Fail, TypeOK, Pcs
<1>2. outcome' \in [Calls -> {"none", "ok"} \cup Errors]
  BY DEF Fail, TypeOK
<1>3. audit' \in [Calls -> SUBSET Messages]
  BY LogType DEF Fail, TypeOK, Messages
<1> QED
  BY <1>1, <1>2, <1>3

LEMMA InitIInv == Init => IInv
<1> SUFFICES ASSUME Init PROVE IInv
  OBVIOUS
<1>1. TypeOK
  BY DEF Init, TypeOK, Pcs
<1>2. CallsAreConsistent
  BY DEF Init, CallsAreConsistent, Consistent, Errors
<1>3. EveryTableHasOneMaker
  BY DEF Init, EveryTableHasOneMaker
<1> QED
  BY <1>1, <1>2, <1>3 DEF IInv

\* Types, one action at a time.
LEMMA TypeStep == IInv /\ [Next]_vars => TypeOK'
<1> SUFFICES ASSUME IInv, [Next]_vars PROVE TypeOK'
  OBVIOUS
<1>0. TypeOK /\ CallsAreConsistent
  BY DEF IInv
<1>1. CASE UNCHANGED vars
  BY <1>0, <1>1 DEF vars, TypeOK
<1>2. ASSUME NEW c \in Calls, Start(c) PROVE TypeOK'
  <2>1. pc' \in [Calls -> Pcs]
    BY <1>0, <1>2, GotoType DEF Start, TypeOK, Pcs
  <2>2. request' \in [Calls -> Requests \cup {Idle}]
    BY <1>0, <1>2 DEF Start, TypeOK
  <2> QED
    BY <1>0, <1>2, <2>1, <2>2 DEF Start, TypeOK
<1>3. ASSUME NEW c \in Calls, BeginCreate(c) PROVE TypeOK'
  <2>1. request[c].players \in Selections
    BY <1>0, <1>3 DEF BeginCreate, CallsAreConsistent, Consistent, Requests
  <2>2. NewTable(request[c].players) \in Table
    BY <2>1, NewTableType
  <2>3. copy' \in [Calls -> Table \cup {NoTable}]
    BY <1>0, <1>3, <2>2 DEF BeginCreate, TypeOK
  <2>4. pc' \in [Calls -> Pcs]
    BY <1>0, <1>3, GotoType DEF BeginCreate, TypeOK, Pcs
  <2> QED
    BY <1>0, <1>3, <2>3, <2>4 DEF BeginCreate, TypeOK
<1>4. ASSUME NEW c \in Calls, BeginChange(c) PROVE TypeOK'
  <2>1. pc' \in [Calls -> Pcs]
    BY <1>0, <1>4, GotoType DEF BeginChange, TypeOK, Pcs
  <2> QED
    BY <1>0, <1>4, <2>1 DEF BeginChange, TypeOK
<1>5. ASSUME NEW c \in Calls, BeginFails(c) PROVE TypeOK'
  <2>1. pc' \in [Calls -> Pcs]
    BY <1>0, <1>5, GotoType DEF BeginFails, TypeOK, Pcs
  <2>2. outcome' \in [Calls -> {"none", "ok"} \cup Errors]
    BY <1>0, <1>5 DEF BeginFails, TypeOK, Errors
  <2> QED
    BY <1>0, <1>5, <2>1, <2>2 DEF BeginFails, TypeOK
<1>6. ASSUME NEW c \in Calls, FindNothing(c) PROVE TypeOK'
  <2>1. pc' \in [Calls -> Pcs]
    BY <1>0, <1>6, GotoType DEF FindNothing, TypeOK, Pcs
  <2>2. outcome' \in [Calls -> {"none", "ok"} \cup Errors]
    BY <1>0, <1>6 DEF FindNothing, TypeOK, Errors
  <2>3. audit' \in [Calls -> SUBSET Messages]
    BY <1>0, <1>6, LogType DEF FindNothing, TypeOK, Messages
  <2> QED
    BY <1>0, <1>6, <2>1, <2>2, <2>3 DEF FindNothing, TypeOK
<1>7. ASSUME NEW c \in Calls, FindAndRefuse(c) PROVE TypeOK'
  <2>1. Fail(c, "TableNonUpdatable") /\ "TableNonUpdatable" \in Errors
    BY <1>7 DEF FindAndRefuse, Errors
  <2> QED
    BY <1>0, <1>7, <2>1, FailType DEF FindAndRefuse, TypeOK
<1>8. ASSUME NEW c \in Calls, FindAndChange(c) PROVE TypeOK'
  <2>1. request[c] \in Requests /\ request[c].op # "create"
    BY <1>0, <1>8 DEF FindAndChange, CallsAreConsistent, Consistent
  <2>2. request[c].tableId \in TableIds
    BY <2>1 DEF Requests
  <2>3. Target(c) \in Table
    BY <1>0, <1>8, <2>2 DEF FindAndChange, TypeOK, Target
  <2>4. Result(request[c], Target(c)) \in Table
    BY <1>8, <2>1, <2>3, ResultType DEF FindAndChange
  <2>5. copy' \in [Calls -> Table \cup {NoTable}]
    BY <1>0, <1>8, <2>4 DEF FindAndChange, TypeOK
  <2>6. pc' \in [Calls -> Pcs]
    BY <1>0, <1>8, GotoType DEF FindAndChange, TypeOK, Pcs
  <2> QED
    BY <1>0, <1>8, <2>5, <2>6 DEF FindAndChange, TypeOK
<1>9. ASSUME NEW c \in Calls, Save(c) PROVE TypeOK'
  <2>1. copy[c] \in Table
    BY <1>0, <1>9, SaveCreates, NewTableType
  <2>2. /\ tables' \in [TableIds -> Table \cup {NoTable}]
        /\ saved' \in [Calls -> TableIds \cup {NoId}]
    BY <1>0, <1>9, <2>1, SaveCreates DEF TypeOK
  <2>3. pc' \in [Calls -> Pcs]
    BY <1>0, <1>9, GotoType DEF Save, TypeOK, Pcs
  <2> QED
    BY <1>0, <1>9, <2>2, <2>3 DEF Save, TypeOK
<1>10. ASSUME NEW c \in Calls, SaveRefused(c) PROVE TypeOK'
  <2>1. Fail(c, "DuplicateKey") /\ "DuplicateKey" \in Errors
    BY <1>10 DEF SaveRefused, Errors
  <2> QED
    BY <1>0, <1>10, <2>1, FailType DEF SaveRefused, TypeOK
<1>11. ASSUME NEW c \in Calls, Return(c) PROVE TypeOK'
  <2>1. pc' \in [Calls -> Pcs]
    BY <1>0, <1>11, GotoType DEF Return, TypeOK, Pcs
  <2>2. outcome' \in [Calls -> {"none", "ok"} \cup Errors]
    BY <1>0, <1>11 DEF Return, TypeOK
  <2>3. audit' \in [Calls -> SUBSET Messages]
    BY <1>0, <1>11, LogType DEF Return, TypeOK, Messages
  <2> QED
    BY <1>0, <1>11, <2>1, <2>2, <2>3 DEF Return, TypeOK
<1>12. ASSUME NEW c \in Calls, DatabaseFails(c) PROVE TypeOK'
  <2>1. Fail(c, "DatabaseError") /\ "DatabaseError" \in Errors
    BY <1>12 DEF DatabaseFails, Errors
  <2> QED
    BY <1>0, <1>12, <2>1, FailType DEF DatabaseFails, TypeOK
<1>13. CASE Crash
  <2>1. pc' \in [Calls -> Pcs]
    BY <1>0, <1>13 DEF Crash, TypeOK, Pcs
  <2> QED
    BY <1>0, <1>13, <2>1 DEF Crash, TypeOK
<1> QED
  BY <1>1, <1>2, <1>3, <1>4, <1>5, <1>6, <1>7, <1>8, <1>9, <1>10, <1>11,
     <1>12, <1>13 DEF Next, Step

\* A table a call was given an id for is stored.
LEMMA SavedIsStored ==
  ASSUME IInv, NEW c \in Calls, saved[c] # NoId
  PROVE  /\ saved[c] \in TableIds
         /\ request[c].op = "create" /\ request[c].players \in Selections
         /\ tables[saved[c]] = NewTable(request[c].players)
         /\ tables[saved[c]] # NoTable
<1>1. /\ request[c].op = "create"
      /\ tables[saved[c]] = NewTable(request[c].players)
      /\ saved[c] \in TableIds
      /\ pc[c] # "idle"
  BY DEF IInv, TypeOK, CallsAreConsistent, Consistent
<1>2. request[c].players \in Selections
  BY <1>1 DEF IInv, CallsAreConsistent, Consistent, Requests
<1> QED
  BY <1>1, <1>2, NewTableType, NoTableAssumption

\* A step that leaves a call alone, and every stored table as it is, leaves
\* the call consistent.
LEMMA OtherCallsStayConsistent ==
  ASSUME IInv, NEW d \in Calls,
         pc'[d] = pc[d], request'[d] = request[d], copy'[d] = copy[d],
         saved'[d] = saved[d], outcome'[d] = outcome[d],
         \A id \in TableIds : tables[id] # NoTable => tables'[id] = tables[id]
  PROVE  Consistent(d)'
<1>1. Consistent(d)
  BY DEF IInv, CallsAreConsistent
<1>2. saved[d] # NoId => tables'[saved[d]] = NewTable(request[d].players)
  BY SavedIsStored
<1>3. pc[d] = "save" /\ request[d].op # "create" => tables'[request[d].tableId] # NoTable
  <2> SUFFICES ASSUME pc[d] = "save", request[d].op # "create"
               PROVE  tables'[request[d].tableId] # NoTable
    OBVIOUS
  <2>1. request[d].tableId \in TableIds
    BY <1>1 DEF Consistent, Requests
  <2> QED
    BY <1>1, <2>1 DEF Consistent
<1> QED
  BY <1>1, <1>2, <1>3 DEF Consistent

\* The same of the call that makes the step, where it only moves on.
LEMMA ConsistencyStep == IInv /\ [Next]_vars => CallsAreConsistent'
<1> SUFFICES ASSUME IInv, [Next]_vars, NEW d \in Calls PROVE Consistent(d)'
  BY DEF CallsAreConsistent
<1>0. TypeOK /\ Consistent(d)
  BY DEF IInv, CallsAreConsistent
<1>1. CASE UNCHANGED vars
  BY <1>1, OtherCallsStayConsistent DEF vars
<1>2. ASSUME NEW c \in Calls, Start(c) PROVE Consistent(d)'
  <2>1. CASE d # c
    BY <1>0, <1>2, <2>1, OtherCallsStayConsistent DEF Start, Goto, TypeOK
  <2>2. CASE d = c
    <3>1. pc'[d] = "begin" /\ request'[d] \in Requests
      BY <1>0, <1>2, <2>2 DEF Start, Goto, TypeOK
    <3>2. saved[d] = NoId /\ outcome[d] = "none"
      BY <1>0, <1>2, <2>2 DEF Start, Consistent
    <3> QED
      BY <1>2, <3>1, <3>2 DEF Start, Consistent, Errors
  <2> QED
    BY <2>1, <2>2
<1>3. ASSUME NEW c \in Calls, BeginCreate(c) PROVE Consistent(d)'
  <2>1. CASE d # c
    BY <1>0, <1>3, <2>1, OtherCallsStayConsistent DEF BeginCreate, Goto, TypeOK
  <2>2. CASE d = c
    <3>1. pc'[d] = "save" /\ copy'[d] = NewTable(request[d].players)
      BY <1>0, <1>3, <2>2 DEF BeginCreate, Goto, TypeOK
    <3> QED
      BY <1>0, <1>3, <2>2, <3>1 DEF BeginCreate, Consistent
  <2> QED
    BY <2>1, <2>2
<1>4. ASSUME NEW c \in Calls, BeginChange(c) PROVE Consistent(d)'
  <2>1. CASE d # c
    BY <1>0, <1>4, <2>1, OtherCallsStayConsistent DEF BeginChange, Goto, TypeOK
  <2>2. CASE d = c
    <3>1. pc'[d] = "find"
      BY <1>0, <1>4, <2>2 DEF BeginChange, Goto, TypeOK
    <3> QED
      BY <1>0, <1>4, <2>2, <3>1 DEF BeginChange, Consistent
  <2> QED
    BY <2>1, <2>2
<1>5. ASSUME NEW c \in Calls, BeginFails(c) PROVE Consistent(d)'
  <2>1. CASE d # c
    BY <1>0, <1>5, <2>1, OtherCallsStayConsistent DEF BeginFails, Goto, TypeOK
  <2>2. CASE d = c
    <3>1. pc'[d] = "done" /\ outcome'[d] = "DatabaseError"
      BY <1>0, <1>5, <2>2 DEF BeginFails, Goto, TypeOK
    <3> QED
      BY <1>0, <1>5, <2>2, <3>1 DEF BeginFails, Consistent
  <2> QED
    BY <2>1, <2>2
<1>6. ASSUME NEW c \in Calls, FindNothing(c) PROVE Consistent(d)'
  <2>1. CASE d # c
    BY <1>0, <1>6, <2>1, OtherCallsStayConsistent DEF FindNothing, Goto, TypeOK
  <2>2. CASE d = c
    <3>1. pc'[d] = "done" /\ outcome'[d] = "TableNotFound"
      BY <1>0, <1>6, <2>2 DEF FindNothing, Goto, TypeOK
    <3> QED
      BY <1>0, <1>6, <2>2, <3>1 DEF FindNothing, Consistent
  <2> QED
    BY <2>1, <2>2
<1>7. ASSUME NEW c \in Calls, FindAndRefuse(c) PROVE Consistent(d)'
  <2>1. CASE d # c
    BY <1>0, <1>7, <2>1, OtherCallsStayConsistent DEF FindAndRefuse, Fail, Goto, TypeOK
  <2>2. CASE d = c
    <3>1. pc'[d] = "done" /\ outcome'[d] = "TableNonUpdatable"
      BY <1>0, <1>7, <2>2 DEF FindAndRefuse, Fail, Goto, TypeOK
    <3> QED
      BY <1>0, <1>7, <2>2, <3>1 DEF FindAndRefuse, Consistent
  <2> QED
    BY <2>1, <2>2
<1>8. ASSUME NEW c \in Calls, FindAndChange(c) PROVE Consistent(d)'
  <2>1. CASE d # c
    BY <1>0, <1>8, <2>1, OtherCallsStayConsistent DEF FindAndChange, Goto, TypeOK
  <2>2. CASE d = c
    <3>1. pc'[d] = "save"
      BY <1>0, <1>8, <2>2 DEF FindAndChange, Goto, TypeOK
    <3>2. tables[request[d].tableId] # NoTable /\ request[d].op # "create"
      BY <1>0, <1>8, <2>2 DEF FindAndChange, Consistent, Target
    <3> QED
      BY <1>0, <1>8, <2>2, <3>1, <3>2 DEF FindAndChange, Consistent
  <2> QED
    BY <2>1, <2>2
<1>9. ASSUME NEW c \in Calls, Save(c) PROVE Consistent(d)'
  <2>0. TypeOK /\ CallsAreConsistent
    BY DEF IInv
  <2>1. PICK id \in TableIds :
          /\ tables[id] = NoTable
          /\ tables' = [tables EXCEPT ![id] = copy[c]]
          /\ saved' = [saved EXCEPT ![c] = id]
    BY <2>0, <1>9, SaveCreates
  <2>2. CASE d # c
    <3>1. \A i \in TableIds : tables[i] # NoTable => tables'[i] = tables[i]
      BY <2>1, <1>0 DEF TypeOK
    <3>2. saved'[d] = saved[d] /\ pc'[d] = pc[d]
      BY <1>0, <1>9, <2>1, <2>2 DEF TypeOK, Save, Goto
    <3> QED
      BY <1>9, <3>1, <3>2, OtherCallsStayConsistent DEF Save
  <2>3. CASE d = c
    <3>1. pc'[d] = "saved" /\ outcome'[d] = outcome[d] /\ request'[d] = request[d]
      BY <1>0, <1>9, <2>3 DEF Save, Goto, TypeOK
    <3>2. saved'[d] = id /\ id # NoId /\ tables'[id] = copy[d]
      BY <1>0, <2>1, <2>3, NoIdAssumption DEF TypeOK
    <3>3. request[d].op = "create" /\ copy[d] = NewTable(request[d].players)
      BY <2>0, <1>9, <2>3, SaveCreates
    <3>4. outcome[d] = "none" /\ request[d] \in Requests
      BY <1>0, <1>9, <2>3 DEF Save, Consistent
    <3> QED
      BY <3>1, <3>2, <3>3, <3>4 DEF Consistent, Errors
  <2> QED
    BY <2>2, <2>3
<1>10. ASSUME NEW c \in Calls, SaveRefused(c) PROVE Consistent(d)'
  <2>1. CASE d # c
    BY <1>0, <1>10, <2>1, OtherCallsStayConsistent DEF SaveRefused, Fail, Goto, TypeOK
  <2>2. CASE d = c
    <3>1. pc'[d] = "done" /\ outcome'[d] = "DuplicateKey"
      BY <1>0, <1>10, <2>2 DEF SaveRefused, Fail, Goto, TypeOK
    <3> QED
      BY <1>0, <1>10, <2>2, <3>1 DEF SaveRefused, Consistent
  <2> QED
    BY <2>1, <2>2
<1>11. ASSUME NEW c \in Calls, Return(c) PROVE Consistent(d)'
  <2>1. CASE d # c
    BY <1>0, <1>11, <2>1, OtherCallsStayConsistent DEF Return, Goto, TypeOK
  <2>2. CASE d = c
    <3>1. pc'[d] = "done" /\ outcome'[d] = "ok"
      BY <1>0, <1>11, <2>2 DEF Return, Goto, TypeOK
    <3> QED
      BY <1>0, <1>11, <2>2, <3>1 DEF Return, Consistent, Errors
  <2> QED
    BY <2>1, <2>2
<1>12. ASSUME NEW c \in Calls, DatabaseFails(c) PROVE Consistent(d)'
  <2>1. CASE d # c
    BY <1>0, <1>12, <2>1, OtherCallsStayConsistent DEF DatabaseFails, Fail, Goto, TypeOK
  <2>2. CASE d = c
    <3>1. pc'[d] = "done" /\ outcome'[d] = "DatabaseError"
      BY <1>0, <1>12, <2>2 DEF DatabaseFails, Fail, Goto, TypeOK
    <3> QED
      BY <1>0, <1>12, <2>2, <3>1 DEF DatabaseFails, Consistent
  <2> QED
    BY <2>1, <2>2
<1>13. CASE Crash
  <2>1. pc'[d] = pc[d] \/ (pc'[d] = "lost" /\ pc[d] \notin {"idle", "done"})
    BY <1>0, <1>13 DEF Crash, TypeOK
  <2>2. UNCHANGED <<tables, request, copy, saved, outcome>>
    BY <1>13 DEF Crash
  <2> QED
    BY <1>0, <2>1, <2>2 DEF Consistent, Errors
<1> QED
  BY <1>1, <1>2, <1>3, <1>4, <1>5, <1>6, <1>7, <1>8, <1>9, <1>10, <1>11,
     <1>12, <1>13 DEF Next, Step

\* Only Save gives a table an id or a call a table.
LEMMA OnlySaveStores ==
  ASSUME IInv, [Next]_vars
  PROVE  \/ UNCHANGED <<tables, saved>>
         \/ \E c \in Calls : Save(c)
BY DEF Next, Step, vars, Start, BeginCreate, BeginChange, BeginFails, FindNothing,
       FindAndRefuse, FindAndChange, SaveRefused, Return, DatabaseFails, Crash

\* No step changes what a call that has a table was asked.
LEMMA RequestsOfMakersStay ==
  ASSUME IInv, [Next]_vars, NEW c \in Calls, pc[c] # "idle"
  PROVE  request'[c] = request[c]
<1>1. ASSUME NEW d \in Calls, Start(d) PROVE request'[c] = request[c]
  BY <1>1 DEF IInv, TypeOK, Start
<1>2. (\A d \in Calls : ~ Start(d)) => request' = request
  BY DEF Next, Step, vars, BeginCreate, BeginChange, BeginFails, FindNothing,
         FindAndRefuse, FindAndChange, Save, SaveRefused, Return, DatabaseFails, Crash
<1> QED
  BY <1>1, <1>2

LEMMA MakerStep == IInv /\ [Next]_vars => EveryTableHasOneMaker'
<1> SUFFICES ASSUME IInv, [Next]_vars PROVE EveryTableHasOneMaker'
  OBVIOUS
<1>0. TypeOK /\ CallsAreConsistent /\ EveryTableHasOneMaker
  BY DEF IInv
<1>1. \A c \in Calls : saved[c] # NoId => pc[c] # "idle"
  BY <1>0 DEF CallsAreConsistent, Consistent
<1>2. \A c \in Calls : saved[c] # NoId => request'[c] = request[c]
  BY <1>1, RequestsOfMakersStay
<1>3. CASE UNCHANGED <<tables, saved>>
  <2>1. \A id \in TableIds : tables[id] # NoTable =>
          \E c \in Calls : /\ saved[c] = id
                           /\ request'[c].op = "create"
                           /\ tables[id] = NewTable(request'[c].players)
    BY <1>0, <1>2, NoIdAssumption DEF EveryTableHasOneMaker
  <2> QED
    BY <1>0, <1>3, <2>1 DEF EveryTableHasOneMaker
<1>4. ASSUME NEW c \in Calls, Save(c) PROVE EveryTableHasOneMaker'
  <2>1. PICK id \in TableIds :
          /\ tables[id] = NoTable
          /\ tables' = [tables EXCEPT ![id] = copy[c]]
          /\ saved' = [saved EXCEPT ![c] = id]
    BY <1>0, <1>4, SaveCreates
  <2>2. /\ request'[c].op = "create"
        /\ copy[c] = NewTable(request'[c].players)
    BY <1>0, <1>4, SaveCreates DEF Save
  <2>3. saved[c] = NoId
    BY <1>0, <1>4 DEF Save, CallsAreConsistent, Consistent
  <2>4. \A d \in Calls : saved[d] # id
    <3> SUFFICES ASSUME NEW d \in Calls, saved[d] = id PROVE FALSE
      OBVIOUS
    <3> QED
      BY <2>1, SavedIsStored, NoIdAssumption
  <2>5. saved'[c] = id /\ \A d \in Calls : d # c => saved'[d] = saved[d]
    BY <1>0, <2>1 DEF TypeOK
  <2>6. tables'[id] = copy[c] /\ \A i \in TableIds : i # id => tables'[i] = tables[i]
    BY <1>0, <2>1 DEF TypeOK
  <2>7. ASSUME NEW i \in TableIds, tables'[i] # NoTable
        PROVE  \E d \in Calls : /\ saved'[d] = i
                                /\ request'[d].op = "create"
                                /\ tables'[i] = NewTable(request'[d].players)
    <3>1. CASE i = id
      BY <2>2, <2>5, <2>6, <3>1
    <3>2. CASE i # id
      <4>1. PICK d \in Calls : /\ saved[d] = i
                               /\ request[d].op = "create"
                               /\ tables[i] = NewTable(request[d].players)
        BY <1>0, <2>6, <2>7, <3>2 DEF EveryTableHasOneMaker
      <4>2. d # c /\ request'[d] = request[d]
        BY <1>2, <2>3, <4>1, NoIdAssumption
      <4> QED
        BY <2>5, <2>6, <3>2, <4>1, <4>2
    <3> QED
      BY <3>1, <3>2
  <2>8. ASSUME NEW d \in Calls, NEW e \in Calls, saved'[d] = saved'[e], saved'[d] # NoId
        PROVE  d = e
    <3>1. CASE d # c /\ e # c
      BY <1>0, <2>5, <2>8, <3>1 DEF EveryTableHasOneMaker
    <3> QED
      BY <2>4, <2>5, <2>8, <3>1
  <2> QED
    BY <2>7, <2>8 DEF EveryTableHasOneMaker
<1> QED
  BY <1>3, <1>4, OnlySaveStores

\* The strengthened invariant holds in every reachable state.
THEOREM Invariance == Spec => []IInv
<1>1. Init => IInv
  BY InitIInv
<1>2. IInv /\ [Next]_vars => IInv'
  BY TypeStep, ConsistencyStep, MakerStep DEF IInv
<1> QED
  BY <1>1, <1>2, PTL DEF Spec

\* Where a call stands tells what it has done.
THEOREM CallsStayConsistent == Spec => []CallsAreConsistent
<1>1. IInv => CallsAreConsistent
  BY DEF IInv
<1> QED
  BY <1>1, Invariance, PTL

\* Every document of the collection is a Table, and every
\* call's own data is well typed (TableService).
THEOREM ServiceTypeCorrect == Spec => []TypeOK
<1>1. IInv => TypeOK
  BY DEF IInv
<1> QED
  BY <1>1, Invariance, PTL

\* Every stored table was made, as it is, by exactly one createTable call.
THEOREM TablesHaveOneMaker == Spec => []EveryTableHasOneMaker
<1>1. IInv => EveryTableHasOneMaker
  BY DEF IInv
<1> QED
  BY <1>1, Invariance, PTL

\* What a call has answered stays true of the collection.
THEOREM OutcomesStayTrue == Spec => []OutcomesAreTrue
<1>1. IInv => OutcomesAreTrue
  <2> SUFFICES ASSUME IInv, NEW c \in Calls
               PROVE  /\ outcome[c] = "ok" => saved[c] # NoId /\ tables[saved[c]] # NoTable
                      /\ outcome[c] \in Errors \ {"DatabaseError"} => saved[c] = NoId
    BY DEF OutcomesAreTrue
  <2>1. Consistent(c)
    BY DEF IInv, CallsAreConsistent
  <2>2. saved[c] # NoId => tables[saved[c]] # NoTable
    BY SavedIsStored
  <2> QED
    BY <2>1, <2>2 DEF Consistent
<1> QED
  BY <1>1, Invariance, PTL

-----------------------------------------------------------------------------
(* The audit trail *)

\* A call logs when it ends, and what it logs agrees with what it has stored.
Audited(c) ==
  /\ pc[c] # "done" => audit[c] = {}
  /\ "saved" \in audit[c] => saved[c] # NoId /\ "Table operation failed" \notin audit[c]
  /\ pc[c] = "done" /\ saved[c] # NoId =>
       "saved" \in audit[c] \/ "Table operation failed" \in audit[c]

\* A step that goes on without an end, by another call or by the call itself.
LEMMA UnendedStaysAudited ==
  ASSUME NEW d \in Calls, Audited(d), audit'[d] = audit[d],
         \/ pc'[d] = pc[d] /\ saved'[d] = saved[d]
         \/ pc[d] # "done" /\ pc'[d] # "done"
  PROVE  Audited(d)'
BY DEF Audited

\* A call that ends in a failure has logged nothing yet.
LEMMA FailureIsAudited ==
  ASSUME IInv, NEW c \in Calls, Audited(c), pc[c] # "done", NEW error, Fail(c, error)
  PROVE  Audited(c)'
<1>1. audit'[c] = {"Table operation failed"} /\ pc'[c] = "done"
  BY DEF Fail, Goto, Log, Audited, IInv, TypeOK
<1> QED
  BY <1>1 DEF Audited

LEMMA AuditStep ==
  ASSUME IInv, [Next]_vars, NEW d \in Calls, Audited(d)
  PROVE  Audited(d)'
<1>0. TypeOK /\ Consistent(d)
  BY DEF IInv, CallsAreConsistent
<1>1. CASE UNCHANGED vars
  BY <1>1, UnendedStaysAudited DEF vars
<1>2. ASSUME NEW c \in Calls,
             Start(c) \/ BeginCreate(c) \/ BeginChange(c) \/ FindAndChange(c) \/ Save(c)
      PROVE  Audited(d)'
  <2>1. audit' = audit
    BY <1>2 DEF Start, BeginCreate, BeginChange, FindAndChange, Save
  <2>2. CASE d # c
    <3>1. pc'[d] = pc[d]
      BY <1>0, <1>2, <2>2 DEF TypeOK, Start, BeginCreate, BeginChange, FindAndChange, Save, Goto
    <3>2. saved'[d] = saved[d]
      BY <1>0, <1>2, <2>2 DEF TypeOK, Start, BeginCreate, BeginChange, FindAndChange, Save
    <3> QED
      BY <2>1, <3>1, <3>2, UnendedStaysAudited
  <2>3. CASE d = c
    <3>1. pc[d] # "done" /\ pc'[d] # "done"
      BY <1>0, <1>2, <2>3 DEF TypeOK, Start, BeginCreate, BeginChange, FindAndChange, Save, Goto
    <3> QED
      BY <2>1, <3>1, UnendedStaysAudited
  <2> QED
    BY <2>2, <2>3
<1>3. ASSUME NEW c \in Calls,
             \/ BeginFails(c) \/ FindNothing(c) \/ FindAndRefuse(c)
             \/ SaveRefused(c) \/ Return(c) \/ DatabaseFails(c),
             d # c
      PROVE  Audited(d)'
  <2>1. saved' = saved
    BY <1>3 DEF BeginFails, FindNothing, FindAndRefuse, SaveRefused, Return, DatabaseFails
  <2>2. pc'[d] = pc[d]
    BY <1>0, <1>3 DEF TypeOK, BeginFails, FindNothing, FindAndRefuse, SaveRefused, Return,
                      DatabaseFails, Fail, Goto
  <2>3. audit'[d] = audit[d]
    BY <1>0, <1>3 DEF TypeOK, BeginFails, FindNothing, FindAndRefuse, SaveRefused, Return,
                      DatabaseFails, Fail, Log
  <2> QED
    BY <2>1, <2>2, <2>3, UnendedStaysAudited
<1>4. CASE BeginFails(d)
  <2>1. audit'[d] = {} /\ saved'[d] = NoId
    BY <1>0, <1>4 DEF BeginFails, Consistent, Audited
  <2> QED
    BY <2>1 DEF Audited
<1>5. CASE FindNothing(d)
  <2>1. audit'[d] = {"Table not found", "Table operation failed"}
    BY <1>0, <1>5 DEF FindNothing, Log, TypeOK, Audited
  <2>2. pc'[d] = "done" /\ saved'[d] = NoId
    BY <1>0, <1>5 DEF FindNothing, Goto, TypeOK, Consistent
  <2> QED
    BY <2>1, <2>2 DEF Audited
<1>6. CASE FindAndRefuse(d) \/ SaveRefused(d) \/ DatabaseFails(d)
  <2>1. pc[d] # "done" /\ \E error \in Errors : Fail(d, error)
    BY <1>6 DEF FindAndRefuse, SaveRefused, DatabaseFails, Errors
  <2> QED
    BY <2>1, FailureIsAudited
<1>7. CASE Return(d)
  <2>1. audit'[d] = {"saved"}
    BY <1>0, <1>7 DEF Return, Log, TypeOK, Audited
  <2>2. pc'[d] = "done" /\ saved'[d] # NoId
    BY <1>0, <1>7 DEF Return, Goto, TypeOK, Consistent
  <2> QED
    BY <2>1, <2>2 DEF Audited
<1>8. CASE Crash
  <2>1. pc'[d] = pc[d] \/ (pc[d] # "done" /\ pc'[d] # "done")
    BY <1>0, <1>8 DEF Crash, TypeOK
  <2> QED
    BY <1>8, <2>1, UnendedStaysAudited DEF Crash
<1> QED
  BY <1>1, <1>2, <1>3, <1>4, <1>5, <1>6, <1>7, <1>8 DEF Next, Step

\* The audit trail covers the collection: a stored table without its entry is
\* one of a call that runs, died or failed on the answer of the database.
THEOREM AuditCovers == Spec => []AuditCoversStore
<1> DEFINE AllAudited == \A c \in Calls : Audited(c)
<1>1. Init => AllAudited
  BY DEF Init, Audited
<1>2. IInv /\ AllAudited /\ [Next]_vars => AllAudited'
  BY AuditStep
<1>3. IInv /\ AllAudited => AuditCoversStore
  <2> SUFFICES ASSUME IInv, AllAudited, NEW c \in Calls
               PROVE  /\ saved[c] # NoId /\ "saved" \notin audit[c] =>
                           pc[c] \in {"saved", "lost"} \/ "Table operation failed" \in audit[c]
                      /\ "saved" \in audit[c] =>
                           saved[c] # NoId /\ "Table operation failed" \notin audit[c]
    BY DEF AuditCoversStore
  <2>1. Consistent(c) /\ pc[c] \in Pcs
    BY DEF IInv, CallsAreConsistent, TypeOK
  <2>2. Audited(c)
    OBVIOUS
  <2> QED
    BY <2>1, <2>2 DEF Consistent, Audited, Pcs
<1> QED
  BY <1>1, <1>2, <1>3, Invariance, PTL DEF Spec

-----------------------------------------------------------------------------
(* The refinement *)

\* The instance's entity operators are this module's.
LEMMA SameTables ==
  /\ Promise!Selections = Selections
  /\ \A s : Promise!NewTable(s) = NewTable(s)
<1>1. Promise!SelectedPlayer = SelectedPlayer
  BY DEF Promise!SelectedPlayer, SelectedPlayer
<1>2. \A s : Promise!IsSelection(s) <=> IsSelection(s)
  BY DEF Promise!IsSelection, IsSelection
<1>3. Promise!Selections = Selections
  BY <1>1, <1>2 DEF Promise!Selections, Selections
<1>4. \A n, a : Promise!NewPlayer(n, a) = NewPlayer(n, a)
  BY DEF Promise!NewPlayer, NewPlayer
<1>5. \A s : Promise!NewTable(s) = NewTable(s)
  BY <1>4 DEF Promise!NewTable, NewTable
<1> QED
  BY <1>3, <1>5

LEMMA InitRefines == Init => Promise!Init
BY DEF Init, Promise!Init

\* A step that answers maps to one of the reports, and any other that stores
\* nothing to a stutter.
LEMMA ReportRefines ==
  ASSUME IInv, NEW c \in Calls, NEW o \in {"ok"} \cup Errors,
         outcome[c] = "none", outcome' = [outcome EXCEPT ![c] = o],
         UNCHANGED <<tables, saved>>, o = "ok" => saved[c] # NoId
  PROVE  Promise!Next
<1> DEFINE Answers(out) == [d \in Calls |-> CASE out[d] = "none" -> "none"
                                            [] out[d] = "ok"   -> "created"
                                            [] OTHER           -> "failed"]
<1>1. outcome \in [Calls -> {"none", "ok"} \cup Errors]
  BY DEF IInv, TypeOK
<1>2. outcome'[c] = o /\ \A d \in Calls : d # c => outcome'[d] = outcome[d]
  BY <1>1
<1>3. Answers(outcome)[c] = "none"
  OBVIOUS
<1>4. CASE o = "ok"
  <2>1. Answers(outcome') = [Answers(outcome) EXCEPT ![c] = "created"]
    BY <1>2, <1>4
  <2>2. Promise!ReportCreated(c)
    BY <1>3, <1>4, <2>1 DEF Promise!ReportCreated
  <2> QED
    BY <2>2 DEF Promise!Next
<1>5. CASE o \in Errors
  <2>1. o # "ok" /\ o # "none"
    BY <1>5 DEF Errors
  <2>2. Answers(outcome') = [Answers(outcome) EXCEPT ![c] = "failed"]
    BY <1>2, <2>1
  <2>3. Promise!ReportFailed(c)
    BY <1>3, <2>2 DEF Promise!ReportFailed
  <2> QED
    BY <2>3 DEF Promise!Next
<1> QED
  BY <1>4, <1>5

LEMMA StepRefines == IInv /\ [Next]_vars => [Promise!Next]_(Promise!storeVars)
<1> SUFFICES ASSUME IInv, [Next]_vars PROVE Promise!Next \/ UNCHANGED Promise!storeVars
  OBVIOUS
<1>0. TypeOK /\ CallsAreConsistent
  BY DEF IInv
<1>1. ASSUME UNCHANGED <<tables, saved, outcome>> PROVE UNCHANGED Promise!storeVars
  BY <1>1 DEF Promise!storeVars
<1>2. ASSUME NEW c \in Calls, Save(c) PROVE Promise!Next
  <2>1. PICK id \in TableIds :
          /\ tables[id] = NoTable
          /\ tables' = [tables EXCEPT ![id] = copy[c]]
          /\ saved' = [saved EXCEPT ![c] = id]
    BY <1>0, <1>2, SaveCreates
  <2>2. /\ request[c].players \in Promise!Selections
        /\ copy[c] = Promise!NewTable(request[c].players)
    BY <1>0, <1>2, SaveCreates, SameTables
  <2>3. outcome[c] = "none" /\ saved[c] = NoId /\ UNCHANGED outcome
    BY <1>0, <1>2 DEF Save, CallsAreConsistent, Consistent
  <2>4. Promise!Add(c, request[c].players)
    BY <2>1, <2>2, <2>3 DEF Promise!Add
  <2> QED
    BY <2>2, <2>4 DEF Promise!Next
<1>3. ASSUME NEW c \in Calls, Return(c) PROVE Promise!Next
  <2>1. outcome[c] = "none" /\ saved[c] # NoId
    BY <1>0, <1>3 DEF Return, CallsAreConsistent, Consistent
  <2> QED
    BY <1>3, <2>1, ReportRefines DEF Return
<1>4. ASSUME NEW c \in Calls, NEW e \in Errors, pc[c] # "done", UNCHANGED <<tables, saved>>,
             outcome' = [outcome EXCEPT ![c] = e]
      PROVE  Promise!Next
  <2>1. outcome[c] = "none" /\ e # "ok"
    BY <1>0, <1>4 DEF CallsAreConsistent, Consistent, Errors
  <2> QED
    BY <1>4, <2>1, ReportRefines
<1>5. ASSUME NEW c \in Calls, Start(c) \/ BeginCreate(c) \/ BeginChange(c) \/ FindAndChange(c)
      PROVE  UNCHANGED Promise!storeVars
  BY <1>1, <1>5 DEF Start, BeginCreate, BeginChange, FindAndChange
<1>6. ASSUME NEW c \in Calls, BeginFails(c) \/ FindNothing(c) PROVE Promise!Next
  BY <1>4, <1>6 DEF BeginFails, FindNothing, Errors
<1>7. ASSUME NEW c \in Calls, FindAndRefuse(c) \/ SaveRefused(c) \/ DatabaseFails(c)
      PROVE  Promise!Next
  BY <1>4, <1>7 DEF FindAndRefuse, SaveRefused, DatabaseFails, Fail, Errors
<1>8. ASSUME Crash PROVE UNCHANGED Promise!storeVars
  BY <1>1, <1>8 DEF Crash
<1>9. ASSUME UNCHANGED vars PROVE UNCHANGED Promise!storeVars
  BY <1>1, <1>9 DEF vars
<1> QED
  BY <1>2, <1>3, <1>5, <1>6, <1>7, <1>8, <1>9 DEF Next, Step

\* TableService implements TableStore: whatever overlaps, fails or crashes,
\* tables are added whole, at most one by a call, before the call reports
\* success, and never change afterwards.
THEOREM ServiceKeepsPromise == Spec => KeepsPromise
<1>1. Init => Promise!Init
  BY InitRefines
<1>2. IInv /\ [Next]_vars => [Promise!Next]_(Promise!storeVars)
  BY StepRefines
<1> QED
  BY <1>1, <1>2, Invariance, PTL DEF Spec, KeepsPromise, Promise!Spec
=============================================================================
