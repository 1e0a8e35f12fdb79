---------------------------- MODULE TableService ----------------------------
(***************************************************************************)
(* TableService over TableRepository, MongoTransactionProvider and the     *)
(* MongoDB collection `tables`.  Calls overlap at every await: a call      *)
(* reads a table, changes its own copy, and saves the copy later.          *)
(*                                                                         *)
(* Two facts of the code shape this module.  TableRepository.save always   *)
(* builds a new Mongoose document, so saving is an insertion: with the id  *)
(* of a table that exists it fails with a duplicate key.  And the          *)
(* transaction opened around a call is given to no operation inside it, so *)
(* it neither isolates nor rolls back what they do.                        *)
(***************************************************************************)
EXTENDS TableEntity

CONSTANTS
  TableIds,  \* ids MongoDB can give to a table
  Calls,     \* calls of the service, each made once
  NoTable,   \* findById found nothing
  NoId       \* a call that has saved nothing

ASSUME NoTableAssumption == NoTable \notin Table
ASSUME NoIdAssumption == NoId \notin TableIds

VARIABLES
  tables,    \* the collection: id -> table or NoTable
  pc,        \* where each call stands
  request,   \* what each call was asked
  copy,      \* the call's own Table object
  saved,     \* the id under which the call's copy was inserted, or NoId
  outcome,   \* what the call answered
  audit      \* the audit entries each call has logged

vars == <<tables, pc, request, copy, saved, outcome, audit>>

Requests ==
  [op : {"create"}, players : Selections]
    \cup [op : {"addPlayer"}, tableId : TableIds, name : Usernames, account : DiscordIds]
    \cup [op : {"inactivatePlayer"}, tableId : TableIds, account : DiscordIds]
    \cup [op : {"archive", "unarchive"}, tableId : TableIds]

Pcs == {"idle", "begin", "find", "save", "saved", "done", "lost"}
Errors == {"TableNotFound", "TableNonUpdatable", "DuplicateKey", "DatabaseError"}
Idle == [op |-> "none"]

Init ==
  /\ tables = [id \in TableIds |-> NoTable]
  /\ pc = [c \in Calls |-> "idle"]
  /\ request = [c \in Calls |-> Idle]
  /\ copy = [c \in Calls |-> NoTable]
  /\ saved = [c \in Calls |-> NoId]
  /\ outcome = [c \in Calls |-> "none"]
  /\ audit = [c \in Calls |-> {}]

-----------------------------------------------------------------------------
(* The entity methods, by request *)

Possible(r, t) ==
  CASE r.op = "addPlayer"        -> CanAddPlayer(t, r.name)
    [] r.op = "inactivatePlayer" -> CanInactivatePlayer(t, r.account)
    [] r.op = "archive"          -> CanArchive(t)
    [] r.op = "unarchive"        -> TRUE

Result(r, t) ==
  CASE r.op = "addPlayer"        -> AddPlayer(t, r.name, r.account)
    [] r.op = "inactivatePlayer" -> InactivatePlayer(t, r.account)
    [] r.op = "archive"          -> Archive(t)
    [] r.op = "unarchive"        -> Unarchive(t)

-----------------------------------------------------------------------------
(* One call *)

Messages == {"Table operation failed", "Table not found", "saved"}

Log(c, messages) == audit' = [audit EXCEPT ![c] = @ \cup messages]

Goto(c, label) == pc' = [pc EXCEPT ![c] = label]

\* Mutant: the kind of error is lost on the way to the caller.
FailUnnamed(c, error) ==
  /\ Goto(c, "done")
  /\ outcome' = [outcome EXCEPT ![c] = "Error"]
  /\ Log(c, {"Table operation failed"})

\* runAuditTransaction and the transaction provider log the error and throw
\* it on.
Fail(c, error) ==
  /\ Goto(c, "done")
  /\ outcome' = [outcome EXCEPT ![c] = error]
  /\ Log(c, {"Table operation failed"})

Start(c) ==
  /\ pc[c] = "idle"
  /\ \E r \in Requests : request' = [request EXCEPT ![c] = r]
  /\ Goto(c, "begin")
  /\ UNCHANGED <<tables, copy, saved, outcome, audit>>

\* Mutant: the entry of the creation is logged before the table is saved.
BeginCreateLogged(c) ==
  /\ pc[c] = "begin"
  /\ request[c].op = "create"
  /\ copy' = [copy EXCEPT ![c] = NewTable(request[c].players)]
  /\ Goto(c, "save")
  /\ Log(c, {"saved"})
  /\ UNCHANGED <<tables, request, saved, outcome>>

\* connection.transaction opens a session and runs the work, which makes a new
\* table, or looks for the one it is to change.
BeginCreate(c) ==
  /\ pc[c] = "begin"
  /\ request[c].op = "create"
  /\ copy' = [copy EXCEPT ![c] = NewTable(request[c].players)]
  /\ Goto(c, "save")
  /\ UNCHANGED <<tables, request, saved, outcome, audit>>

BeginChange(c) ==
  /\ pc[c] = "begin"
  /\ request[c].op # "create"
  /\ Goto(c, "find")
  /\ UNCHANGED <<tables, request, copy, saved, outcome, audit>>

\* No session: the work never runs, and nothing is logged of it.
BeginFails(c) ==
  /\ pc[c] = "begin"
  /\ Goto(c, "done")
  /\ outcome' = [outcome EXCEPT ![c] = "DatabaseError"]
  /\ UNCHANGED <<tables, request, copy, saved, audit>>

\* getExistingTable, then the entity method, without an await between the
\* answer of MongoDB and the call of save.
Target(c) == tables[request[c].tableId]

FindNothing(c) ==
  /\ pc[c] = "find"
  /\ Target(c) = NoTable
  /\ Goto(c, "done")
  /\ outcome' = [outcome EXCEPT ![c] = "TableNotFound"]
  /\ Log(c, {"Table not found", "Table operation failed"})
  /\ UNCHANGED <<tables, request, copy, saved>>

FindAndRefuse(c) ==
  /\ pc[c] = "find"
  /\ Target(c) # NoTable
  /\ ~ Possible(request[c], Target(c))
  /\ Fail(c, "TableNonUpdatable")
  /\ UNCHANGED <<tables, request, copy, saved>>

FindAndChange(c) ==
  /\ pc[c] = "find"
  /\ Target(c) # NoTable
  /\ Possible(request[c], Target(c))
  /\ copy' = [copy EXCEPT ![c] = Result(request[c], Target(c))]
  /\ Goto(c, "save")
  /\ UNCHANGED <<tables, request, saved, outcome, audit>>

\* The id a copy is inserted under: a new table has none, and Mongoose gives
\* it one no document has; a restored table keeps its own.
InsertionIds(c) ==
  IF request[c].op = "create"
  THEN {id \in TableIds : tables[id] = NoTable}
  ELSE {request[c].tableId}

Insert(tbls, id, t) == [tbls EXCEPT ![id] = t]

\* Mutant: the copy replaces whatever is stored under its id.
SaveReplaces(c) ==
  /\ pc[c] = "save"
  /\ \E id \in InsertionIds(c) :
       /\ tables' = Insert(tables, id, copy[c])
       /\ saved' = [saved EXCEPT ![c] = id]
  /\ Goto(c, "saved")
  /\ UNCHANGED <<request, copy, outcome, audit>>

\* Mutant: a duplicate key is taken for a table that is already saved.
SaveRefusedSilently(c) ==
  /\ pc[c] = "save"
  /\ \E id \in InsertionIds(c) : tables[id] # NoTable
  /\ Goto(c, "done")
  /\ outcome' = [outcome EXCEPT ![c] = "ok"]
  /\ UNCHANGED <<tables, request, copy, saved, audit>>

\* MongoDB executes the insertion of document.save(), or its unique index on
\* _id refuses it.
Save(c) ==
  /\ pc[c] = "save"
  /\ \E id \in InsertionIds(c) :
       /\ tables[id] = NoTable
       /\ tables' = Insert(tables, id, copy[c])
       /\ saved' = [saved EXCEPT ![c] = id]
  /\ Goto(c, "saved")
  /\ UNCHANGED <<request, copy, outcome, audit>>

SaveRefused(c) ==
  /\ pc[c] = "save"
  /\ \E id \in InsertionIds(c) : tables[id] # NoTable
  /\ Fail(c, "DuplicateKey")
  /\ UNCHANGED <<tables, request, copy, saved>>

\* The answer reaches the bot: the call logs its audit entry and returns.
Return(c) ==
  /\ pc[c] = "saved"
  /\ Goto(c, "done")
  /\ outcome' = [outcome EXCEPT ![c] = "ok"]
  /\ Log(c, {"saved"})
  /\ UNCHANGED <<tables, request, copy, saved>>

\* The database fails a read or a write, or its answer is lost: a write may
\* have been executed.
DatabaseFails(c) ==
  /\ pc[c] \in {"find", "save", "saved"}
  /\ Fail(c, "DatabaseError")
  /\ UNCHANGED <<tables, request, copy, saved>>

\* The bot's process dies, and every call in it.
Crash ==
  /\ \E c \in Calls : pc[c] \notin {"idle", "done", "lost"}
  /\ pc' = [c \in Calls |-> IF pc[c] \in {"idle", "done"} THEN pc[c] ELSE "lost"]
  /\ UNCHANGED <<tables, request, copy, saved, outcome, audit>>

Step(c) ==
  \/ BeginCreate(c) \/ BeginChange(c) \/ BeginFails(c)
  \/ FindNothing(c) \/ FindAndRefuse(c) \/ FindAndChange(c)
  \/ Save(c) \/ SaveRefused(c) \/ Return(c)
  \/ DatabaseFails(c)

Next == Crash \/ \E c \in Calls : Start(c) \/ Step(c)

Spec == Init /\ [][Next]_vars

-----------------------------------------------------------------------------
(* Properties *)

\* Every document of the collection is a table, every call has a program
\* counter, a request, a copy and an outcome of the right kind.
TypeOK ==
  /\ tables \in [TableIds -> Table \cup {NoTable}]
  /\ pc \in [Calls -> Pcs]
  /\ request \in [Calls -> Requests \cup {Idle}]
  /\ copy \in [Calls -> Table \cup {NoTable}]
  /\ saved \in [Calls -> TableIds \cup {NoId}]
  /\ outcome \in [Calls -> {"none", "ok"} \cup Errors]
  /\ audit \in [Calls -> SUBSET Messages]

\* Every stored table is, in full, what exactly one createTable call was asked
\* for: no call that changed its copy of a table ever gets the copy stored,
\* and no two calls share a table (createTable, TableRepository.save).
EveryTableHasOneMaker ==
  /\ \A id \in TableIds : tables[id] # NoTable =>
       \E c \in Calls : /\ saved[c] = id
                        /\ request[c].op = "create"
                        /\ tables[id] = NewTable(request[c].players)
  /\ \A c, d \in Calls : saved[c] = saved[d] /\ saved[c] # NoId => c = d

\* What a call answers is true of the collection although other calls, lost
\* answers and crashes come between: success means its table is there, an
\* error of the domain or of the unique index means it stored nothing.  Only
\* after a database error the caller cannot tell (runAuditTransaction).
OutcomesAreTrue ==
  \A c \in Calls :
    /\ outcome[c] = "ok" => saved[c] # NoId /\ tables[saved[c]] # NoTable
    /\ outcome[c] \in Errors \ {"DatabaseError"} => saved[c] = NoId

\* The inductive invariant.  Where a call stands tells what it has done: it has
\* answered only at the end, it has a table of its own only from the insertion
\* on, and that table is what it was asked to create.  A copy about to be saved
\* for a call that changes a table is the copy of a table that is stored, for
\* tables are never deleted: this is why saving it cannot succeed (save,
\* toPersistence).
Consistent(c) ==
  /\ outcome[c] # "none" <=> pc[c] = "done"
  /\ pc[c] # "idle" => request[c] \in Requests
  /\ pc[c] \in {"idle", "begin", "find", "save"} => saved[c] = NoId
  /\ pc[c] = "find" => request[c].op # "create"
  /\ pc[c] = "save" =>
       IF request[c].op = "create" THEN copy[c] = NewTable(request[c].players)
       ELSE tables[request[c].tableId] # NoTable
  /\ pc[c] = "saved" \/ outcome[c] = "ok" => saved[c] # NoId
  /\ outcome[c] \in Errors \ {"DatabaseError"} => saved[c] = NoId
  /\ saved[c] # NoId => /\ request[c].op = "create"
                        /\ tables[saved[c]] = NewTable(request[c].players)

CallsAreConsistent == \A c \in Calls : Consistent(c)

\* The audit trail covers the collection: a table without the entry of its
\* creation was made by a call that is still running, died with the process
\* or failed on the answer of the database; a call that failed has never
\* logged a success.
AuditCoversStore ==
  \A c \in Calls :
    /\ saved[c] # NoId /\ "saved" \notin audit[c] =>
         pc[c] \in {"saved", "lost"} \/ "Table operation failed" \in audit[c]
    /\ "saved" \in audit[c] => saved[c] # NoId /\ "Table operation failed" \notin audit[c]

Promise == INSTANCE TableStore WITH
  made   <- saved,
  answer <- [c \in Calls |-> CASE outcome[c] = "none" -> "none"
                               [] outcome[c] = "ok"   -> "created"
                               [] OTHER               -> "failed"]

\* The service keeps the promise of TableStore: tables are added whole, at
\* most one by a call, before the call reports success, and never change.
KeepsPromise == Promise!Spec

\* What the service's tests say of addPlayer, inactivatePlayer, archiveTable
\* and unarchiveTable: on a table that exists and that the entity lets them
\* change, they succeed ("archives an existing table").  Save is the only
\* thing that can come between, and should fail only when MongoDB does.
ChangesOfTablesAreSaved == \A c \in Calls : outcome[c] # "DuplicateKey"
=============================================================================
