----------------------------- MODULE TableStore -----------------------------
(***************************************************************************)
(* What the table service promises its callers, whatever MongoDB does and  *)
(* however calls overlap: a store to which a call adds at most one table,  *)
(* complete and valid from the first moment it can be read, which never    *)
(* changes afterwards; and answers that are only ever optimistic about a   *)
(* table that is there.  A call that fails may have added its table all    *)
(* the same.                                                               *)
(***************************************************************************)
EXTENDS TableEntity

CONSTANTS
  TableIds,  \* ids MongoDB can give to a table
  Calls,     \* calls of the service
  NoTable,   \* no document under an id
  NoId       \* no id

VARIABLES
  tables,    \* the collection: id -> table or NoTable
  made,      \* the id of the table a call added, or NoId
  answer     \* of a call: "none", "created" or "failed"

storeVars == <<tables, made, answer>>

Init ==
  /\ tables = [id \in TableIds |-> NoTable]
  /\ made = [c \in Calls |-> NoId]
  /\ answer = [c \in Calls |-> "none"]

\* A call adds a table with the players it was given.
Add(c, selected) ==
  /\ answer[c] = "none"
  /\ made[c] = NoId
  /\ \E id \in TableIds :
       /\ tables[id] = NoTable
       /\ tables' = [tables EXCEPT ![id] = NewTable(selected)]
       /\ made' = [made EXCEPT ![c] = id]
  /\ UNCHANGED answer

\* Success is only reported of a table that was added.
ReportCreated(c) ==
  /\ answer[c] = "none"
  /\ made[c] # NoId
  /\ answer' = [answer EXCEPT ![c] = "created"]
  /\ UNCHANGED <<tables, made>>

ReportFailed(c) ==
  /\ answer[c] = "none"
  /\ answer' = [answer EXCEPT ![c] = "failed"]
  /\ UNCHANGED <<tables, made>>

Next ==
  \E c \in Calls : \/ \E s \in Selections : Add(c, s)
                  \/ ReportCreated(c)
                  \/ ReportFailed(c)

Spec == Init /\ [][Next]_storeVars
=============================================================================
