--------------------------- MODULE TableCreateFlow ---------------------------
(***************************************************************************)
(* RpgTableCreateCommand: creating a table in two interactions.  The modal *)
(* stores a draft in Redis and answers with a menu; submitting the menu    *)
(* takes the draft out of Redis, validates the players and calls           *)
(* createTable.  A menu can be submitted again while a submission is being *)
(* handled, or when the answer that would close it fails.                  *)
(*                                                                         *)
(* createTable is used through what TableService is shown to promise: the  *)
(* steps of TableStore, one call for each submission.                      *)
(*                                                                         *)
(* Left out: the slash command (it only opens the modal), the wording of   *)
(* answers, and logging.  The check that no player is selected twice never *)
(* fires: interaction.users is a map by account id.                        *)
(***************************************************************************)
EXTENDS TableEntity

CONSTANTS
  Drafts,       \* draft ids, one for each modal submitted (randomUUID)
  Submissions,  \* submissions of a menu
  TableIds, NoTable, NoId,  \* as in TableStore
  NameOf        \* the user name of an account

ASSUME NameOfAssumption ==
  /\ NameOf \in [DiscordIds -> Usernames]
  /\ \A u, v \in DiscordIds : NameOf[u] = NameOf[v] => u = v

ASSUME NoTableAssumption == NoTable \notin Table
ASSUME NoIdAssumption == NoId \notin TableIds

VARIABLES
  menu,      \* of a draft: from the modal to the answer that removes the menu
  master,    \* the user who submitted the modal
  cached,    \* the drafts in Redis
  consumed,  \* the drafts deleted by a submission (history)
  pc,        \* where the handling of each submission stands
  target,    \* the draft of the menu submitted
  picked,    \* the accounts selected
  found,     \* whether the submission read its draft
  told,      \* what the user was told
  tables, made, answer      \* of TableStore

storeVars == <<tables, made, answer>>
handling  == <<pc, target, picked, found, told>>
vars == <<menu, master, cached, consumed, handling, storeVars>>

Store == INSTANCE TableStore WITH Calls <- Submissions

Menus == {"none", "storing", "replying", "shown", "closed", "failed"}
Pcs == {"idle", "get", "del", "create", "tellExpired", "tellInvalid",
        "tellCreated", "tellFailed", "done", "lost"}
Running == Pcs \ {"idle", "done", "lost"}

Init ==
  /\ menu = [d \in Drafts |-> "none"]
  /\ master \in [Drafts -> DiscordIds]
  /\ cached = {}
  /\ consumed = {}
  /\ pc = [s \in Submissions |-> "idle"]
  /\ target \in [Submissions -> Drafts]
  /\ picked = [s \in Submissions |-> {}]
  /\ found = [s \in Submissions |-> FALSE]
  /\ told = [s \in Submissions |-> "nothing"]
  /\ Store!Init

-----------------------------------------------------------------------------
(* onCreateModal *)

SetMenu(d, state) == menu' = [menu EXCEPT ![d] = state]

\* A modal with valid input, submitted in a guild.  Any other is only
\* answered.
SubmitModal(d) ==
  /\ menu[d] = "none"
  /\ SetMenu(d, "storing")
  /\ UNCHANGED <<master, cached, consumed, handling, storeVars>>

\* createDraft: Redis executes the set; its answer may be lost.
StoreDraft(d) ==
  /\ menu[d] = "storing"
  /\ cached' = cached \cup {d}
  /\ SetMenu(d, "replying") \/ SetMenu(d, "failed")
  /\ UNCHANGED <<master, consumed, handling, storeVars>>

ShowMenu(d) ==
  /\ menu[d] = "replying"
  /\ SetMenu(d, "shown")
  /\ UNCHANGED <<master, cached, consumed, handling, storeVars>>

\* cache.set or interaction.reply rejects: no menu appears.
ModalFails(d) ==
  /\ menu[d] \in {"storing", "replying"}
  /\ SetMenu(d, "failed")
  /\ UNCHANGED <<master, cached, consumed, handling, storeVars>>

\* Redis drops the draft when its ten minutes are over.
Expire(d) ==
  /\ d \in cached
  /\ cached' = cached \ {d}
  /\ UNCHANGED <<menu, master, consumed, handling, storeVars>>

-----------------------------------------------------------------------------
(* onPlayersSelected *)

Goto(s, label) == pc' = [pc EXCEPT ![s] = label]

\* Discord lets the menu be submitted with MinPlayers to MaxPlayers users.
Submit(s) ==
  /\ pc[s] = "idle"
  /\ menu[target[s]] = "shown"
  /\ \E users \in SUBSET DiscordIds :
       /\ Cardinality(users) \in MinPlayers .. MaxPlayers
       /\ picked' = [picked EXCEPT ![s] = users]
  /\ Goto(s, "get")
  /\ UNCHANGED <<menu, master, cached, consumed, target, found, told, storeVars>>

\* Mutant: what was read is kept instead of whether anything was.
GetDraftRaw(s) ==
  /\ pc[s] = "get"
  /\ found' = [found EXCEPT ![s] = IF target[s] \in cached THEN target[s] ELSE FALSE]
  /\ Goto(s, "del")
  /\ UNCHANGED <<menu, master, cached, consumed, target, picked, told, storeVars>>

\* consumeDraft, first await: Redis executes the get.
GetDraft(s) ==
  /\ pc[s] = "get"
  /\ found' = [found EXCEPT ![s] = target[s] \in cached]
  /\ Goto(s, "del")
  /\ UNCHANGED <<menu, master, cached, consumed, target, picked, told, storeVars>>

\* Mutant: the master may play.
ValidPlayersAnyMaster(s) == Cardinality(picked[s]) \in MinPlayers .. MaxPlayers

ValidPlayers(s) ==
  /\ Cardinality(picked[s]) \in MinPlayers .. MaxPlayers
  /\ master[target[s]] \notin picked[s]

\* Mutant: the draft is kept for another try when the players are not valid.
DelDraftIfValid(s) ==
  /\ pc[s] = "del"
  /\ cached' = IF ValidPlayers(s) THEN cached \ {target[s]} ELSE cached
  /\ consumed' = consumed \cup {target[s]}
  /\ Goto(s, IF ~ found[s] THEN "tellExpired"
             ELSE IF ValidPlayers(s) THEN "create" ELSE "tellInvalid")
  /\ UNCHANGED <<menu, master, target, picked, found, told, storeVars>>

\* consumeDraft, second await: Redis executes the del, whatever the get found,
\* and what was read is judged.
DelDraft(s) ==
  /\ pc[s] = "del"
  /\ cached' = cached \ {target[s]}
  /\ consumed' = consumed \cup {target[s]}
  /\ Goto(s, IF ~ found[s] THEN "tellExpired"
             ELSE IF ValidPlayers(s) THEN "create" ELSE "tellInvalid")
  /\ UNCHANGED <<menu, master, target, picked, found, told, storeVars>>

\* The get or the del rejects, the del executed or not: the handler throws
\* and the user is told nothing, if the cache library does not swallow it.
CacheFails(s) ==
  /\ pc[s] \in {"get", "del"}
  /\ \/ UNCHANGED <<cached, consumed>>
     \/ /\ pc[s] = "del"
        /\ cached' = cached \ {target[s]}
        /\ consumed' = consumed \cup {target[s]}
  /\ Goto(s, "done")
  /\ UNCHANGED <<menu, master, target, picked, found, told, storeVars>>

\* The users selected, as players in the order Discord lists them.
InOrder(users) ==
  {order \in [1 .. Cardinality(users) -> users] :
     \A u \in users : \E i \in DOMAIN order : order[i] = u}

\* createTable stores the table ...
CreateAdds(s) ==
  /\ pc[s] = "create"
  /\ \E order \in InOrder(picked[s]) :
       Store!Add(s, [i \in DOMAIN order |->
                       [username |-> NameOf[order[i]], userDiscordId |-> order[i]]])
  /\ UNCHANGED <<menu, master, cached, consumed, handling>>

\* Mutant: an exception of createTable is swallowed.
CreateReturnsAnyhow(s) ==
  /\ pc[s] = "create"
  /\ Store!ReportCreated(s) \/ Store!ReportFailed(s)
  /\ Goto(s, "tellCreated")
  /\ UNCHANGED <<menu, master, cached, consumed, target, picked, found, told>>

\* ... and returns, or throws, having stored it or not.
CreateReturns(s) ==
  /\ pc[s] = "create"
  /\ \/ Store!ReportCreated(s) /\ Goto(s, "tellCreated")
     \/ Store!ReportFailed(s) /\ Goto(s, "tellFailed")
  /\ UNCHANGED <<menu, master, cached, consumed, target, picked, found, told>>

Telling == {"tellExpired", "tellInvalid", "tellCreated", "tellFailed"}

Tell(s, message) == told' = [told EXCEPT ![s] = message]

\* interaction.update replaces the menu by the message.
Update(s) ==
  /\ \/ pc[s] = "tellExpired" /\ Tell(s, "expired")
     \/ pc[s] = "tellInvalid" /\ Tell(s, "invalid")
     \/ pc[s] = "tellCreated" /\ Tell(s, "created")
     \/ pc[s] = "tellFailed"  /\ Tell(s, "failed")
  /\ SetMenu(target[s], "closed")
  /\ Goto(s, "done")
  /\ UNCHANGED <<master, cached, consumed, target, picked, found, storeVars>>

\* interaction.update rejects (Discord waits three seconds for an answer).
\* The update after createTable is inside the try, so the catch tells the user
\* that the table could not be created; the others throw.
UpdateFails(s) ==
  /\ pc[s] \in Telling
  /\ Goto(s, IF pc[s] = "tellCreated" THEN "tellFailed" ELSE "done")
  /\ UNCHANGED <<menu, master, cached, consumed, target, picked, found, told, storeVars>>

-----------------------------------------------------------------------------

\* The bot's process dies; Redis, MongoDB and the menu on Discord do not.
Crash ==
  /\ \E s \in Submissions : pc[s] \in Running
  /\ pc' = [s \in Submissions |-> IF pc[s] \in Running THEN "lost" ELSE pc[s]]
  /\ menu' = [d \in Drafts |-> IF menu[d] \in {"storing", "replying"}
                               THEN "failed" ELSE menu[d]]
  /\ UNCHANGED <<master, cached, consumed, target, picked, found, told, storeVars>>

Modal(d) == StoreDraft(d) \/ ShowMenu(d) \/ ModalFails(d)

Handle(s) ==
  GetDraft(s) \/ DelDraft(s) \/ CacheFails(s) \/ CreateAdds(s) \/ CreateReturns(s)
    \/ Update(s) \/ UpdateFails(s)

Serve ==
  \/ \E d \in Drafts : SubmitModal(d) \/ Modal(d) \/ Expire(d)
  \/ \E s \in Submissions : Submit(s) \/ Handle(s)

Next == Serve \/ Crash

Spec == Init /\ [][Next]_vars

-----------------------------------------------------------------------------
(* Properties *)

\* The handlers' state is of the right kind, and the tables are TableStore's.
TypeOK ==
  /\ menu \in [Drafts -> Menus]
  /\ master \in [Drafts -> DiscordIds]
  /\ cached \subseteq Drafts
  /\ consumed \subseteq Drafts
  /\ pc \in [Submissions -> Pcs]
  /\ target \in [Submissions -> Drafts]
  /\ picked \in [Submissions -> SUBSET DiscordIds]
  /\ found \in [Submissions -> BOOLEAN]
  /\ told \in [Submissions -> {"nothing", "expired", "invalid", "created", "failed"}]
  /\ tables \in [TableIds -> Table \cup {NoTable}]
  /\ made \in [Submissions -> TableIds \cup {NoId}]
  /\ answer \in [Submissions -> {"none", "created", "failed"}]

Accounts(t) == {t.players[i].userDiscordId : i \in DOMAIN t.players}

\* A table made through Discord is the one its submission asked for: it comes
\* from a draft that was stored, its players are the users selected, as many
\* as a table may have, and its master does not play (onPlayersSelected).
TablesAreAsAsked ==
  \A s \in Submissions : made[s] # NoId =>
    LET t == tables[made[s]]
    IN  /\ found[s]
        /\ Accounts(t) = picked[s]
        /\ Cardinality(ActivePlayers(t)) \in MinPlayers .. MaxPlayers
        /\ master[target[s]] \notin Accounts(t)

\* Once one submission's del went through, no later submission of the menu
\* gets the draft, even after a crash or an answer that failed: a draft can
\* only be used twice by submissions whose gets both precede the first del
\* (consumeDraft).
ConsumedDraftsStayGone ==
  [][\A s \in Submissions : found'[s] /\ ~ found[s] => target[s] \notin consumed]_vars

\* "created successfully" is only said of a table that is stored, and the user
\* hears of an expired or invalid request only if it made no table.
AnswersAreTrue ==
  \A s \in Submissions :
    /\ told[s] = "created" => made[s] # NoId /\ tables[made[s]] # NoTable
    /\ told[s] \in {"expired", "invalid"} => made[s] = NoId

\* What consumeDraft is for, and what the command's test expects of it (a
\* submission that creates a table deletes the draft): one table from a draft.
OneTablePerDraft ==
  \A s, t \in Submissions :
    made[s] # NoId /\ made[t] # NoId /\ target[s] = target[t] => s = t

\* What the user is told when creation fails, in the command and its test:
\* "Could not create the table."  It should not be said of a table that was
\* stored by a call of createTable that returned.
FailuresAreTrue ==
  \A s \in Submissions : told[s] = "failed" => answer[s] # "created"
=============================================================================
