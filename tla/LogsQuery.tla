----------------------------- MODULE LogsQuery -----------------------------
(***************************************************************************)
(* The /logs command: LogsCommand, its page buttons and LogsQueryService,  *)
(* over the collection system_logs to which the log processor adds entries *)
(* meanwhile.  Each interaction counts the matching entries, then reads    *)
(* one page of them, then edits the message, and each of the three is an   *)
(* await: entries arrive between the count and the page, and a second      *)
(* click may be under way.                                                 *)
(*                                                                         *)
(* Pages are sorted by timestamp alone, so MongoDB may order entries of    *)
(* the same millisecond differently in every query.                        *)
(***************************************************************************)
EXTENDS Integers, FiniteSets

CONSTANTS
  Logs,         \* entries of system_logs, stored in any order
  Time,         \* the timestamp of each entry
  Filters,      \* pairs of a search item and a param
  NoFilter,     \* no search item and no param
  NoneFilters,  \* filters whose param is the word "none", which names no guild or user
  Match,        \* the entries that match a filter
  PageSize,     \* pageSize of LogsQueryService
  Interactions, \* interactions that can be under way at once
  NoMessage     \* nothing has been shown yet

ASSUME QueryAssumption ==
  /\ Time \in [Logs -> Nat]
  /\ NoneFilters \subseteq Filters
  /\ NoFilter \notin Filters
  /\ Match \in [Filters \cup {NoFilter} -> SUBSET Logs]
  /\ Match[NoFilter] = Logs
  /\ \A f \in NoneFilters : Match[f] = {}
  /\ PageSize \in Nat \ {0}

VARIABLES
  stored,      \* the entries in the collection
  interaction, \* of each interaction: where it stands and what it knows
  message,     \* the page the message shows
  asked,       \* the filter given to the command
  initial,     \* the entries that were stored when the command was given
  seen         \* the entries shown since

vars == <<stored, interaction, message, asked, initial, seen>>

Matching(filter) == stored \cap Match[filter]

Idle == [pc |-> "idle"]

Init ==
  /\ stored \in SUBSET Logs /\ IsFiniteSet(stored)
  /\ interaction = [i \in Interactions |-> Idle]
  /\ message = NoMessage
  /\ asked = NoFilter
  /\ initial = {}
  /\ seen = {}

-----------------------------------------------------------------------------
(* LogsQueryService *)

AtLeastOne(n) == IF n < 1 THEN 1 ELSE n
AtMost(n, limit) == IF n < limit THEN n ELSE limit

\* Mutant: an empty search has no page.
TotalPagesOrNone(total) == (total + PageSize - 1) \div PageSize

TotalPages(total) == AtLeastOne((total + PageSize - 1) \div PageSize)

\* 0 is no page.
NormalizePage(page, totalPages) ==
  IF page < 1 THEN 1 ELSE AtMost(page, totalPages)

\* The first n of a set of entries, latest first: entries of one timestamp come
\* in any order.
FirstOf(logs, n) ==
  {first \in SUBSET logs :
     /\ Cardinality(first) = AtMost(n, Cardinality(logs))
     /\ \A l \in first, m \in logs \ first : Time[l] >= Time[m]}

\* Mutant: the skip is off by one.
PagesOfShifted(logs, skip, limit) ==
  UNION {FirstOf(logs \ before, limit) : before \in FirstOf(logs, skip + 1)}

\* What findMany may answer with this skip and limit.
PagesOf(logs, skip, limit) ==
  UNION {FirstOf(logs \ before, limit) : before \in FirstOf(logs, skip)}

-----------------------------------------------------------------------------
(* LogsCommand *)

\* Mutant: the buttons forget the filter.
FromCustomIdForgets(filter) == NoFilter

\* The custom id of a page button spells a missing filter "none", and reading
\* it back takes a param "none" for a missing one, which filters nothing.
FromCustomId(filter) == IF filter \in NoneFilters THEN NoFilter ELSE filter

\* Mutant: "Next" leaves a page out.
NextPageSkips(m) == AtMost(m.page + 2, m.totalPages)

PreviousPage(m) == AtLeastOne(m.page - 1)
NextPage(m) == AtMost(m.page + 1, m.totalPages)

Query(i, filter, page) ==
  interaction' = [interaction EXCEPT ![i] = [pc |-> "count", filter |-> filter, page |-> page]]

\* execute: the command itself, given once.
Execute(i) ==
  /\ message = NoMessage
  /\ \A j \in Interactions : interaction[j] = Idle
  /\ \E filter \in Filters \cup {NoFilter} :
       /\ Query(i, filter, 0)
       /\ asked' = filter
  /\ initial' = stored
  /\ UNCHANGED <<stored, message, seen>>

\* onPageButton, while the button is enabled.
ClickPrevious(i) ==
  /\ interaction[i] = Idle
  /\ message # NoMessage
  /\ message.page > 1
  /\ Query(i, FromCustomId(message.filter), PreviousPage(message))
  /\ UNCHANGED <<stored, message, asked, initial, seen>>

ClickNext(i) ==
  /\ interaction[i] = Idle
  /\ message # NoMessage
  /\ message.page < message.totalPages
  /\ Query(i, FromCustomId(message.filter), NextPage(message))
  /\ UNCHANGED <<stored, message, asked, initial, seen>>

\* findRecentLogs: count answers.
Count(i) ==
  /\ interaction[i].pc = "count"
  /\ LET q == interaction[i]
         total == Cardinality(Matching(q.filter))
         totalPages == TotalPages(total)
     IN  interaction' = [interaction EXCEPT ![i] =
           [pc |-> "find", filter |-> q.filter, total |-> total, totalPages |-> totalPages,
            page |-> NormalizePage(q.page, totalPages)]]
  /\ UNCHANGED <<stored, message, asked, initial, seen>>

\* findRecentLogs: findMany answers, maybe of more entries than were counted.
Find(i) ==
  /\ interaction[i].pc = "find"
  /\ LET q == interaction[i]
     IN  \E logs \in PagesOf(Matching(q.filter), (q.page - 1) * PageSize, PageSize) :
           interaction' = [interaction EXCEPT ![i] =
             [pc |-> "edit", filter |-> q.filter, total |-> q.total,
              totalPages |-> q.totalPages, page |-> q.page, logs |-> logs,
              found |-> Cardinality(Matching(q.filter))]]
  /\ UNCHANGED <<stored, message, asked, initial, seen>>

\* editReply: the last edit stands.
Edit(i) ==
  /\ interaction[i].pc = "edit"
  /\ message' = interaction[i]
  /\ seen' = seen \cup interaction[i].logs
  /\ interaction' = [interaction EXCEPT ![i] = Idle]
  /\ UNCHANGED <<stored, asked, initial>>

\* A query or an edit rejects: the message stays as it is.
InteractionFails(i) ==
  /\ interaction[i] # Idle
  /\ interaction' = [interaction EXCEPT ![i] = Idle]
  /\ UNCHANGED <<stored, message, asked, initial, seen>>

\* The log processor stores an entry.
Store(l) ==
  /\ l \notin stored
  /\ stored' = stored \cup {l}
  /\ UNCHANGED <<interaction, message, asked, initial, seen>>

Next ==
  \/ \E i \in Interactions :
       \/ Execute(i) \/ ClickPrevious(i) \/ ClickNext(i)
       \/ Count(i) \/ Find(i) \/ Edit(i) \/ InteractionFails(i)
  \/ \E l \in Logs : Store(l)

Spec == Init /\ [][Next]_vars

-----------------------------------------------------------------------------
(* Properties *)

Pcs == {"idle", "count", "find", "edit"}

TypeOK ==
  /\ stored \in SUBSET Logs
  /\ \A i \in Interactions : interaction[i].pc \in Pcs
  /\ \A i \in Interactions : interaction[i] # Idle =>
       interaction[i].filter \in Filters \cup {NoFilter}
  /\ message # NoMessage =>
       /\ message.filter \in Filters \cup {NoFilter}
       /\ message.page \in 1 .. message.totalPages
       /\ message.logs \subseteq Logs
  /\ asked \in Filters \cup {NoFilter}
  /\ initial \in SUBSET Logs
  /\ seen \in SUBSET Logs

\* Although entries arrive between the count and the page, no page before the
\* last is short, and the last page of a search that counted something shows
\* something: "No logs found." is never said of a total above zero
\* (findRecentLogs, normalizePage).
PagesAreFilled ==
  message # NoMessage =>
    /\ message.page < message.totalPages => Cardinality(message.logs) = PageSize
    /\ message.total > 0 => message.logs # {}

\* Whichever pages are shown, in whatever order clicks overlap, they are pages
\* of the search that was asked for: not even a search for "none", which the
\* buttons cannot spell, is given up (buildPageCustomId, parseSearchItem).
SearchIsKept ==
  message # NoMessage =>
    message.filter = asked /\ message.logs \subseteq Match[asked]

\* Who clicks until the button "Next" is disabled has seen every matching entry
\* that was there when the command was given, although new entries push old
\* ones to later pages, late ones arrive in the middle, pages are turned back
\* and clicks overlap.  Two exceptions are the code's: entries that share
\* their timestamp with another, which two queries may order differently; and
\* a last page that is out of date, for an entry was stored between its count
\* and its page (findRecentLogs, buildPaginationRow).
Unique(l) == \A m \in Logs \ {l} : Time[m] # Time[l]

UpToDate(m) == m.found = m.total

WalkMissesNothing ==
  message # NoMessage =>
    (message.page = message.totalPages /\ UpToDate(message) =>
       {l \in initial \cap Match[asked] : Unique(l)} \subseteq seen)
=============================================================================
