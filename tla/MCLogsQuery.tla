---------------------------- MODULE MCLogsQuery ----------------------------
(***************************************************************************)
(* A small instance of LogsQuery for TLC: five entries, two of them of one *)
(* timestamp, as AuditLog makes and finds them, and pages of two entries.  *)
(* The search for a guild finds what commands logged there, errors too,    *)
(* and not what the table service logged of a table of that guild; the     *)
(* search for a user called "none" finds nothing.                          *)
(***************************************************************************)
EXTENDS LogsQuery, AuditLog, TLC

MCLogs == 1 .. 5
MCTime == [l \in MCLogs |-> IF l = 1 THEN 2 ELSE l]

MCEntry == [l \in MCLogs |->
  CASE l = 3 -> Log(TableAudit("tavern"))
    [] l = 4 -> Error(CreateAuditEventPayload("tavern", "ana"))
    [] OTHER -> Log(CreateAuditEventPayload("tavern", "bia"))]

MCFilters == {"guild", "none"}
MCMatch == [f \in MCFilters \cup {"all"} |->
  {l \in MCLogs : CASE f = "guild" -> Finds("guild-id", "tavern", MCEntry[l])
                    [] f = "none"  -> Finds("actor-id", "none", MCEntry[l])
                    [] OTHER       -> TRUE}]

Symmetry == Permutations(Interactions)
=============================================================================
