------------------------------ MODULE AuditLog ------------------------------
(***************************************************************************)
(* What becomes of the metadata of a log entry between the code that logs  *)
(* it and the search of /logs that should find it: TavernaLogger takes the *)
(* kind out and merges errors in, LogPublisher gives a kind to what has    *)
(* none, and the search asks for the kind or for a field of the metadata.  *)
(* Metadata is a function from names of fields to values.                  *)
(***************************************************************************)
EXTENDS Functions

LogKinds == {"system", "audit"}

\* Metadata with fields over it: { ...metadata, ...fields }.
With(fields, metadata) ==
  [f \in DOMAIN fields \cup DOMAIN metadata |->
     IF f \in DOMAIN fields THEN fields[f] ELSE metadata[f]]

\* createAuditEventPayload of CommandLoggingInterceptor, as far as a search
\* can tell; the guild is null in a private channel.
CreateAuditEventPayload(guild, actor) ==
  [guildId |-> guild, actorUserId |-> actor, entityType |-> "discord_command"]

\* What createTable of TableService logs of a table.
TableAudit(guild) == [kind |-> "audit", guildDiscordId |-> guild]

\* Mutant: the metadata given beside an error is dropped.
ResolveErrorParamsAlone(metadata) == [error |-> "error"]

\* An error joins the metadata given beside it.
ResolveErrorParams(metadata) == With([error |-> "error"], metadata)

IsLogKind(value) == value \in LogKinds

\* The entry that reaches system_logs.
Entry(level, metadata) ==
  [level |-> level,
   kind |-> IF "kind" \in DOMAIN metadata /\ IsLogKind(metadata["kind"])
            THEN metadata["kind"] ELSE "system",
   metadata |-> Restrict(metadata, DOMAIN metadata \ {"kind"})]

Log(metadata) == Entry("log", metadata)
Error(metadata) == Entry("error", ResolveErrorParams(metadata))

\* createSearchCriteria and createSearchQuery: the entries a filter finds.
HasField(entry, field, value) ==
  field \in DOMAIN entry.metadata /\ entry.metadata[field] = value

Finds(searchItem, param, entry) ==
  CASE searchItem = "kind"     -> entry.kind = param
    [] searchItem = "guild-id" -> HasField(entry, "guildId", param)
    [] OTHER                   -> HasField(entry, "actorUserId", param)
=============================================================================
