# Verification of Taverna Bot

TLA+ models of the Taverna Discord bot (NestJS over MongoDB, Redis and RabbitMQ),
TLC runs over small instances, and TLAPS proofs for every value of the
constants. Paths below are those of the bot's repository; `PROJECT.json` maps
every definition to the lines it models.

## The system

| Component | State | Operations | Talks to | What is hard | What makes it correct |
|---|---|---|---|---|---|
| Table aggregate (`rpg/table/domain/entities`) | players, status, date of archival, version | `new`, `addPlayer`, `inactivatePlayer`, `archive`, `unarchive` | – | long sequences of calls, absent players left in the list, early returns | limits, one seat per name, a version that accounts for every change, an archived table frozen |
| Table service, repository, transactions (`rpg/table/application`, `…/repositories`, `infrastructure/database`) | collection `tables`; a copy per call | `createTable`, `addPlayer`, `inactivatePlayer`, `archiveTable`, `unarchiveTable`, two reads | MongoDB, logger | overlapping calls over stale copies, lost answers, crashes, a transaction no operation joins | stored tables are what one call asked for; answers true of the store; audit trail |
| Table creation (`discord/commands/rpg/table-create.command.ts`) | drafts in Redis, the menu on Discord | modal, menu of players | Redis, table service, Discord | several submissions of one menu, get and del in two awaits, answers that fail, expiry, crashes | drafts used once, tables as asked, answers true |
| Domain job worker (`workers/domain-jobs`) | source, retry and dead-letter queue, open deliveries | `handle`, `handleFailure` | RabbitMQ, logger | publication and acknowledgement can be separated by a lost channel, nack, attempts carried in a header | no job lost, no job multiplied but by a lost channel, attempts earned, every job settles |
| Log pipeline (`logger`, `workers/log-processor`) | queue `system_logs`, open deliveries, collection `system_logs` | `publish`, `handleSystemLog` | RabbitMQ, MongoDB | fire and forget, at-least-once delivery, entries the schema refuses | confirmed entries kept and stored, acknowledged only when stored |
| Logs query and `/logs` (`admin/application/logs-query.service.ts`, `discord/commands/admin/logs.command.ts`) | the message shown, filter and page in its buttons | command, Previous, Next | MongoDB, Discord | entries stored between count and page and between pages, overlapping clicks, ties | filled pages, the search kept, a full walk misses nothing |
| Table list (`discord/commands/rpg/table-list.command.ts`) | – | one query, one reply | table service, Discord | tables created meanwhile, a cut at ten without a sort, a reply inside the `try` | created tables are listed unless the list is full, and only those of the guild |
| File console transport (`logger/infrastructure/file-console.transport.ts`) | chain of appends, current file | `start`, `stop`, intercepted writes | file system | failed appends, midnight, a clock set back, stop with appends pending | every line once, in order, in the file of its day |
| Bootstrap and exit (`main.ts`) | – | steps of `bootstrap()`, its handler | transport, everything | rejection of any step while jobs already log | the files have everything, the cause last, before the exit |
| Cron runner (`workers/domain-jobs/…/domain-cron-runner.service.ts`) | scheduled jobs | start, tick | logger | overlapping executions, failures | a failure does not stop the schedule |
| Bot status (`admin/application/bot-status-info.service.ts`, `discord/events/on-ready.ts`, `/bot-status`, `/bot-info`) | status of the process, cached status in Redis | ready event, commands | Redis | cache misses racing with the ready event, expiry, restarts | the cache never goes back, answers are current once the event is handled |
| Command logging interceptor, ping | – | around every command | `TavernaLogger` | a failing command, metadata merged and moved between components | start and end of every command can be found |
| Wiring and helpers | – | – | – | – | – |

The components meet in five places. The commands call the services in the same
process, each through the interceptor. The table service and the interceptor log
entries, which the log pipeline carries to `system_logs`, which `/logs` reads.
Drafts pass from one interaction to the next, and statuses from one process to
the next, through Redis. Jobs and log entries pass through RabbitMQ. Every line
logged passes through the file transport.

## Modules

    TableEntity ──── TableAggregate ──── TableAggregateProofs
        ├─ TableStore ◁─ TableService ──── TableServiceProofs
        │      └──────── TableCreateFlow ── TableListing ── TableListingProofs
    AtLeastOnce ◁─┬─ DomainWorker ──── DomainWorkerProofs
                  └─ LogPipeline ───── LogPipelineProofs
    AuditLog ──┬── BotCommands ──── BotCommandsProofs
               └── (the instance of) LogsQuery ──── LogsQueryProofs
    FileTransport ──── AppProcess ──── AppProcessProofs

(── EXTENDS, ◁─ implements, └── uses the steps of. Each `MC…` module gives TLC a
small instance.)

**TableEntity** has the entities as records and each method as a guard (the
errors it throws) and a result. Names, guild, master, `createdAt` and
`updatedAt` are left out; of `archivedAt` only whether it is set is kept.
`changeUsername` has no caller and is not modelled.

**TableAggregate** runs the methods on one object. A method checks everything it
may throw on before it writes, so a call that throws changes nothing.

**TableService** has one program counter per call, and a step for what happens
between two awaits: `begin` (the session is opened), `find` (`findById`
answers), `save` (MongoDB executes the insertion), `saved` (its answer arrives),
`done`. The copy a call works on is its own. Three facts of the code shape it:
`TableRepository.save` builds a new document, so it inserts, and `_id` is
unique; the session of `connection.transaction` is given to no operation;
restored tables keep their id (`toPersistence`, `toDomain`). `Crash` ends every
call in the process. `outcome` names the error that reaches the caller:
`TableNonUpdatable` stands for both errors the entity throws. `copy` and `saved`
are what the call's frame holds; `audit` is the set of entries it has logged.

**TableStore** is the abstract promise: a call adds at most one table, whole,
before it reports success, and no table ever changes. `TableService` implements
it (`KeepsPromise`, with `made <- saved` and the outcomes as answers).

**TableCreateFlow** composes the command with `TableStore`: a submission's
`createTable` is a call of the store. A menu is `shown` until an update on
Discord closes it, and can be submitted while it is shown, so submissions
overlap. `get` and `del` are two steps. An update may fail after anything.

**TableListing** adds users of the list command to it. A list is one query of
the tables that the flow has made in a guild, cut at `MaxTables` in an order the
code does not choose, and one reply, which a second one may follow from the
`catch`. `known` keeps what the user could have been told of when asking.

**AtLeastOnce** is the abstract promise of a queue: what it has accepted stays
until its work is done, and work that is done stays done, while messages come
back and work is repeated. `DomainWorker` and `LogPipeline` implement it
(`DeliversAtLeastOnce`); a queued message is one in a queue or in an open
delivery, done means acknowledged or dead for a job, stored for an entry.

**DomainWorker** counts messages by job and header in the three queues, so that
duplicates are visible. A delivery is `process`ed, then either acknowledged or,
after `assertQueues`, published further and acknowledged: two commands on one
channel, received in order, with the loss of the channel possible between them.
A call of `handle()` whose channel is gone goes on in vain.

**LogPipeline** counts copies of each entry in the queue (`ready`), in
`handleSystemLog` before the save (`processing`) and after it (`saved`), and
documents (`stored`).

**AuditLog** has what becomes of an entry's metadata on that way: the payload of
the interceptor or of the table service, the merge of an error by
`TavernaLogger`, the kind that `LogPublisher` gives, and the fields the search of
`/logs` asks for. `BotCommands` logs with it, and the instance of `LogsQuery`
gets its entries and its filters from it.

**LogsQuery** has the collection, the interactions under way and the message.
`FirstOf` gives every order of entries with equal timestamps.

**BotCommands** has `BotStatusInfoService` (its two fields), `OnReady` and any
number of commands in one process after another. A status is told apart by the
process that made it and by whether it has the part on Discord. Redis executes
the requests of one client in the order they were sent (`wire`); `Restart` drops
them and keeps what Redis holds. The interceptor logs around each command. A
failing request of the cache rejects, here and in `TableCreateFlow`, as the code
that awaits it expects. Should the cache library swallow errors of the store
instead, `OnReady` could finish without its status in Redis, and
`AnswersAreCurrent` would hold only while Redis executes that set;
`StatusNeverGoesBack` and the properties of the creation flow do not depend on it.

**FileTransport** has the chain of appends and the file chosen for a line when
it is written, and **AppProcess** the life of the process around it: the steps of
`bootstrap()`, each of which may reject, its handler, the cron jobs started one
by one during initialisation, and their executions.

## Runs

| Run | Instance | Question |
|---|---|---|
| `table_aggregate` | limits 2–3, 5 names, 3 accounts, 6 calls | limits, seats, version, archival over any sequence of calls |
| `table_service` | 3 calls, 2 ids, limits 1–2, 2 names, 2 accounts | overlap, failures, crashes; the promise of `TableStore` |
| `table_changes` | as `table_service` | *violated*: changes of stored tables are saved |
| `create_flow` | 1 draft, 3 submissions, 3 accounts, tables of 2, 1 list of at most 2 tables, 2 guilds | tables as asked, true answers, deleted drafts not read again, created tables listed |
| `one_table_per_draft` | 1 draft, 3 submissions, 3 accounts | *violated*: one table from a draft |
| `failures_are_true` | as `one_table_per_draft` | *violated*: a failure is only told of a creation that failed |
| `domain_worker` | 1 job, 2 deliveries, 4 attempts, 2 faults | nothing lost, nothing multiplied, attempts earned and bounded, delays back off, jobs settle |
| `log_pipeline` | 2 valid entries, 1 refused, 3 faults | confirmed entries kept and stored |
| `logs_query` | 5 entries, 2 of one timestamp, pages of 2, 2 interactions, 2 filters | pages, search, walk |
| `app_process` | 2 days, 4 lines, 1 cron job with 2 executions at once | files, exit, lines settle |
| `bot_commands` | 3 commands, 2 users, 2 guilds and a private channel, 2 processes, 1 fault | statuses, entries of commands |
| `commands_are_audited` | as `bot_commands` | *violated*: entries of commands are audit entries |

**Bounds.** Every limit of the code that behaviour depends on is smaller in the
instance but kept as a parameter, so it is met in the run: tables fill up and
shrink to the minimum, a job meets its last attempt and the cap of its delay, a
search has three pages, a list is cut.

- `MaxVersion` bounds the calls made on one table: enough to fill a table, empty
  it to the minimum, and archive and restore it between.
- `MaxFaults` bounds failures and crashes: two suffice for a fault while the
  consequences of another last; one in `bot_commands`, where a restart and an
  expiry are not counted.
- Three calls are one to create a table and two that read it before either saves.
  Three submissions are two that overlap and one that comes after; with three,
  a list of at most two is full.
- One job: jobs share nothing but the channel, and two deliveries of one job, its
  duplicates, share more than those of two jobs. That jobs do not hold each other
  up is in `log_pipeline`, where the deliveries are not limited either.
- `Days`: two, between which the clock may go either way. `MaxLines`: four are
  two lines on each side of a change of the date, with the cause of a failure
  last. `MaxRuns` (of a job in `AppProcess`): two executions overlap. `MaxRuns`
  (of the process in `BotCommands`): the cached status of one, and the next.
- `create_flow` has tables of exactly two players, for only the master must be
  told from the players there; the range of players is in `table_aggregate`.

Deadlock is not checked, since every system here may stop when its calls are made
and its queues are empty; the liveness properties say that it does not stop
earlier. Symmetry is used in runs without liveness properties only.

**What the four violations show.**
1. `TableRepository.save` inserts, so no change of a stored table is ever saved
   (`table.repository.ts:62`); the service's tests replace the repository.
2. Two submissions of a menu can both read the draft before either deletes it,
   and create two tables (`table-create.command.ts:228`).
3. The update that reports success is inside the `try`: when it fails, the user
   is told that a stored table could not be created
   (`table-create.command.ts:130`).
4. The "audit event payload" of a command has no kind, so its entries are stored
   as `system`, and the search for `audit` never finds them
   (`command-logging-interceptor.ts:80`).

**What the passing runs show of the same code.**

- Because saving inserts, no overlap of calls can overwrite a table: stored
  tables are whole and never change (`EveryTableHasOneMaker`, `KeepsPromise`). A
  caller that got any error but one of the database knows that nothing was stored
  (`OutcomesAreTrue`).
- A draft read after a deletion is never found (`ConsumedDraftsStayGone`), so two
  tables from one draft need two submissions whose reads both come before the
  first deletion.
- A seat is a user name: it stays taken after the player left
  (`OneSeatPerUsername`), while an account that renamed itself may join a second
  time, which the model allows as `addPlayer` does and no property forbids.
- A job multiplies only by a lost channel, and even its duplicates carry attempts
  that were made (`OneCopyUnlessLost`, `AttemptsAreEarned`).
- Entries of the log that the schema refuses go round for ever, but hold no other
  entry up (`SentIsStored`), because the number of open deliveries is not limited.
- A search for a user named "none" finds nothing on the first page, and has no
  further page on which the buttons could turn it into a search for everything
  (`SearchIsKept`).
- The last writer of the cached status may be a command that missed the cache
  long before; what it writes is still not older, because the status is built and
  its request sent in one turn (`StatusNeverGoesBack`).
- `stop()` gives the streams back before it awaits the chain, so the cause of a
  failed bootstrap is the last line of the files whatever jobs log meanwhile
  (`ExitLosesNothing`).

## Fairness

- `DomainWorker`: weak fairness of each delivery and each expiry: the broker
  delivers what is ready to a consumer with a free slot, the retry queue expires
  its messages, and `process()` settles. Faults are not fair and are bounded,
  else a broker that always fails would forbid any job to settle.
- `LogPipeline`: weak fairness of delivery, and of the end of `save()`. No
  fairness of emission: it is fire and forget.
- `AppProcess`: weak fairness of the append at the head of the chain, for every
  call of `appendFile` settles, and of the exit, for the handler of `bootstrap()`
  goes on when the chain has. No fairness of the steps of `bootstrap()`, of the
  clock or of jobs.
- Users, restarts and crashes are never fair. The other modules state no fairness
  and no liveness: their handlers are a few awaits one after the other, without
  a loop or a wait for each other, so that they end says only that drivers answer.

## Proofs

Assumptions, each named in the module that declares the constants:

- `LimitsAssumption`: the limits are natural numbers, the minimum not above the
  maximum. `RetryAssumption`: the numbers of `retry` are natural numbers, there is
  at least one attempt, and the deliveries open at once are finitely many.
  `QueryAssumption`: timestamps are natural numbers, a page holds at least one
  entry, "no filter" matches every entry and "none" matches none.
  `ListingAssumption`: a draft is of a guild, and the list has a limit.
  `NameOfAssumption`: two accounts do not share a user name.
- `NoTableAssumption` and `NoIdAssumption` (of the service and of the creation
  flow), `DaysAssumption` and `CommandsAssumption`: the values for "nothing" are no
  table, no id, no day and no status; `OnReady` is no command.
  `InvalidAssumption`: refused entries are entries.
- `MaxFaultsAssumption`, `MaxLinesAssumption`, `MaxRunsAssumption`: the bounds are
  numbers.

Nothing else is assumed of the sets of names, accounts, ids, calls, submissions,
entries, jobs, guilds and commands, which may be infinite; `system_logs` holds
finitely many entries at any moment.

**TableAggregateProofs**: first what the methods do to the set of active players,
its cardinality and the list; then `TypeOK`, and on top of it `ActiveWithinLimits`,
`OneSeatPerUsername`, `VersionTellsThePast` (each inductive with `TypeOK`) and
the action properties `SeatsAreKept` and `ArchivedTableIsFrozen`. The argument
for the limits is that a join adds one seat to the set of active players below
the maximum and a leave removes one above the minimum; for the version, that a
join and a leave each raise the version by one together with the length or the
number of absent players, so only archivals and restorations are left over.

**TableServiceProofs**: the inductive invariant is `IInv == TypeOK /\
CallsAreConsistent /\ EveryTableHasOneMaker`. Neither the uniqueness of makers
nor the truth of outcomes is inductive: one must know that a call before its
insertion has no table, that a call after it has one, and that a call about to
save the copy of a table that it *changed* finds its id taken, because tables are
never deleted. `Consistent` says this for one call. From it follow
`CallsAreConsistent`, `TypeOK`, `EveryTableHasOneMaker`, `OutcomesAreTrue` and
`KeepsPromise`: `Save` maps to `Add`, `Return` to `ReportCreated`, every failure
to `ReportFailed`, the other steps to stuttering. `AuditCoversStore` needs one
more part, `Audited`: a call logs nothing before it ends.

**TableListingProofs**: `FlowInv` says of each submission (`Handling`) what its
position tells: before `createTable` nothing is made, the call is made with a
draft that was read and players that were judged valid, and a table that was made
has exactly the users picked as its players. `MenuOf` and `DraftsConsumed` say that
a menu once submitted never goes back to the state in which its draft is stored,
so a draft that was consumed is in Redis no more; `OwnTables` that no table is of
two submissions. From it follow `TypeOK`, `TablesAreAsAsked`, `AnswersAreTrue` and
`ConsumedDraftsStayGone`; and each step of the flow is one of `TableStore` or a
stutter (`FlowUsesTheStore`), so the flow uses the service as `TableStore` promises
it. A step of the composition is by its definition one of the flow or leaves the
flow alone, so the invariants of the flow hold in it (the lemma `ListingIsFlow`). For `CreatedTablesAreListed`, `Listed` keeps with each list
under way that what its user could know of is stored, in the guild, and, once the
query has answered, among the tables shown unless these are `MaxTables`: tables
are only added, and stored tables stay as they are.

**LogPipelineProofs**: `TypeOK`, `SentIsKept`, `AckedWhenStored`,
`OnceWithoutFaults` and `RefusedIsNeverDropped`, from `EntryOK`, the conjunction of
the invariants for one entry, by the action that moves a copy from one place to
the next. A refused entry never reaches `saved`, hence it is never acknowledged.
`PipelineDelivers` is the refinement of `AtLeastOnce`: a save maps to `Finish`, the
loss of the channel to `Recover` (what comes back unacknowledged either was stored
before, which `EntryOK` says, or was queued all along), a confirmation to `Accept`,
all else to stuttering.

`DuplicatesAreBounded` says how often an entry may be stored: after `n` faults at
most `(n + 2)^2 / 4` times. The bound is met: one lost confirmation and two lost
channels can store an entry six times. The number of documents
alone is not inductive, for what a fault brings back depends on the deliveries that
are not acknowledged. `CopiesOK` holds both against the number `lost` of lost
confirmations: these make `1 + lost` deliveries of an entry, and each of the other
faults may have every one of them stored once more. `StepCopies` sorts the steps
into those that add no copy, take the entry, or repeat it.

**DomainWorkerProofs**: `Earned` says of every open delivery and every message in
a queue that its job has failed as often as the header tells, and once more
between the rejection of `process()` and the publication; with `TypeOK` it is
inductive, and `AttemptsAreEarned` follows. A lost channel is harmless to it, for
what comes back carries the header it was delivered with. `WorkerDelivers` maps
an acknowledgement of success and a dead letter to `Finish` and the loss of the
channel to `Recover`. That mapping needs `NoJobIsLost`: the delivery of a job whose
retry is published but which is not acknowledged comes back although its retry
may have succeeded meanwhile; it is then among those done. `NoJobIsLost` itself
follows from the mapping, since what is queued or done stays so by every step of
`AtLeastOnce`; the two are proved together.

That a job is in one place, once, as long as no channel is lost
(`OneCopyUnlessLost`) is inductive with `TypeOK`: a step takes the one copy from
its place (a queue with its message, or an open delivery) and puts it in another,
which is empty since there is but one. Copies are counted place by place, not by
a sum, which would need an induction over the set of messages. For
`TriesAreBounded` the counts must be exact and not only bounds: `TriesTold` says
how often the job has failed and succeeded from where its one copy is and what
its header tells. That needs the one copy, for two could fail in turn.

`DelaysBackOff` compares what `calculateDelayMs` computes, a power that is capped
once, with the recurrence that is meant, a delay that is multiplied and capped at
each retry. `RetriesWait` says that only retries wait, with a header from 2 to the
last attempt; the rest is about numbers. `Power` and `Backoff` are recursive
functions, and a library theorem that takes an operator, such as the ones that
turn a recursive definition into a function or the rule of induction, cannot be
instantiated by the provers; so the induction is done with sets. `CountsUp`: a set
of numbers that holds 0 and with each number the next one holds all of them, or else
there would be a smallest one missing. With it the functions on `0 .. n` that
compute the power exist (`PowersExist`), agree with each other (`PowersAgree`), and
their values together are `Power` (`PowerIs`). `CappedOnce` is the step of the
comparison: a multiplier is 0, or takes what was over the maximum no lower.

**LogsQueryProofs**: entries arrive between the count and the page, and between
two pages, so a page number alone says nothing of what has been seen. `Rank` of an
entry is the number of matching entries with a later timestamp: whatever order
MongoDB gives to equal ones, an entry with a timestamp of its own is at that
place, and arrivals only raise it. `WalkInv` says of every interaction under way
and of the message how far the walk has come: `Reached(n, shown)`, an entry of
the walk is seen or has rank `n` or more. A click asks for a page that starts
where the page shown ended or before; `normalizePage` only lowers it, or gives the
first; a query shows what has the ranks of its page (`PageShows`); and on an
up-to-date last page no rank is left. `Bounded` and `Filled` carry what was
counted: the total never exceeds what matches by the time of the query, so a page
before the last is full, and a search for "none", which counts nothing, has no
button. `TypeOK`, `PagesAreFilled`, `SearchIsKept` and `WalkMissesNothing` follow.

`GuildSearchShowsCommands` connects the walk with `AuditLog`, for entries of any
contents: when the search asked for is the one for a guild, the walk shows what the
interceptor logged of the commands used there, errors too, and neither what it
logged in another guild nor what the table service logged of a table, whose
audit entry names its guild in another field (`table.service.ts:28`).

**AppProcessProofs**: `ProcessInv` has the chain as the last lines written, in
their order, each with the file of its day (`Chained`, `FileChosen`); each line
that has settled reported or in the file of its day, in order (`FileKept`); and
how far `bootstrap()` has come (`BootInv`): the transport is off only once it has
failed, with its cause the last line, and the process exits with the chain empty.
From it follow `FilesTellWhatWasWritten` and `ExitLosesNothing`.

**BotCommandsProofs**: `TypeOK`, `AnswersAreCurrent` and `StatusNeverGoesBack`. An
answer of Redis may come long after the status it carries was built, so the
invariant speaks of the requests under way: `SetOK` says that each status on the
wire is of this process, knows at least what Redis holds and what is on the wire
before it, and no more than the process does; `SenderOK` that each sender has one
request under way. Then the cached status only grows, and after the set of
`OnReady` every status that is still to come has the part on Discord.
`CommandsAreFound` follows from `PublishedInv`: what a command has published so far
is told by its position, and the merges of `AuditLog` keep the guild and the actor
of an entry whatever they add to it.

**Only model-checked**: the liveness properties `JobsSettle`, `SentIsStored` and
`LinesSettle`, since liveness under fairness is out of the prover's reach. Every
other property that a run expects to hold is proved. The counterexamples of the
four violated properties are TLC's. `DuplicatesAreBounded` and
`GuildSearchShowsCommands` are proved and stated by no run.

## Not modelled

- *Wiring and helpers*: module declarations, configuration and formatting have no
  behaviour of their own. `TablePlayer.changeUsername` has no caller.
- *Time*: retries expire, but not after a given delay, and RabbitMQ's expiry at
  the head of the queue only is left out; a cached status or draft may expire at
  any moment. Delays are computed as integers, so a fractional
  `backoffMultiplier` is out.
- *The packet of a retry*: `publishRetry` sends the bare payload. Whether a
  subscription would still match it is not decided by the repository, which has
  no concrete worker.
- *Text*: the limit of 100 characters of a custom id, the wording of answers,
  embeds, and the text of lines. `x-taverna-attempt` with the values that
  `resolveCurrentAttempt` rejects is one value, 0.
- *What is modelled without a property*: overlapping executions of a cron job,
  entries of one timestamp that change places between two pages, audit entries of
  tables, which carry `guildDiscordId` and are missed by the search for their guild
  (a theorem of LogsQueryProofs says so), the second reply of a list whose first
  one failed, and the second seat of a renamed account. No document or test of the
  repository promises otherwise.

`PROJECT.json` names the lines under `hazards`.

## Plan

1. Done: every component but the wiring, three compositions (the creation flow
   with the list over `TableStore`, the logger with the search, the transport with
   the process), two abstract specifications and their three refinements.
2. Done: proofs of every safety property that a run expects to hold, and of the
   three refinements.
3. The way of an entry from a command to `/logs` is proved link by link: the
   interceptor logs it with its guild (`CommandsAreFound`), the pipeline keeps it
   once it is confirmed (`SentIsKept`) and stores it so often at most
   (`DuplicatesAreBounded`), and the walk shows it (`GuildSearchShowsCommands`)
   unless a document shares its timestamp. Left is one module that composes the
   three, in which the last exception could be told from a duplicate of the same
   entry.
