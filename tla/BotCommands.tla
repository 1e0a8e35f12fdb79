---------------------------- MODULE BotCommands ----------------------------
(***************************************************************************)
(* /bot-status, /bot-info and /ping through CommandLoggingInterceptor, and *)
(* the bot's status behind them: BotStatusInfoService, which keeps the     *)
(* status of this process and caches it in Redis, and OnReady, which adds  *)
(* what is known of Discord when the client is ready and writes it to the  *)
(* cache as well.  A command that misses the cache races with it.          *)
(*                                                                         *)
(* A status is told apart by the process that made it and by whether it    *)
(* has the part on Discord.  Redis executes the commands of one client in  *)
(* the order they were sent.                                               *)
(***************************************************************************)
EXTENDS AuditLog, Integers, Sequences

CONSTANTS
  Commands,     \* uses of a slash command
  GuildOf,      \* the guild of each, or NoGuild in a private channel
  ActorOf,      \* and the user
  NoGuild,
  NoStatus,     \* nothing in the cache, or no status yet
  MaxRuns,      \* bound: starts of the process
  MaxFaults     \* bound: failures of Redis and of replies

VARIABLES
  run,              \* the number of the process
  discordBotStatus, \* of BotStatusInfoService: whether it is set
  botInfo,          \* of BotStatusInfoService
  onReady,          \* where OnReady stands
  cached,           \* the status in Redis
  wire,             \* commands sent to Redis and not answered, in order
  pc,               \* where each use of a command stands
  status,           \* the status it will show
  informed,         \* whether it began when OnReady had finished (history)
  published,        \* the entries logged for it, in order
  faults

memory == <<discordBotStatus, botInfo, onReady>>
redis == <<cached, wire>>
uses == <<pc, status, informed, published>>
vars == <<run, memory, redis, uses, faults>>

Status == [run : 1 .. MaxRuns, discord : BOOLEAN]
Ready == "ready"  \* who sent a command to Redis: a use of a command, or OnReady

ASSUME CommandsAssumption ==
  /\ MaxRuns \in Nat \ {0} /\ MaxFaults \in Nat
  /\ NoStatus \notin Status
  /\ Ready \notin Commands

Init ==
  /\ run = 1
  /\ discordBotStatus = FALSE
  /\ botInfo = NoStatus
  /\ onReady = "waiting"
  /\ cached = NoStatus
  /\ wire = <<>>
  /\ pc = [c \in Commands |-> "idle"]
  /\ status = [c \in Commands |-> NoStatus]
  /\ informed = [c \in Commands |-> FALSE]
  /\ published = [c \in Commands |-> <<>>]
  /\ faults = 0

Goto(c, label) == pc' = [pc EXCEPT ![c] = label]
Send(by, op, value) == wire' = Append(wire, [by |-> by, op |-> op, status |-> value])

\* The entries of the interceptor.
Payload(c) == CreateAuditEventPayload(GuildOf[c], ActorOf[c])
Publish(c, entry) == published' = [published EXCEPT ![c] = Append(@, entry)]

\* Mutant: the status is that of the process alone.
BasicApplicationInfoUnmerged == [run |-> run, discord |-> FALSE]

\* Mutant: the part on Discord is there, undefined, before it is known.
BasicApplicationInfoRaw ==
  [run |-> run, discord |-> IF discordBotStatus THEN TRUE ELSE NoStatus]

\* buildBasicApplicationInfo and mergeDiscordBotStatus, when the hash of the
\* commit is known, or is known to be unavailable.
BasicApplicationInfo == [run |-> run, discord |-> discordBotStatus]

-----------------------------------------------------------------------------
(* A use of a command *)

\* The interceptor logs the start and calls the handler.
Intercept(c) ==
  /\ pc[c] = "idle"
  /\ Publish(c, Log(Payload(c)))
  /\ informed' = [informed EXCEPT ![c] = onReady = "done"]
  /\ UNCHANGED <<run, memory, cached, status, faults>>

\* ping has its answer; bot-status and bot-info ask the cache for theirs.
StartPing(c) == Intercept(c) /\ Goto(c, "reply") /\ UNCHANGED wire

StartBotStatus(c) == Intercept(c) /\ Goto(c, "redis") /\ Send(c, "get", NoStatus)

\* getBasicApplicationInfo after its await, and the set that follows.
Build(c) ==
  /\ pc[c] = "build"
  /\ botInfo' = BasicApplicationInfo
  /\ status' = [status EXCEPT ![c] = BasicApplicationInfo]
  /\ Send(c, "set", BasicApplicationInfo)
  /\ Goto(c, "redis")
  /\ UNCHANGED <<run, discordBotStatus, onReady, cached, informed, published, faults>>

Fault == faults < MaxFaults /\ faults' = faults + 1

\* The handler resolves, and the interceptor logs the end.
Reply(c) ==
  /\ pc[c] = "reply"
  /\ Goto(c, "answered")
  /\ Publish(c, Log(With([durationMs |-> "ms"], Payload(c))))
  /\ UNCHANGED <<run, memory, redis, status, informed, faults>>

\* The handler rejects: the interceptor logs the error.
Fails(c) ==
  /\ Goto(c, "failed")
  /\ Publish(c, Error(With([durationMs |-> "ms"], Payload(c))))

ReplyFails(c) ==
  /\ pc[c] = "reply"
  /\ Fault
  /\ Fails(c)
  /\ UNCHANGED <<run, memory, redis, status, informed>>

-----------------------------------------------------------------------------
(* OnReady *)

\* Mutant: what is known of Discord is only written into the status at hand.
ClientReadyForgets ==
  /\ onReady = "waiting"
  /\ botInfo # NoStatus
  /\ botInfo' = [botInfo EXCEPT !.discord = TRUE]
  /\ Send(Ready, "set", botInfo')
  /\ onReady' = "set"
  /\ UNCHANGED <<run, discordBotStatus, cached, uses, faults>>

\* The client is ready: what is known of Discord is kept before anything is
\* awaited.
ClientReady ==
  /\ onReady = "waiting"
  /\ discordBotStatus' = TRUE
  /\ IF botInfo = NoStatus
     THEN onReady' = "build" /\ UNCHANGED <<botInfo, wire>>
     ELSE /\ botInfo' = [botInfo EXCEPT !.discord = TRUE]
          /\ Send(Ready, "set", botInfo')
          /\ onReady' = "set"
  /\ UNCHANGED <<run, cached, uses, faults>>

ReadyBuilds ==
  /\ onReady = "build"
  /\ botInfo' = BasicApplicationInfo
  /\ Send(Ready, "set", BasicApplicationInfo)
  /\ onReady' = "set"
  /\ UNCHANGED <<run, discordBotStatus, cached, uses, faults>>

-----------------------------------------------------------------------------
(* Redis *)

\* A hit is shown, a miss builds the status.
AnswerGet(c) ==
  /\ wire # <<>> /\ Head(wire).by = c /\ Head(wire).op = "get"
  /\ wire' = Tail(wire)
  /\ status' = [status EXCEPT ![c] = cached]
  /\ Goto(c, IF cached = NoStatus THEN "build" ELSE "reply")
  /\ UNCHANGED <<run, memory, cached, informed, published, faults>>

AnswerSet ==
  /\ wire # <<>> /\ Head(wire).op = "set"
  /\ cached' = Head(wire).status
  /\ wire' = Tail(wire)
  /\ IF Head(wire).by = Ready
     THEN onReady' = "done" /\ UNCHANGED pc
     ELSE Goto(Head(wire).by, "reply") /\ UNCHANGED onReady
  /\ UNCHANGED <<run, discordBotStatus, botInfo, status, informed, published, faults>>

\* A command rejects, a set executed or not.  That a failure rejects is what
\* the code awaits; a cache library that swallowed it would be another matter.
RedisFails ==
  /\ wire # <<>>
  /\ Fault
  /\ wire' = Tail(wire)
  /\ \/ UNCHANGED cached
     \/ Head(wire).op = "set" /\ cached' = Head(wire).status
  /\ IF Head(wire).by = Ready
     THEN onReady' = "failed" /\ UNCHANGED uses
     ELSE Fails(Head(wire).by) /\ UNCHANGED <<onReady, status, informed>>
  /\ UNCHANGED <<run, discordBotStatus, botInfo>>

\* The set passes 0 for the time to live and the store has one of a minute of
\* its own: the status may expire, or stay.
Expire ==
  /\ cached # NoStatus
  /\ cached' = NoStatus
  /\ UNCHANGED <<run, memory, wire, uses, faults>>

\* The process dies and starts again; Redis keeps the status.
Restart ==
  /\ run < MaxRuns
  /\ run' = run + 1
  /\ discordBotStatus' = FALSE
  /\ botInfo' = NoStatus
  /\ onReady' = "waiting"
  /\ wire' = <<>>
  /\ pc' = [c \in Commands |-> IF pc[c] \in {"redis", "build", "reply"} THEN "lost" ELSE pc[c]]
  /\ UNCHANGED <<cached, status, informed, published, faults>>

Next ==
  \/ \E c \in Commands :
       \/ StartPing(c) \/ StartBotStatus(c) \/ AnswerGet(c) \/ Build(c)
       \/ Reply(c) \/ ReplyFails(c)
  \/ ClientReady \/ ReadyBuilds
  \/ AnswerSet \/ RedisFails \/ Expire
  \/ Restart

Spec == Init /\ [][Next]_vars

-----------------------------------------------------------------------------
(* Properties *)

Pcs == {"idle", "redis", "build", "reply", "answered", "failed", "lost"}

TypeOK ==
  /\ run \in 1 .. MaxRuns
  /\ discordBotStatus \in BOOLEAN
  /\ botInfo \in Status \cup {NoStatus}
  /\ onReady \in {"waiting", "build", "set", "done", "failed"}
  /\ cached \in Status \cup {NoStatus}
  /\ wire \in Seq([by : Commands \cup {Ready}, op : {"get", "set"}, status : Status \cup {NoStatus}])
  /\ pc \in [Commands -> Pcs]
  /\ status \in [Commands -> Status \cup {NoStatus}]
  /\ informed \in [Commands -> BOOLEAN]
  /\ faults \in 0 .. MaxFaults

\* Once OnReady has finished, whoever asks is shown the status of this process
\* with what is known of Discord, although commands that missed the cache
\* before are still building theirs and caching it, the cached status expires
\* or is one of an earlier process (getCachedBotStatusOrElseBasicApplicationInfo,
\* updateDiscordBotStatus, onReady).
AnswersAreCurrent ==
  \A c \in Commands :
    pc[c] = "reply" /\ informed[c] /\ status[c] # NoStatus =>
      status[c] = [run |-> run, discord |-> TRUE]

\* The cached status is never replaced by one that knows less: by one of an
\* earlier process, or by one without the part on Discord after one of the same
\* process with it (getBasicApplicationInfo, mergeDiscordBotStatus).
StatusNeverGoesBack ==
  [][cached # NoStatus /\ cached' # NoStatus =>
       \/ cached'.run > cached.run
       \/ cached'.run = cached.run /\ (cached.discord => cached'.discord)]_vars

\* A command leaves two entries, its start and its end, which tell an error
\* exactly when it failed; both are found by a search for its guild and by one
\* for its user, and by none for another (intercept, resolveErrorParams,
\* extractLogMetadata, createSearchQuery).
CommandsAreFound ==
  \A c \in Commands :
    /\ pc[c] \in {"answered", "failed"} => Len(published[c]) = 2
    /\ \A i \in DOMAIN published[c] :
         LET entry == published[c][i]
         IN  /\ \A d \in Commands :
                  /\ GuildOf[d] # NoGuild =>
                       (Finds("guild-id", GuildOf[d], entry) <=> GuildOf[d] = GuildOf[c])
                  /\ Finds("actor-id", ActorOf[d], entry) <=> ActorOf[d] = ActorOf[c]
             /\ HasField(entry, "error", "error") <=> i = 2 /\ pc[c] = "failed"

\* The fixture of LogsCommand's test shows "Discord command started: /ping" of
\* CommandLoggingInterceptor as an audit entry.  The code builds an "audit
\* event payload" but gives it no kind.
CommandsAreAudited ==
  \A c \in Commands :
    \A i \in DOMAIN published[c] : Finds("kind", "audit", published[c][i])
=============================================================================
