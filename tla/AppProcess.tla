----------------------------- MODULE AppProcess -----------------------------
(***************************************************************************)
(* The life of the bot's process: bootstrap() starts the file transport,   *)
(* creates and connects the application and initialises its modules; the   *)
(* cron runner starts its jobs meanwhile, and their failures are logged.   *)
(* When bootstrap() rejects, its handler logs the cause, stops the         *)
(* transport, waits for the files, and exits.                              *)
(***************************************************************************)
EXTENDS FileTransport, FiniteSets

CONSTANTS
  CronJobs,  \* the names of DOMAIN_CRON_JOBS
  MaxRuns    \* bound: executions of one job that overlap

ASSUME MaxRunsAssumption == MaxRuns \in Nat

VARIABLES
  boot,     \* where bootstrap() stands
  started,  \* the cron jobs started
  running,  \* open executions of each job
  cause     \* the number of the mirrored line that tells why bootstrap() failed, or 0

vars == <<transportVars, boot, started, running, cause>>
processVars == <<boot, started, running, cause>>

Booting == {"create", "connect", "init"}
Alive == boot \notin {"exited", "dead"}

Init ==
  /\ TransportInit
  /\ boot = "mkdir"
  /\ started = {}
  /\ running = [j \in CronJobs |-> 0]
  /\ cause = 0

-----------------------------------------------------------------------------
(* bootstrap *)

\* bootstrap() goes on, with a directory for the files or without.
TransportStarts ==
  /\ boot = "mkdir"
  /\ StartTransport
  /\ boot' = "create"
  /\ UNCHANGED <<started, running, cause>>

\* The application is created, its microservices are connected, its modules
\* initialised.
BootAdvances ==
  /\ \/ boot = "create" /\ boot' = "connect"
     \/ boot = "connect" /\ boot' = "init"
  /\ UNCHANGED <<transportVars, started, running, cause>>

\* "up and running!" is logged.
BootEnds ==
  /\ boot = "init"
  /\ started = CronJobs
  /\ WriteLine
  /\ boot' = "up"
  /\ UNCHANGED <<started, running, cause>>

\* Mutant: the transport is stopped before the cause is logged.
BootFailsUnheard ==
  /\ boot \in Booting
  /\ boot' = "stopping"
  /\ transport' = IF transport = "on" THEN "off" ELSE transport
  /\ UNCHANGED <<day, currentDateKey, currentFilePath, pendingWrite, files, mirrored,
                 reported, started, running, cause>>

\* A step of bootstrap() rejects.  Its handler logs the cause and calls stop(),
\* which gives the streams back, without an await in between.
BootFails ==
  /\ boot \in Booting
  /\ boot' = "stopping"
  /\ IF transport = "on"
     THEN Mirror /\ transport' = "off" /\ cause' = Len(mirrored) + 1
     ELSE UNCHANGED <<transportVars, cause>>
  /\ UNCHANGED <<started, running>>

\* Mutant: stop() does not wait for the chain.
ExitAtOnce ==
  /\ boot = "stopping"
  /\ boot' = "exited"
  /\ UNCHANGED <<transportVars, started, running, cause>>

\* stop() has awaited the chain, to which nothing was added since.
Exit ==
  /\ boot = "stopping"
  /\ pendingWrite = <<>>
  /\ boot' = "exited"
  /\ UNCHANGED <<transportVars, started, running, cause>>

\* The process is killed, or the framework ends it of its own.
Kill ==
  /\ Alive
  /\ boot' = "dead"
  /\ UNCHANGED <<transportVars, started, running, cause>>

-----------------------------------------------------------------------------
(* The cron runner *)

\* onModuleInit registers and starts a job.  A bad expression or a name that
\* is taken throws, and the jobs started before go on: that is BootFails.
StartJob(j) ==
  /\ boot = "init"
  /\ j \notin started
  /\ started' = started \cup {j}
  /\ UNCHANGED <<transportVars, boot, running, cause>>

\* The clock starts the job, whether or not it still runs.
Tick(j) ==
  /\ Alive
  /\ j \in started
  /\ running[j] < MaxRuns
  /\ running' = [running EXCEPT ![j] = @ + 1]
  /\ UNCHANGED <<transportVars, boot, started, cause>>

RunSucceeds(j) ==
  /\ Alive
  /\ running[j] > 0
  /\ running' = [running EXCEPT ![j] = @ - 1]
  /\ UNCHANGED <<transportVars, boot, started, cause>>

\* job.run() rejects: the failure is logged, and the schedule goes on.
RunFails(j) ==
  /\ Alive
  /\ running[j] > 0
  /\ running' = [running EXCEPT ![j] = @ - 1]
  /\ WriteLine
  /\ UNCHANGED <<boot, started, cause>>

-----------------------------------------------------------------------------

SettleAppend == Alive /\ (AppendSucceeds \/ AppendFails) /\ UNCHANGED processVars

Next ==
  \/ TransportStarts \/ BootAdvances \/ BootEnds \/ BootFails \/ Exit \/ Kill
  \/ \E j \in CronJobs : StartJob(j) \/ Tick(j) \/ RunSucceeds(j) \/ RunFails(j)
  \/ SettleAppend
  \/ Alive /\ (ClockMoves \/ WriteLine) /\ UNCHANGED processVars

\* Every call of appendFile settles, and the handler of bootstrap() goes on
\* when the chain has.
Fairness == WF_vars(SettleAppend) /\ WF_vars(Exit)

Spec == Init /\ [][Next]_vars /\ Fairness

-----------------------------------------------------------------------------
(* Properties *)

TypeOK ==
  /\ day \in Days
  /\ transport \in {"new", "on", "off", "failed"}
  /\ currentDateKey \in Days \cup {"none"}
  /\ currentFilePath \in {FileOf(d) : d \in Days} \cup {NoFile}
  /\ pendingWrite \in Seq([line : 1 .. MaxLines, path : {FileOf(d) : d \in Days}])
  /\ files \in [Days -> Seq(1 .. MaxLines)]
  /\ mirrored \in Seq(Days) /\ Len(mirrored) <= MaxLines
  /\ reported \subseteq 1 .. MaxLines
  /\ boot \in {"mkdir", "up", "stopping", "exited", "dead"} \cup Booting
  /\ started \subseteq CronJobs
  /\ running \in [CronJobs -> 0 .. MaxRuns]
  /\ cause \in 0 .. MaxLines

\* When a bootstrap that failed exits, the files are complete: every line that
\* was mirrored, and at the end of them the cause, is in a file or was reported
\* on the console, although cron jobs may go on writing to it while stop()
\* waits (bootstrap's catch, stop).
ExitLosesNothing ==
  boot = "exited" =>
    /\ \A n \in DOMAIN mirrored :
         n \in reported \/ \E i \in DOMAIN files[mirrored[n]] : files[mirrored[n]][i] = n
    /\ transport # "failed" => cause = Len(mirrored) /\ cause > 0

\* Every mirrored line reaches a file or is reported, however many appends
\* before it fail, and a bootstrap that failed exits, unless the process is
\* killed (enqueueWrite, stop).
LinesSettle ==
  /\ \A n \in 1 .. MaxLines :
       n \in DOMAIN mirrored ~>
         \/ boot = "dead" \/ n \in reported
         \/ \E d \in Days : \E i \in DOMAIN files[d] : files[d][i] = n
  /\ boot = "stopping" ~> ~ Alive
=============================================================================
