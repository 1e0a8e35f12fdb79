---------------------------- MODULE DomainWorker ----------------------------
(***************************************************************************)
(* BaseRmqWorker: the jobs of one queue, their retries and dead letters.   *)
(*                                                                         *)
(* RabbitMQ delivers the messages of the queue, several at a time, each to *)
(* a call of handle().  A job that fails is published again to the retry   *)
(* queue, whose messages return to the queue when their delay expires, or  *)
(* to the dead-letter queue after its last attempt; only then is the       *)
(* delivery acknowledged.  The publication and the acknowledgement travel  *)
(* in this order on one channel, so the broker may see the first without   *)
(* the second, and then delivers the job again.                            *)
(*                                                                         *)
(* The repository has no concrete worker: process() is any function that   *)
(* resolves or rejects.  RabbitMQ is modelled as the code uses it: durable *)
(* queues, persistent messages, one channel.                               *)
(***************************************************************************)
EXTENDS Integers, FiniteSets

CONSTANTS
  Jobs,         \* payloads, each published once
  Deliveries,   \* deliveries that can be open at once
  MaxAttempts,  \* retry.maxAttempts
  BaseDelayMs, BackoffMultiplier, MaxDelayMs,  \* the rest of retry
  MaxFaults     \* bound: failures of the broker and crashes in a behaviour

ASSUME RetryAssumption ==
  /\ MaxAttempts \in Nat \ {0}
  /\ BaseDelayMs \in Nat /\ BackoffMultiplier \in Nat /\ MaxDelayMs \in Nat
  /\ MaxFaults \in Nat
  /\ IsFiniteSet(Deliveries)

VARIABLES
  ready,      \* the queue: how many messages of each kind
  waiting,    \* the retry queue
  dead,       \* the dead-letter queue
  pc,         \* of each delivery: where handle() stands
  held,       \* the message of each open delivery
  succeeded,  \* how often process() has resolved, and the delivery was acked
  failures,   \* how often process() has rejected
  faults,     \* failures of the broker and crashes so far
  losses      \* those among them that lost the channel

queues == <<ready, waiting, dead>>
vars == <<queues, pc, held, succeeded, failures, faults, losses>>

\* Only the job and the header x-taverna-attempt tell messages apart; 0 is no
\* header, or one that is not a positive integer.
Message == [job : Jobs, header : 0 .. MaxAttempts]
NoMessage == [job |-> "none", header |-> 0]

Put(q, m) == [q EXCEPT ![m] = @ + 1]
Take(q, m) == [q EXCEPT ![m] = @ - 1]

ResolveCurrentAttempt(m) == IF m.header > 0 THEN m.header ELSE 1

\* backoffMultiplier ** exponent.
Power[exponent \in Nat] ==
  IF exponent = 0 THEN 1 ELSE BackoffMultiplier * Power[exponent - 1]

\* Mutant: the exponent is off by one.
CalculateDelayMsOffByOne(attempt) ==
  LET delay == BaseDelayMs * Power[attempt]
  IN  IF delay < MaxDelayMs THEN delay ELSE MaxDelayMs

\* RetryBackoffService.calculateDelayMs.
CalculateDelayMs(attempt) ==
  LET exponent == (IF attempt > 1 THEN attempt ELSE 1) - 1
      delay == BaseDelayMs * Power[exponent]
  IN  IF delay < MaxDelayMs THEN delay ELSE MaxDelayMs

Init ==
  /\ ready = [m \in Message |-> IF m.header = 0 THEN 1 ELSE 0]
  /\ waiting = [m \in Message |-> 0]
  /\ dead = [m \in Message |-> 0]
  /\ pc = [d \in Deliveries |-> "idle"]
  /\ held = [d \in Deliveries |-> NoMessage]
  /\ succeeded = [j \in Jobs |-> 0]
  /\ failures = [j \in Jobs |-> 0]
  /\ faults = 0
  /\ losses = 0

-----------------------------------------------------------------------------
(* One delivery *)

Goto(d, label) == pc' = [pc EXCEPT ![d] = label]

Deliver(d) ==
  /\ pc[d] = "idle"
  /\ \E m \in Message :
       /\ ready[m] > 0
       /\ ready' = Take(ready, m)
       /\ held' = [held EXCEPT ![d] = m]
  /\ Goto(d, "process")
  /\ UNCHANGED <<waiting, dead, succeeded, failures, faults, losses>>

\* process() resolves: the delivery is acknowledged.
ProcessSucceeds(d) ==
  /\ pc[d] = "process"
  /\ Goto(d, "ackSuccess")
  /\ UNCHANGED <<queues, held, succeeded, failures, faults, losses>>

ProcessFails(d) ==
  /\ pc[d] = "process"
  /\ failures' = [failures EXCEPT ![held[d].job] = @ + 1]
  /\ Goto(d, "assertQueues")
  /\ UNCHANGED <<queues, held, succeeded, faults, losses>>

\* A call of handle() whose channel is gone does nothing any more: every
\* operation on the channel throws, the acknowledgement of a job that was done
\* like the declaration of the queues and the nack after it.
HandleInVain(d) ==
  /\ pc[d] = "inVain"
  /\ Goto(d, "idle")
  /\ UNCHANGED <<queues, held, succeeded, failures, faults, losses>>

\* Mutant: the delivery is acknowledged before anything is published.
QueuesAssertedAcked(d) ==
  /\ pc[d] = "assertQueues"
  /\ Goto(d, "ackFailure")
  /\ UNCHANGED <<queues, held, succeeded, failures, faults, losses>>

\* assertFailureQueues answers: the publication and the acknowledgement go out
\* without an await between them.
QueuesAsserted(d) ==
  /\ pc[d] = "assertQueues"
  /\ Goto(d, "publish")
  /\ UNCHANGED <<queues, held, succeeded, failures, faults, losses>>

\* assertFailureQueues rejects: the delivery is nacked, and its message back in
\* the queue as it was.
AssertFails(d) ==
  /\ pc[d] = "assertQueues"
  /\ faults < MaxFaults
  /\ faults' = faults + 1
  /\ ready' = Put(ready, held[d])
  /\ held' = [held EXCEPT ![d] = NoMessage]
  /\ Goto(d, "idle")
  /\ UNCHANGED <<waiting, dead, succeeded, failures, losses>>

\* Mutant: a job is given up one attempt early.
ExhaustedEarly(m) == ResolveCurrentAttempt(m) + 1 >= MaxAttempts

\* Mutant: the attempt is not counted up.
RetryOfSameAttempt(m) == [m EXCEPT !.header = ResolveCurrentAttempt(m)]

\* The broker receives what publishDeadLetter or publishRetry sent.
Exhausted(m) == ResolveCurrentAttempt(m) >= MaxAttempts

DeadLetterOf(m) == [m EXCEPT !.header = ResolveCurrentAttempt(m)]
RetryOf(m) == [m EXCEPT !.header = ResolveCurrentAttempt(m) + 1]

\* The expiration of a message in the retry queue.
DelayOf(m) == CalculateDelayMs(m.header - 1)

\* Mutant: the return after the dead letter is missing.
PublishDeadLetterAndRetry(d) ==
  /\ pc[d] = "publish"
  /\ Exhausted(held[d])
  /\ dead' = Put(dead, DeadLetterOf(held[d]))
  /\ waiting' = Put(waiting, DeadLetterOf(held[d]))
  /\ Goto(d, "ackFailure")
  /\ UNCHANGED <<ready, held, succeeded, failures, faults, losses>>

PublishDeadLetter(d) ==
  /\ pc[d] = "publish"
  /\ Exhausted(held[d])
  /\ dead' = Put(dead, DeadLetterOf(held[d]))
  /\ Goto(d, "ackFailure")
  /\ UNCHANGED <<ready, waiting, held, succeeded, failures, faults, losses>>

PublishRetry(d) ==
  /\ pc[d] = "publish"
  /\ ~ Exhausted(held[d])
  /\ waiting' = Put(waiting, RetryOf(held[d]))
  /\ Goto(d, "ackFailure")
  /\ UNCHANGED <<ready, dead, held, succeeded, failures, faults, losses>>

\* The broker receives the acknowledgement.
Ack(d) ==
  /\ pc[d] \in {"ackSuccess", "ackFailure"}
  /\ IF pc[d] = "ackSuccess"
     THEN succeeded' = [succeeded EXCEPT ![held[d].job] = @ + 1]
     ELSE UNCHANGED succeeded
  /\ held' = [held EXCEPT ![d] = NoMessage]
  /\ Goto(d, "idle")
  /\ UNCHANGED <<queues, failures, faults, losses>>

-----------------------------------------------------------------------------
(* The broker, and failures *)

\* Mutant: the retry queue is declared without a dead-letter exchange.
ExpireAndForget(m) ==
  /\ waiting[m] > 0
  /\ waiting' = Take(waiting, m)
  /\ UNCHANGED <<ready, dead, pc, held, succeeded, failures, faults, losses>>

\* Mutant: a message may expire when none waits.
ExpireUnguarded(m) ==
  /\ waiting' = Take(waiting, m)
  /\ ready' = Put(ready, m)
  /\ UNCHANGED <<dead, pc, held, succeeded, failures, faults, losses>>

\* The delay of a retry is over: the retry queue dead-letters it to the queue.
Expire(m) ==
  /\ waiting[m] > 0
  /\ waiting' = Take(waiting, m)
  /\ ready' = Put(ready, m)
  /\ UNCHANGED <<dead, pc, held, succeeded, failures, faults, losses>>

Unacked(d) == pc[d] \notin {"idle", "inVain"}

Redelivered ==
  [m \in Message |-> ready[m] + Cardinality({d \in Deliveries : Unacked(d) /\ held[d] = m})]

\* The channel is lost with what it had not carried yet, and the broker puts
\* every unacknowledged message back.  The calls of handle() that still await
\* something go on in vain, or die with the process.
Awaits(d) == pc[d] \in {"process", "assertQueues", "inVain"}

ChannelLost ==
  /\ \E d \in Deliveries : Unacked(d)
  /\ faults < MaxFaults
  /\ faults' = faults + 1
  /\ losses' = losses + 1
  /\ ready' = Redelivered
  /\ held' = [d \in Deliveries |-> NoMessage]
  /\ \E survives \in BOOLEAN :
       pc' = [d \in Deliveries |-> IF survives /\ Awaits(d) THEN "inVain" ELSE "idle"]
  /\ UNCHANGED <<waiting, dead, succeeded, failures>>

Step(d) ==
  \/ Deliver(d) \/ ProcessSucceeds(d) \/ ProcessFails(d) \/ HandleInVain(d)
  \/ QueuesAsserted(d) \/ AssertFails(d)
  \/ PublishDeadLetter(d) \/ PublishRetry(d) \/ Ack(d)

Next ==
  \/ \E d \in Deliveries : Step(d)
  \/ \E m \in Message : Expire(m)
  \/ ChannelLost

\* The broker delivers what is ready and expires what waits; every promise a
\* call awaits settles.
Fairness ==
  /\ \A d \in Deliveries : WF_vars(Step(d))
  /\ \A m \in Message : WF_vars(Expire(m))

Spec == Init /\ [][Next]_vars /\ Fairness

-----------------------------------------------------------------------------
(* Properties *)

TypeOK ==
  /\ ready \in [Message -> Nat]
  /\ waiting \in [Message -> Nat]
  /\ dead \in [Message -> Nat]
  /\ pc \in [Deliveries -> {"idle", "process", "assertQueues", "publish",
                            "ackSuccess", "ackFailure", "inVain"}]
  /\ held \in [Deliveries -> Message \cup {NoMessage}]
  /\ succeeded \in [Jobs -> Nat]
  /\ failures \in [Jobs -> Nat]
  /\ faults \in 0 .. MaxFaults
  /\ losses \in 0 .. faults

\* A copy of a message is in one of the three queues, or held by a delivery
\* whose handle() has not published it further.
HeldBefore(d, labels, m) == pc[d] \in labels /\ held[d] = m
BeforePublication == {"process", "assertQueues", "publish", "ackSuccess"}

IsPending(m) ==
  \/ ready[m] > 0 \/ waiting[m] > 0
  \/ \E d \in Deliveries : HeldBefore(d, BeforePublication, m)

HasCopy(m) == IsPending(m) \/ dead[m] > 0

Queued == {j \in Jobs : \E m \in Message : m.job = j /\ IsPending(m)}
Done == {j \in Jobs : succeeded[j] > 0 \/ \E m \in Message : m.job = j /\ dead[m] > 0}

\* A job is never lost: it has succeeded or failed for good, or the broker still
\* has it, in a queue or as a delivery that it will put back when the channel
\* breaks.  So nothing is acknowledged before it is safe elsewhere (handle,
\* handleFailure).
NoJobIsLost == Jobs \subseteq Queued \cup Done

\* The worker and its three queues are one at-least-once queue of jobs, whose
\* work is done when process() has resolved and the job was acknowledged, or
\* the job lies in the dead-letter queue.
Queue == INSTANCE AtLeastOnce WITH Messages <- Jobs, queued <- Queued, done <- Done

\* A job stays with the broker through retries, nacks, lost channels and
\* crashes until it was acknowledged as done or its dead letter was written, and
\* neither is ever taken back (handle, handleFailure, assertFailureQueues).
DeliversAtLeastOnce == Queue!Spec

\* A job is in one place at a time, and ends in one place once, whatever
\* fails, unless a channel is lost: retries, dead letters and nacked
\* deliveries never multiply a job by themselves (handleFailure).
Places == {"ready", "waiting", "dead", "open", "done"}

Keepers(j, place) ==
  CASE place = "open" -> Deliveries
    [] place = "done" -> {j}
    [] OTHER          -> {m \in Message : m.job = j}

CopiesAt(j, place, k) ==
  CASE place = "ready"   -> ready[k]
    [] place = "waiting" -> waiting[k]
    [] place = "dead"    -> dead[k]
    [] place = "open"    -> IF pc[k] \in BeforePublication /\ held[k].job = j THEN 1 ELSE 0
    [] place = "done"    -> succeeded[k]

OneCopy(j) ==
  \E place \in Places : \E k \in Keepers(j, place) :
    /\ CopiesAt(j, place, k) = 1
    /\ \A other \in Places : \A l \in Keepers(j, other) :
         other # place \/ l # k => CopiesAt(j, other, l) = 0

OneCopyUnlessLost == losses = 0 => \A j \in Jobs : OneCopy(j)

\* The attempt a message carries is earned, through any number of faults and
\* duplicates: process() has rejected its job at least once for each attempt
\* before, and for each attempt of a dead letter, which is only written of a
\* job that has failed MaxAttempts times (resolveCurrentAttempt, publishRetry,
\* publishDeadLetter).
AttemptsAreEarned ==
  \A m \in Message :
    /\ HasCopy(m) => failures[m.job] >= ResolveCurrentAttempt(m) - 1
    /\ dead[m] > 0 => failures[m.job] >= MaxAttempts

\* Without faults no job is tried more than MaxAttempts times (handleFailure).
TriesAreBounded ==
  faults = 0 => \A j \in Jobs : failures[j] + succeeded[j] <= MaxAttempts

Capped(delay) == IF delay < MaxDelayMs THEN delay ELSE MaxDelayMs

Backoff[retry \in 1 .. MaxAttempts] ==
  IF retry = 1 THEN Capped(BaseDelayMs) ELSE Capped(BackoffMultiplier * Backoff[retry - 1])

\* A message in the retry queue waits as long as its attempt deserves: the
\* first retry the base delay, each later one the multiple of the one before,
\* never more than the maximum (publishRetry, calculateDelayMs).
DelaysBackOff ==
  \A m \in Message : waiting[m] > 0 => DelayOf(m) = Backoff[m.header - 1]

\* Every job is done in the end, or ends as a dead letter.
JobsSettle ==
  \A j \in Jobs :
    <>(succeeded[j] > 0 \/ \E m \in Message : m.job = j /\ dead[m] > 0)
=============================================================================
