---------------------------- MODULE LogPipeline ----------------------------
(***************************************************************************)
(* The way of a log entry: TavernaLogger hands it to LogPublisher, which   *)
(* emits it to the RabbitMQ queue system_logs; the broker delivers it to   *)
(* LogProcessorController, which stores it through SystemLogRepository and *)
(* acknowledges it.  Emission is fire and forget, delivery is at least     *)
(* once, and nothing limits how many deliveries are open.  Publisher and   *)
(* processor live in one process.                                          *)
(***************************************************************************)
EXTENDS Integers, FiniteSets

CONSTANTS
  Entries,   \* log entries, each logged once
  Invalid,   \* those the schema of system_logs refuses, such as an empty message
  MaxFaults  \* bound: failures of RabbitMQ and MongoDB, and crashes, in a behaviour

ASSUME InvalidAssumption == Invalid \subseteq Entries
ASSUME MaxFaultsAssumption == MaxFaults \in Nat

VARIABLES
  emission,    \* of each entry: "new", "buffered", "sent" or "dropped"
  ready,       \* copies of each entry in the queue
  processing,  \* deliveries whose save() is awaited
  saved,       \* deliveries saved, whose acknowledgement the broker awaits
  stored,      \* documents of each entry in system_logs
  faults       \* failures and crashes so far

deliveries == <<ready, processing, saved>>
vars == <<emission, deliveries, stored, faults>>

None == [e \in Entries |-> 0]
Add(copies, e) == [copies EXCEPT ![e] = @ + 1]
Remove(copies, e) == [copies EXCEPT ![e] = @ - 1]

Init ==
  /\ emission = [e \in Entries |-> "new"]
  /\ ready = None /\ processing = None /\ saved = None /\ stored = None
  /\ faults = 0

Fault == faults < MaxFaults /\ faults' = faults + 1

-----------------------------------------------------------------------------
(* Publisher *)

\* A TavernaLogger method publishes the entry, and returns; the client of the
\* queue keeps it until the broker confirms it.
Publish(e) ==
  /\ emission[e] = "new"
  /\ emission' = [emission EXCEPT ![e] = "buffered"]
  /\ UNCHANGED <<deliveries, stored, faults>>

EmitFails(e) ==
  /\ emission[e] \in {"new", "buffered"}
  /\ Fault
  /\ emission' = [emission EXCEPT ![e] = "dropped"]
  /\ UNCHANGED <<deliveries, stored>>

Confirm(e) ==
  /\ emission[e] = "buffered"
  /\ emission' = [emission EXCEPT ![e] = "sent"]
  /\ ready' = Add(ready, e)
  /\ UNCHANGED <<processing, saved, stored, faults>>

\* The broker takes the entry, but its confirmation is lost: the client will
\* send the entry again.
ConfirmLost(e) ==
  /\ emission[e] = "buffered"
  /\ Fault
  /\ ready' = Add(ready, e)
  /\ UNCHANGED <<emission, processing, saved, stored>>

-----------------------------------------------------------------------------
(* Processor *)

Deliver(e) ==
  /\ ready[e] > 0
  /\ ready' = Remove(ready, e)
  /\ processing' = Add(processing, e)
  /\ UNCHANGED <<emission, saved, stored, faults>>

\* Mutant: save() is not awaited.
SaveNotAwaited(e) ==
  /\ processing[e] > 0
  /\ processing' = Remove(processing, e)
  /\ saved' = Add(saved, e)
  /\ UNCHANGED <<emission, ready, stored, faults>>

\* Mutant: the delivery is stored, acknowledged and nacked as well.
SaveAndNack(e) ==
  /\ processing[e] > 0
  /\ e \notin Invalid
  /\ stored' = Add(stored, e)
  /\ processing' = Remove(processing, e)
  /\ saved' = Add(saved, e)
  /\ ready' = Add(ready, e)
  /\ UNCHANGED <<emission, faults>>

\* MongoDB stores a new document, whatever it holds already.
Save(e) ==
  /\ processing[e] > 0
  /\ e \notin Invalid
  /\ stored' = Add(stored, e)
  /\ processing' = Remove(processing, e)
  /\ saved' = Add(saved, e)
  /\ UNCHANGED <<emission, ready, faults>>

\* Mutant: the delivery is nacked without being put back.
RequeueNot(e) ==
  /\ processing' = Remove(processing, e)
  /\ UNCHANGED <<emission, ready, saved>>

\* save() rejects, and the delivery is nacked back into the queue.
Requeue(e) ==
  /\ processing' = Remove(processing, e)
  /\ ready' = Add(ready, e)
  /\ UNCHANGED <<emission, saved>>

Refuse(e) ==
  /\ processing[e] > 0
  /\ e \in Invalid
  /\ Requeue(e)
  /\ UNCHANGED <<stored, faults>>

\* MongoDB fails, or its answer is lost after it stored the document.
SaveFails(e) ==
  /\ processing[e] > 0
  /\ e \notin Invalid
  /\ Fault
  /\ stored' \in {stored, Add(stored, e)}
  /\ Requeue(e)

\* Mutant: a delivery may be acknowledged twice.
AckTwice(e) ==
  /\ stored[e] > 0
  /\ saved' = Remove(saved, e)
  /\ UNCHANGED <<emission, ready, processing, stored, faults>>

Ack(e) ==
  /\ saved[e] > 0
  /\ saved' = Remove(saved, e)
  /\ UNCHANGED <<emission, ready, processing, stored, faults>>

\* The channel of the processor is lost, and the broker puts every delivery
\* back that was not acknowledged.  A save() under way may still be executed;
\* the acknowledgement after it throws, like the nack after that.
Redeliver ==
  /\ ready' = [e \in Entries |-> ready[e] + processing[e] + saved[e]]
  /\ processing' = None
  /\ saved' = None
  /\ \E late \in SUBSET {e \in Entries \ Invalid : processing[e] > 0} :
       stored' = [e \in Entries |-> IF e \in late THEN stored[e] + 1 ELSE stored[e]]

ChannelLost ==
  /\ Fault
  /\ \E e \in Entries : processing[e] + saved[e] > 0
  /\ Redeliver
  /\ UNCHANGED emission

\* The process dies with the entries it had not sent.
Crash ==
  /\ Fault
  /\ Redeliver
  /\ emission' = [e \in Entries |->
                    IF emission[e] = "buffered" THEN "dropped" ELSE emission[e]]

Next ==
  \/ \E e \in Entries :
       \/ Publish(e) \/ EmitFails(e) \/ Confirm(e) \/ ConfirmLost(e)
       \/ Deliver(e) \/ Save(e) \/ Refuse(e) \/ SaveFails(e) \/ Ack(e)
  \/ ChannelLost
  \/ Crash

\* The broker delivers what is ready, whatever else is open, and the save()
\* that the processor awaits settles.
Fairness ==
  \A e \in Entries : WF_vars(Deliver(e)) /\ WF_vars(Save(e) \/ Refuse(e))

Spec == Init /\ [][Next]_vars /\ Fairness

-----------------------------------------------------------------------------
(* Properties *)

TypeOK ==
  /\ emission \in [Entries -> {"new", "buffered", "sent", "dropped"}]
  /\ ready \in [Entries -> Nat]
  /\ processing \in [Entries -> Nat]
  /\ saved \in [Entries -> Nat]
  /\ stored \in [Entries -> Nat]
  /\ faults \in 0 .. MaxFaults

Pending(e) == ready[e] + processing[e]

\* An entry the broker has confirmed is stored, or still with the broker:
\* whatever fails or crashes, the processor never acknowledges an entry it
\* has not stored (handleSystemLog).
SentIsKept ==
  \A e \in Entries : emission[e] = "sent" => stored[e] > 0 \/ Pending(e) > 0

\* The pipeline is an at-least-once queue: the broker has what is ready or
\* being processed, and the work of an entry is done when it is stored.  What
\* waits for its acknowledgement is done, and may come back.
Queue == INSTANCE AtLeastOnce WITH
  Messages <- Entries \ Invalid,
  queued <- {e \in Entries \ Invalid : Pending(e) > 0},
  done <- {e \in Entries \ Invalid : stored[e] > 0}

\* Through every failure, crash and redelivery, no valid entry that reached the
\* broker leaves it before it is stored: the processor acknowledges after
\* save(), and nacks back what it could not store (handleSystemLog).
DeliversAtLeastOnce == Queue!Spec

\* A delivery that awaits its acknowledgement has its own document: deliveries
\* of one entry never stand in for each other (handleSystemLog, save).
AckedWhenStored == \A e \in Entries : saved[e] <= stored[e]

\* Without faults an entry is stored once: an entry that is refused, nacked and
\* delivered again never multiplies (handleSystemLog).
OnceWithoutFaults ==
  faults = 0 =>
    \A e \in Entries : stored[e] + Pending(e) = IF emission[e] = "sent" THEN 1 ELSE 0

\* An entry that the schema refuses stays with the broker for good: it is
\* neither dropped nor stored (handleSystemLog, save).
RefusedIsNeverDropped ==
  [][\A e \in Invalid : Pending(e)' >= Pending(e) /\ stored'[e] = 0]_vars

\* Every valid entry the broker has confirmed is stored in the end, although
\* entries the schema refuses go round for ever.
SentIsStored ==
  \A e \in Entries \ Invalid : emission[e] = "sent" ~> stored[e] > 0
=============================================================================
