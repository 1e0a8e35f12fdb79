-------------------------- MODULE DomainWorkerProofs --------------------------
(***************************************************************************)
(* The worker implements AtLeastOnce, no message of it carries an attempt  *)
(* that was not made, and as long as no channel is lost a job is in one    *)
(* place, once, and is tried no more often than it may be; a waiting retry *)
(* carries the capped exponential delay of its attempt: for any number of  *)
(* jobs, deliveries, attempts and faults.                                  *)
(***************************************************************************)
EXTENDS DomainWorker, FiniteSetTheorems, WellFoundedInduction, TLAPS

\* The message of an open delivery is one of a job that has failed as often as
\* it tells, and once more after process() has rejected.
DeliveryOK(d) ==
  Unacked(d) =>
    /\ held[d] \in Message
    /\ failures[held[d].job] >= ResolveCurrentAttempt(held[d]) - 1
    /\ pc[d] \in {"assertQueues", "publish"} =>
         failures[held[d].job] >= ResolveCurrentAttempt(held[d])

InQueue(m) == ready[m] > 0 \/ waiting[m] > 0 \/ dead[m] > 0

MessageOK(m) ==
  /\ InQueue(m) => failures[m.job] >= ResolveCurrentAttempt(m) - 1
  /\ dead[m] > 0 => failures[m.job] >= MaxAttempts

Earned ==
  /\ \A d \in Deliveries : DeliveryOK(d)
  /\ \A m \in Message : MessageOK(m)

Count == [Message -> Nat]

-----------------------------------------------------------------------------
(* The operators *)

LEMMA PutCounts ==
  ASSUME NEW q \in Count, NEW m \in Message
  PROVE  /\ Put(q, m) \in Count
         /\ \A n \in Message : Put(q, m)[n] = IF n = m THEN q[n] + 1 ELSE q[n]
BY DEF Put, Count

LEMMA TakeCounts ==
  ASSUME NEW q \in Count, NEW m \in Message, q[m] > 0
  PROVE  /\ Take(q, m) \in Count
         /\ \A n \in Message : Take(q, m)[n] = IF n = m THEN q[n] - 1 ELSE q[n]
<1>1. q[m] - 1 \in Nat
  BY DEF Count
<1> QED
  BY <1>1 DEF Take, Count

\* A retry and a dead letter are messages of the same job, one attempt on and of
\* the attempt that failed.
LEMMA Published ==
  ASSUME NEW m \in Message
  PROVE  /\ ResolveCurrentAttempt(m) \in Nat
         /\ m.job \in Jobs
         /\ Exhausted(m) =>
              /\ ResolveCurrentAttempt(m) >= MaxAttempts
              /\ DeadLetterOf(m) \in Message
              /\ DeadLetterOf(m).job = m.job
              /\ ResolveCurrentAttempt(DeadLetterOf(m)) = ResolveCurrentAttempt(m)
         /\ ~ Exhausted(m) =>
              /\ RetryOf(m) \in Message
              /\ RetryOf(m).job = m.job
              /\ ResolveCurrentAttempt(RetryOf(m)) = ResolveCurrentAttempt(m) + 1
<1>1. /\ m = [job |-> m.job, header |-> m.header]
      /\ m.job \in Jobs
      /\ m.header \in 0 .. MaxAttempts
      /\ MaxAttempts \in Nat \ {0}
  BY RetryAssumption DEF Message
<1>2. ResolveCurrentAttempt(m) \in 1 .. MaxAttempts
  BY <1>1 DEF ResolveCurrentAttempt
<1>3. /\ DeadLetterOf(m) = [job |-> m.job, header |-> ResolveCurrentAttempt(m)]
      /\ RetryOf(m) = [job |-> m.job, header |-> ResolveCurrentAttempt(m) + 1]
  BY <1>1 DEF DeadLetterOf, RetryOf
<1>4. ASSUME Exhausted(m)
      PROVE  /\ ResolveCurrentAttempt(m) >= MaxAttempts
             /\ DeadLetterOf(m) \in Message
             /\ DeadLetterOf(m).job = m.job
             /\ DeadLetterOf(m).header = ResolveCurrentAttempt(m)
  BY <1>1, <1>2, <1>3, <1>4 DEF Exhausted, Message
<1>5. ASSUME ~ Exhausted(m)
      PROVE  /\ RetryOf(m) \in Message
             /\ RetryOf(m).job = m.job
             /\ RetryOf(m).header = ResolveCurrentAttempt(m) + 1
  <2>1. ResolveCurrentAttempt(m) + 1 \in 0 .. MaxAttempts
    BY <1>1, <1>2, <1>5 DEF Exhausted
  <2> QED
    BY <1>1, <1>3, <2>1 DEF Message
<1>6. \A n : n.header = ResolveCurrentAttempt(m) => ResolveCurrentAttempt(n) = ResolveCurrentAttempt(m)
  BY <1>2 DEF ResolveCurrentAttempt
<1>7. \A n : n.header = ResolveCurrentAttempt(m) + 1 =>
               ResolveCurrentAttempt(n) = ResolveCurrentAttempt(m) + 1
  BY <1>2 DEF ResolveCurrentAttempt
<1> QED
  BY <1>1, <1>2, <1>4, <1>5, <1>6, <1>7

\* What the loss of the channel puts back.
LEMMA RedeliveredCounts ==
  ASSUME ready \in Count
  PROVE  /\ Redelivered \in Count
         /\ \A m \in Message :
              Redelivered[m] > 0 <=>
                ready[m] > 0 \/ \E d \in Deliveries : Unacked(d) /\ held[d] = m
<1> DEFINE Open(m) == {d \in Deliveries : Unacked(d) /\ held[d] = m}
<1>1. ASSUME NEW m \in Message
      PROVE  Cardinality(Open(m)) \in Nat /\ (Cardinality(Open(m)) = 0 <=> Open(m) = {})
  <2>1. IsFiniteSet(Open(m))
    <3>1. IsFiniteSet(Deliveries) /\ Open(m) \in SUBSET Deliveries
      BY RetryAssumption
    <3> QED
      BY <3>1, FS_Subset
  <2> QED
    BY <2>1, FS_CardinalityType, FS_EmptySet
<1>2. Redelivered = [m \in Message |-> ready[m] + Cardinality(Open(m))]
  BY DEF Redelivered
<1>3. ASSUME NEW m \in Message
      PROVE  /\ Redelivered[m] = ready[m] + Cardinality(Open(m))
             /\ ready[m] \in Nat
  BY <1>2 DEF Count
<1> HIDE DEF Open
<1>4. Redelivered \in Count
  BY <1>1, <1>2 DEF Count
<1>5. ASSUME NEW m \in Message
      PROVE  Redelivered[m] > 0 <=> ready[m] > 0 \/ Open(m) # {}
  BY <1>1, <1>3
<1> QED
  BY <1>4, <1>5 DEF Open

-----------------------------------------------------------------------------
(* Types and attempts *)

LEMMA InitEarned == Init => TypeOK /\ Earned
<1> SUFFICES ASSUME Init PROVE TypeOK /\ Earned
  OBVIOUS
<1>1. TypeOK
  BY RetryAssumption DEF Init, TypeOK
<1>2. \A d \in Deliveries : DeliveryOK(d)
  BY DEF Init, DeliveryOK, Unacked
<1>3. ASSUME NEW m \in Message PROVE MessageOK(m)
  <2>1. m.job \in Jobs /\ m.header \in 0 .. MaxAttempts
    BY DEF Message
  <2>2. failures[m.job] = 0 /\ dead[m] = 0 /\ waiting[m] = 0
        /\ (ready[m] > 0 => m.header = 0)
    BY <2>1 DEF Init
  <2> QED
    BY <2>1, <2>2 DEF MessageOK, InQueue, ResolveCurrentAttempt
<1> QED
  BY <1>1, <1>2, <1>3 DEF Earned

\* A step that only moves the message of one delivery on, or lets it go.
LEMMA DeliveryMoves ==
  ASSUME TypeOK, Earned, NEW d \in Deliveries,
         Unacked(d) \/ pc[d] = "inVain",
         UNCHANGED failures,
         \/ /\ pc' = [pc EXCEPT ![d] = "idle"]
            /\ held' \in {held, [held EXCEPT ![d] = NoMessage]}
         \/ /\ Unacked(d)
            /\ pc[d] = "assertQueues" /\ pc' = [pc EXCEPT ![d] = "publish"]
            /\ held' = held
         \/ /\ Unacked(d)
            /\ \E label \in {"ackSuccess", "ackFailure"} : pc' = [pc EXCEPT ![d] = label]
            /\ held' = held
  PROVE  /\ \A e \in Deliveries : DeliveryOK(e)'
         /\ pc' \in [Deliveries -> {"idle", "process", "assertQueues", "publish",
                                    "ackSuccess", "ackFailure", "inVain"}]
         /\ held' \in [Deliveries -> Message \cup {NoMessage}]
<1>1. ASSUME NEW e \in Deliveries PROVE DeliveryOK(e)'
  <2>1. DeliveryOK(e)
    BY DEF Earned
  <2>2. CASE e # d
    BY <2>1, <2>2 DEF TypeOK, DeliveryOK, Unacked
  <2>3. CASE e = d
    BY <2>1, <2>3 DEF TypeOK, DeliveryOK, Unacked
  <2> QED
    BY <2>2, <2>3
<1> QED
  BY <1>1 DEF TypeOK

\* A queue may lose messages without harm.
LEMMA QueuesKeep ==
  ASSUME Earned, UNCHANGED failures, dead' = dead,
         \A m \in Message : InQueue(m)' => InQueue(m)
  PROVE  \A m \in Message : MessageOK(m)'
BY DEF Earned, MessageOK

LEMMA NextEarned == TypeOK /\ Earned /\ [Next]_vars => TypeOK' /\ Earned'
<1> SUFFICES ASSUME TypeOK, Earned, [Next]_vars PROVE TypeOK' /\ Earned'
  OBVIOUS
<1>0. /\ ready \in Count /\ waiting \in Count /\ dead \in Count
      /\ \A d \in Deliveries : DeliveryOK(d)
      /\ \A m \in Message : MessageOK(m)
  BY DEF TypeOK, Count, Earned
<1>1. CASE UNCHANGED vars
  BY <1>0, <1>1 DEF vars, queues, TypeOK, Earned, DeliveryOK, MessageOK, InQueue, Unacked
<1>2. ASSUME NEW d \in Deliveries, Deliver(d) PROVE TypeOK' /\ Earned'
  <2>1. PICK m \in Message : /\ ready[m] > 0
                             /\ ready' = Take(ready, m)
                             /\ held' = [held EXCEPT ![d] = m]
    BY <1>2 DEF Deliver
  <2>2. /\ ready' \in Count
        /\ \A n \in Message : ready'[n] = IF n = m THEN ready[n] - 1 ELSE ready[n]
    BY <1>0, <2>1, TakeCounts
  <2>3. TypeOK'
    BY <1>2, <2>1, <2>2 DEF Deliver, Goto, TypeOK, Count
  <2>4. ASSUME NEW n \in Message, InQueue(n)' PROVE InQueue(n)
    BY <1>0, <1>2, <2>2, <2>4 DEF Deliver, InQueue, Count
  <2>5. ASSUME NEW e \in Deliveries PROVE DeliveryOK(e)'
    <3>1. CASE e # d
      BY <1>0, <1>2, <2>1, <3>1 DEF Deliver, Goto, TypeOK, DeliveryOK, Unacked
    <3>2. CASE e = d
      <4>1. held'[d] = m /\ pc'[d] = "process" /\ failures' = failures
        BY <1>2, <2>1 DEF Deliver, Goto, TypeOK
      <4>2. failures[m.job] >= ResolveCurrentAttempt(m) - 1
        BY <1>0, <2>1 DEF MessageOK, InQueue
      <4> QED
        BY <3>2, <4>1, <4>2 DEF DeliveryOK
    <3> QED
      BY <3>1, <3>2
  <2> QED
    BY <1>2, <2>3, <2>4, <2>5, QueuesKeep DEF Deliver, Earned
<1>3. ASSUME NEW d \in Deliveries, ProcessSucceeds(d) \/ HandleInVain(d) \/ QueuesAsserted(d)
      PROVE  TypeOK' /\ Earned'
  <2>1. UNCHANGED <<ready, waiting, dead, held, succeeded, failures, faults, losses>>
    BY <1>3 DEF ProcessSucceeds, HandleInVain, QueuesAsserted, queues
  <2>2. /\ \A e \in Deliveries : DeliveryOK(e)'
        /\ pc' \in [Deliveries -> {"idle", "process", "assertQueues", "publish",
                                   "ackSuccess", "ackFailure", "inVain"}]
    <3>1. CASE ProcessSucceeds(d)
      BY <2>1, <3>1, DeliveryMoves DEF ProcessSucceeds, Goto, Unacked
    <3>2. CASE HandleInVain(d)
      BY <2>1, <3>2, DeliveryMoves DEF HandleInVain, Goto, Unacked
    <3>3. CASE QueuesAsserted(d)
      BY <2>1, <3>3, DeliveryMoves DEF QueuesAsserted, Goto, Unacked
    <3> QED
      BY <1>3, <3>1, <3>2, <3>3
  <2>3. TypeOK'
    BY <2>1, <2>2 DEF TypeOK
  <2> QED
    BY <2>1, <2>2, <2>3, QueuesKeep DEF Earned, InQueue
<1>4. ASSUME NEW d \in Deliveries, ProcessFails(d) PROVE TypeOK' /\ Earned'
  <2>1. held[d] \in Message /\ held[d].job \in Jobs
        /\ failures[held[d].job] >= ResolveCurrentAttempt(held[d]) - 1
        /\ ResolveCurrentAttempt(held[d]) \in Nat
    BY <1>0, <1>4, Published DEF ProcessFails, DeliveryOK, Unacked
  <2>2. /\ failures' \in [Jobs -> Nat]
        /\ failures'[held[d].job] = failures[held[d].job] + 1
        /\ \A j \in Jobs : failures'[j] >= failures[j]
    BY <1>4, <2>1 DEF ProcessFails, TypeOK
  <2>3. UNCHANGED <<ready, waiting, dead, held, succeeded, faults, losses>>
        /\ pc' = [pc EXCEPT ![d] = "assertQueues"]
    BY <1>4 DEF ProcessFails, queues, Goto
  <2>4. TypeOK'
    BY <2>2, <2>3 DEF TypeOK
  <2>5. ASSUME NEW e \in Deliveries PROVE DeliveryOK(e)'
    <3>1. ASSUME Unacked(e), e # d PROVE DeliveryOK(e)'
      <4>1. held[e] \in Message /\ held[e].job \in Jobs
            /\ ResolveCurrentAttempt(held[e]) \in Nat
        BY <1>0, <3>1, Published DEF DeliveryOK
      <4>2. pc'[e] = pc[e]
        BY <2>3, <3>1 DEF TypeOK
      <4>3. failures[held[e].job] \in Nat /\ failures'[held[e].job] \in Nat
            /\ failures'[held[e].job] >= failures[held[e].job]
        BY <2>2, <4>1 DEF TypeOK
      <4> QED
        BY <1>0, <2>3, <3>1, <4>1, <4>2, <4>3 DEF DeliveryOK, Unacked
    <3>2. CASE ~ Unacked(e) /\ e # d
      BY <2>3, <3>2 DEF TypeOK, DeliveryOK, Unacked
    <3>3. CASE e = d
      <4>1. failures[held[d].job] \in Nat
        BY <2>1 DEF TypeOK
      <4>2. failures'[held[d].job] >= ResolveCurrentAttempt(held[d])
        BY <2>1, <2>2, <4>1
      <4>3. failures'[held[d].job] \in Nat
        BY <2>1, <2>2
      <4> QED
        BY <2>1, <2>3, <3>3, <4>2, <4>3 DEF DeliveryOK
    <3> QED
      BY <3>1, <3>2, <3>3
  <2>6. ASSUME NEW m \in Message PROVE MessageOK(m)'
    <3>1. m.job \in Jobs /\ ResolveCurrentAttempt(m) \in Nat
      BY Published
    <3>2. failures[m.job] \in Nat /\ failures'[m.job] \in Nat
          /\ failures'[m.job] >= failures[m.job]
      BY <2>2, <3>1 DEF TypeOK
    <3> QED
      BY <1>0, <2>3, <3>1, <3>2, RetryAssumption DEF MessageOK, InQueue
  <2> QED
    BY <2>4, <2>5, <2>6 DEF Earned
<1>5. ASSUME NEW d \in Deliveries, AssertFails(d) PROVE TypeOK' /\ Earned'
  <2>1. /\ Unacked(d) /\ held[d] \in Message
        /\ failures[held[d].job] >= ResolveCurrentAttempt(held[d]) - 1
    BY <1>0, <1>5 DEF AssertFails, DeliveryOK, Unacked
  <2>2. /\ ready' \in Count
        /\ \A n \in Message : ready'[n] = IF n = held[d] THEN ready[n] + 1 ELSE ready[n]
    BY <1>0, <1>5, <2>1, PutCounts DEF AssertFails
  <2>3. /\ UNCHANGED <<waiting, dead, succeeded, failures, losses>>
        /\ pc' = [pc EXCEPT ![d] = "idle"]
        /\ held' = [held EXCEPT ![d] = NoMessage]
        /\ faults' \in 0 .. MaxFaults /\ losses \in 0 .. faults'
    BY <1>5, RetryAssumption DEF AssertFails, Goto, TypeOK
  <2>4. /\ \A e \in Deliveries : DeliveryOK(e)'
        /\ pc' \in [Deliveries -> {"idle", "process", "assertQueues", "publish",
                                   "ackSuccess", "ackFailure", "inVain"}]
        /\ held' \in [Deliveries -> Message \cup {NoMessage}]
    BY <2>1, <2>3, DeliveryMoves
  <2>5. TypeOK'
    BY <2>2, <2>3, <2>4 DEF TypeOK, Count
  <2>6. ASSUME NEW m \in Message PROVE MessageOK(m)'
    BY <1>0, <2>1, <2>2, <2>3 DEF MessageOK, InQueue
  <2> QED
    BY <2>4, <2>5, <2>6 DEF Earned
<1>6. ASSUME NEW d \in Deliveries, PublishDeadLetter(d) PROVE TypeOK' /\ Earned'
  <2> DEFINE letter == DeadLetterOf(held[d])
  <2>1. /\ Unacked(d) /\ held[d] \in Message
        /\ failures[held[d].job] >= ResolveCurrentAttempt(held[d])
        /\ Exhausted(held[d])
    BY <1>0, <1>6 DEF PublishDeadLetter, DeliveryOK, Unacked
  <2>2. /\ letter \in Message /\ letter.job = held[d].job
        /\ ResolveCurrentAttempt(letter) = ResolveCurrentAttempt(held[d])
        /\ ResolveCurrentAttempt(held[d]) >= MaxAttempts
        /\ ResolveCurrentAttempt(held[d]) \in Nat /\ MaxAttempts \in Nat
        /\ failures[held[d].job] \in Nat
    BY <2>1, Published, RetryAssumption DEF TypeOK
  <2>3. failures[letter.job] >= ResolveCurrentAttempt(letter) - 1
        /\ failures[letter.job] >= MaxAttempts
    BY <2>1, <2>2
  <2>4. /\ UNCHANGED <<ready, waiting, held, succeeded, failures, faults, losses>>
        /\ pc' = [pc EXCEPT ![d] = "ackFailure"]
        /\ dead' = Put(dead, letter)
    BY <1>6 DEF PublishDeadLetter, Goto
  <2> HIDE DEF letter
  <2>5. /\ dead' \in Count
        /\ \A n \in Message : dead'[n] = IF n = letter THEN dead[n] + 1 ELSE dead[n]
    BY <1>0, <2>2, <2>4, PutCounts
  <2>6. /\ \A e \in Deliveries : DeliveryOK(e)'
        /\ pc' \in [Deliveries -> {"idle", "process", "assertQueues", "publish",
                                   "ackSuccess", "ackFailure", "inVain"}]
    BY <2>1, <2>4, DeliveryMoves
  <2>7. TypeOK'
    BY <2>4, <2>5, <2>6 DEF TypeOK, Count
  <2>8. ASSUME NEW m \in Message PROVE MessageOK(m)'
    BY <1>0, <2>3, <2>4, <2>5 DEF MessageOK, InQueue
  <2> QED
    BY <2>6, <2>7, <2>8 DEF Earned
<1>7. ASSUME NEW d \in Deliveries, PublishRetry(d) PROVE TypeOK' /\ Earned'
  <2> DEFINE retry == RetryOf(held[d])
  <2>1. /\ Unacked(d) /\ held[d] \in Message
        /\ failures[held[d].job] >= ResolveCurrentAttempt(held[d])
        /\ ~ Exhausted(held[d])
    BY <1>0, <1>7 DEF PublishRetry, DeliveryOK, Unacked
  <2>2. /\ retry \in Message /\ retry.job = held[d].job
        /\ ResolveCurrentAttempt(retry) = ResolveCurrentAttempt(held[d]) + 1
        /\ ResolveCurrentAttempt(held[d]) \in Nat
        /\ failures[held[d].job] \in Nat
    BY <2>1, Published DEF TypeOK
  <2>3. failures[retry.job] >= ResolveCurrentAttempt(retry) - 1
    BY <2>1, <2>2
  <2>4. /\ UNCHANGED <<ready, dead, held, succeeded, failures, faults, losses>>
        /\ pc' = [pc EXCEPT ![d] = "ackFailure"]
        /\ waiting' = Put(waiting, retry)
    BY <1>7 DEF PublishRetry, Goto
  <2> HIDE DEF retry
  <2>5. /\ waiting' \in Count
        /\ \A n \in Message : waiting'[n] = IF n = retry THEN waiting[n] + 1 ELSE waiting[n]
    BY <1>0, <2>2, <2>4, PutCounts
  <2>6. /\ \A e \in Deliveries : DeliveryOK(e)'
        /\ pc' \in [Deliveries -> {"idle", "process", "assertQueues", "publish",
                                   "ackSuccess", "ackFailure", "inVain"}]
    BY <2>1, <2>4, DeliveryMoves
  <2>7. TypeOK'
    BY <2>4, <2>5, <2>6 DEF TypeOK, Count
  <2>8. ASSUME NEW m \in Message PROVE MessageOK(m)'
    BY <1>0, <2>3, <2>4, <2>5 DEF MessageOK, InQueue
  <2> QED
    BY <2>6, <2>7, <2>8 DEF Earned
<1>8. ASSUME NEW d \in Deliveries, Ack(d) PROVE TypeOK' /\ Earned'
  <2>1. Unacked(d) /\ held[d] \in Message /\ held[d].job \in Jobs
    BY <1>0, <1>8, Published DEF Ack, DeliveryOK, Unacked
  <2>2. /\ UNCHANGED <<ready, waiting, dead, failures, faults, losses>>
        /\ pc' = [pc EXCEPT ![d] = "idle"]
        /\ held' = [held EXCEPT ![d] = NoMessage]
        /\ succeeded' \in [Jobs -> Nat]
    BY <1>8, <2>1 DEF Ack, Goto, queues, TypeOK
  <2>3. /\ \A e \in Deliveries : DeliveryOK(e)'
        /\ pc' \in [Deliveries -> {"idle", "process", "assertQueues", "publish",
                                   "ackSuccess", "ackFailure", "inVain"}]
        /\ held' \in [Deliveries -> Message \cup {NoMessage}]
    BY <2>1, <2>2, DeliveryMoves
  <2>4. TypeOK'
    BY <2>2, <2>3 DEF TypeOK
  <2> QED
    BY <2>2, <2>3, <2>4, QueuesKeep DEF Earned, InQueue
<1>9. ASSUME NEW m \in Message, Expire(m) PROVE TypeOK' /\ Earned'
  <2>1. /\ waiting[m] > 0
        /\ ready' \in Count /\ waiting' \in Count
        /\ \A n \in Message : /\ ready'[n] = IF n = m THEN ready[n] + 1 ELSE ready[n]
                              /\ waiting'[n] = IF n = m THEN waiting[n] - 1 ELSE waiting[n]
    BY <1>0, <1>9, PutCounts, TakeCounts DEF Expire
  <2>2. UNCHANGED <<dead, pc, held, succeeded, failures, faults, losses>>
    BY <1>9 DEF Expire
  <2>3. TypeOK'
    BY <2>1, <2>2 DEF TypeOK, Count
  <2>4. \A d \in Deliveries : DeliveryOK(d)'
    BY <1>0, <2>2 DEF DeliveryOK, Unacked
  <2>5. ASSUME NEW n \in Message, InQueue(n)' PROVE InQueue(n)
    BY <1>0, <2>1, <2>2, <2>5 DEF InQueue, Count
  <2> QED
    BY <2>2, <2>3, <2>4, <2>5, QueuesKeep DEF Earned
<1>10. ASSUME ChannelLost PROVE TypeOK' /\ Earned'
  <2>1. /\ ready' = Redelivered
        /\ UNCHANGED <<waiting, dead, succeeded, failures>>
        /\ held' = [d \in Deliveries |-> NoMessage]
        /\ faults' \in 0 .. MaxFaults /\ losses' \in 0 .. faults'
    BY <1>10, RetryAssumption DEF ChannelLost, TypeOK
  <2>2. /\ ready' \in Count
        /\ \A m \in Message :
             ready'[m] > 0 => ready[m] > 0 \/ \E d \in Deliveries : Unacked(d) /\ held[d] = m
    BY <1>0, <2>1, RedeliveredCounts
  <2>3. pc' \in [Deliveries -> {"idle", "inVain"}]
    BY <1>10 DEF ChannelLost
  <2>4. TypeOK'
    BY <2>1, <2>2, <2>3 DEF TypeOK, Count
  <2>5. \A d \in Deliveries : DeliveryOK(d)'
    BY <2>3 DEF DeliveryOK, Unacked
  <2>6. ASSUME NEW m \in Message PROVE MessageOK(m)'
    <3>1. ready'[m] > 0 => failures[m.job] >= ResolveCurrentAttempt(m) - 1
      BY <1>0, <2>2 DEF MessageOK, InQueue, DeliveryOK
    <3> QED
      BY <1>0, <2>1, <3>1 DEF MessageOK, InQueue
  <2> QED
    BY <2>4, <2>5, <2>6 DEF Earned
<1>11. CASE Next
  BY <1>2, <1>3, <1>4, <1>5, <1>6, <1>7, <1>8, <1>9, <1>10, <1>11 DEF Next, Step
<1> QED
  BY <1>1, <1>11

LEMMA EarnedInvariance == Spec => [](TypeOK /\ Earned)
BY InitEarned, NextEarned, PTL DEF Spec

\* The state of the worker and of its queues is of its type: no message is ever
\* published with an attempt beyond the last, and none is taken from a queue
\* that does not have it.
THEOREM WorkerTypeCorrect == Spec => []TypeOK
BY EarnedInvariance, PTL

\* The attempt a message carries is earned, for any number of jobs, deliveries,
\* attempts and faults.
THEOREM AttemptsStayEarned == Spec => []AttemptsAreEarned
<1>1. TypeOK /\ Earned => AttemptsAreEarned
  BY DEF Earned, MessageOK, InQueue, DeliveryOK, AttemptsAreEarned, HasCopy, IsPending,
         HeldBefore, BeforePublication, Unacked
<1> QED
  BY <1>1, EarnedInvariance, PTL

-----------------------------------------------------------------------------
(* Every job is in one place *)

\* How many copies a place has, before a step and after it.
LEMMA QueuedCopies ==
  ASSUME NEW j, NEW m
  PROVE  /\ CopiesAt(j, "ready", m) = ready[m]
         /\ CopiesAt(j, "waiting", m) = waiting[m]
         /\ CopiesAt(j, "dead", m) = dead[m]
         /\ CopiesAt(j, "ready", m)' = ready'[m]
         /\ CopiesAt(j, "waiting", m)' = waiting'[m]
         /\ CopiesAt(j, "dead", m)' = dead'[m]
BY DEF CopiesAt

\* The delivery is open and holds the job.
Opened(d, j) == pc[d] \in BeforePublication /\ held[d].job = j

LEMMA OpenCopies ==
  ASSUME NEW j, NEW d
  PROVE  /\ Opened(d, j) => CopiesAt(j, "open", d) = 1
         /\ ~ Opened(d, j) => CopiesAt(j, "open", d) = 0
         /\ Opened(d, j)' => CopiesAt(j, "open", d)' = 1
         /\ ~ Opened(d, j)' => CopiesAt(j, "open", d)' = 0
BY DEF CopiesAt, Opened, BeforePublication

LEMMA DoneCopies ==
  ASSUME NEW j
  PROVE  /\ CopiesAt(j, "done", j) = succeeded[j]
         /\ CopiesAt(j, "done", j)' = succeeded'[j]
BY DEF CopiesAt

LEMMA KeepersAre ==
  ASSUME NEW j
  PROVE  /\ Keepers(j, "open") = Deliveries
         /\ Keepers(j, "done") = {j}
         /\ \A place \in {"ready", "waiting", "dead"} :
              Keepers(j, place) = {m \in Message : m.job = j}
         /\ \A place : Keepers(j, place)' = Keepers(j, place)
BY DEF Keepers, Message

LEMMA CopiesAreCounts ==
  ASSUME TypeOK, NEW j \in Jobs, NEW place \in Places, NEW k \in Keepers(j, place)
  PROVE  CopiesAt(j, place, k) \in Nat
<1>1. CASE place \in {"ready", "waiting", "dead"}
  <2>1. k \in Message
    BY <1>1, KeepersAre
  <2> QED
    BY <1>1, <2>1, QueuedCopies DEF TypeOK
<1>2. CASE place = "open"
  BY <1>2, OpenCopies
<1>3. CASE place = "done"
  BY <1>3, KeepersAre, DoneCopies DEF TypeOK
<1> QED
  BY <1>1, <1>2, <1>3 DEF Places

\* The one copy of a job goes from one place to another.
LEMMA CopyMoves ==
  ASSUME TypeOK, NEW j \in Jobs, OneCopy(j),
         NEW a \in Places, NEW k \in Keepers(j, a),
         NEW b \in Places, NEW l \in Keepers(j, b), a # b \/ k # l,
         CopiesAt(j, a, k) > 0,
         CopiesAt(j, a, k)' = CopiesAt(j, a, k) - 1,
         CopiesAt(j, b, l)' = CopiesAt(j, b, l) + 1,
         \A p \in Places : \A i \in Keepers(j, p) :
           (p # a \/ i # k) /\ (p # b \/ i # l) => CopiesAt(j, p, i)' = CopiesAt(j, p, i)
  PROVE  OneCopy(j)'
<1>1. /\ CopiesAt(j, a, k) = 1
      /\ \A p \in Places : \A i \in Keepers(j, p) : p # a \/ i # k => CopiesAt(j, p, i) = 0
  BY DEF OneCopy
<1>2. /\ CopiesAt(j, b, l)' = 1
      /\ \A p \in Places : \A i \in Keepers(j, p) : p # b \/ i # l => CopiesAt(j, p, i)' = 0
  BY <1>1
<1>3. \A p : Keepers(j, p)' = Keepers(j, p)
  BY KeepersAre
<1> QED
  BY <1>2, <1>3 DEF OneCopy

\* A step that does not concern a job leaves it where it is.
LEMMA CopyRests ==
  ASSUME NEW j \in Jobs, OneCopy(j),
         \A m \in Message : m.job = j => /\ ready'[m] = ready[m]
                                         /\ waiting'[m] = waiting[m]
                                         /\ dead'[m] = dead[m],
         \A d \in Deliveries : Opened(d, j)' <=> Opened(d, j),
         succeeded'[j] = succeeded[j]
  PROVE  OneCopy(j)'
<1>1. ASSUME NEW p \in Places, NEW i \in Keepers(j, p)
      PROVE  CopiesAt(j, p, i)' = CopiesAt(j, p, i)
  <2>1. CASE p \in {"ready", "waiting", "dead"}
    <3>1. i \in Message /\ i.job = j
      BY <2>1, KeepersAre
    <3> QED
      BY <2>1, <3>1, QueuedCopies
  <2>2. CASE p = "open"
    <3>1. i \in Deliveries
      BY <2>2, KeepersAre
    <3> QED
      BY <2>2, <3>1, OpenCopies
  <2>3. CASE p = "done"
    BY <2>3, KeepersAre, DoneCopies
  <2> QED
    BY <2>1, <2>2, <2>3 DEF Places
<1>2. \A p : Keepers(j, p)' = Keepers(j, p)
  BY KeepersAre
<1> QED
  BY <1>1, <1>2 DEF OneCopy

LEMMA InitOneCopy == Init => OneCopyUnlessLost
<1> SUFFICES ASSUME Init, NEW j \in Jobs PROVE OneCopy(j)
  BY DEF OneCopyUnlessLost
<1> DEFINE first == [job |-> j, header |-> 0]
<1>1. /\ first \in Message /\ first.job = j /\ first.header = 0
      /\ \A m \in Message : m.job = j /\ m.header = 0 => m = first
  BY RetryAssumption DEF Message
<1> HIDE DEF first
<1>2. CopiesAt(j, "ready", first) = 1 /\ first \in Keepers(j, "ready")
  <2>1. ready[first] = 1
    BY <1>1 DEF Init
  <2> QED
    BY <1>1, <2>1, QueuedCopies, KeepersAre
<1>3. ASSUME NEW p \in Places, NEW i \in Keepers(j, p), p # "ready" \/ i # first
      PROVE  CopiesAt(j, p, i) = 0
  <2>1. CASE p \in {"ready", "waiting", "dead"}
    <3>1. i \in Message /\ i.job = j
      BY <2>1, KeepersAre
    <3>2. ready[i] = (IF i.header = 0 THEN 1 ELSE 0) /\ waiting[i] = 0 /\ dead[i] = 0
      BY <3>1 DEF Init
    <3>3. p = "ready" => i.header # 0
      BY <1>1, <1>3, <3>1
    <3> QED
      BY <2>1, <3>2, <3>3, QueuedCopies
  <2>2. CASE p = "open"
    <3>1. i \in Deliveries
      BY <2>2, KeepersAre
    <3>2. ~ Opened(i, j)
      BY <3>1 DEF Init, Opened, BeforePublication
    <3> QED
      BY <2>2, <3>2, OpenCopies
  <2>3. CASE p = "done"
    BY <2>3, KeepersAre, DoneCopies DEF Init
  <2> QED
    BY <2>1, <2>2, <2>3 DEF Places
<1>4. "ready" \in Places
  BY DEF Places
<1> QED
  BY <1>2, <1>3, <1>4 DEF OneCopy

\* The one copy of a job goes from a queue to a queue, from a queue to a delivery,
\* or from a delivery to a queue or to its end.
LEMMA CopyGoes ==
  ASSUME TypeOK, NEW j \in Jobs, OneCopy(j),
         NEW a \in Places, NEW k \in Keepers(j, a),
         NEW b \in Places, NEW l \in Keepers(j, b), a # b, CopiesAt(j, a, k) > 0,
         \A m \in Message : m.job = j =>
           /\ ready'[m] = (IF a = "ready" /\ m = k THEN ready[m] - 1
                           ELSE IF b = "ready" /\ m = l THEN ready[m] + 1 ELSE ready[m])
           /\ waiting'[m] = (IF a = "waiting" /\ m = k THEN waiting[m] - 1
                             ELSE IF b = "waiting" /\ m = l THEN waiting[m] + 1 ELSE waiting[m])
           /\ dead'[m] = (IF b = "dead" /\ m = l THEN dead[m] + 1 ELSE dead[m]),
         a # "dead", a # "done",
         \A d \in Deliveries : IF a = "open" /\ d = k THEN Opened(d, j) /\ ~ Opened(d, j)'
                               ELSE IF b = "open" /\ d = l THEN ~ Opened(d, j) /\ Opened(d, j)'
                               ELSE Opened(d, j)' <=> Opened(d, j),
         succeeded'[j] = (IF b = "done" THEN succeeded[j] + 1 ELSE succeeded[j])
  PROVE  OneCopy(j)'
<1> DEFINE Change(p, i) == IF p = a /\ i = k THEN -1 ELSE IF p = b /\ i = l THEN 1 ELSE 0
<1>1. ASSUME NEW p \in Places, NEW i \in Keepers(j, p)
      PROVE  CopiesAt(j, p, i)' = CopiesAt(j, p, i) + Change(p, i)
  <2>1. CopiesAt(j, p, i) \in Nat
    BY CopiesAreCounts
  <2>2. CASE p \in {"ready", "waiting", "dead"}
    <3>1. i \in Message /\ i.job = j
      BY <2>2, KeepersAre
    <3>2. CASE p = "ready"
      <4>1. CopiesAt(j, p, i) = ready[i] /\ CopiesAt(j, p, i)' = ready'[i]
        BY <3>2, QueuedCopies
      <4> QED
        BY <2>1, <3>1, <3>2, <4>1
    <3>3. CASE p = "waiting"
      <4>1. CopiesAt(j, p, i) = waiting[i] /\ CopiesAt(j, p, i)' = waiting'[i]
        BY <3>3, QueuedCopies
      <4> QED
        BY <2>1, <3>1, <3>3, <4>1
    <3>4. CASE p = "dead"
      <4>1. CopiesAt(j, p, i) = dead[i] /\ CopiesAt(j, p, i)' = dead'[i]
        BY <3>4, QueuedCopies
      <4> QED
        BY <2>1, <3>1, <3>4, <4>1
    <3> QED
      BY <2>2, <3>2, <3>3, <3>4
  <2>3. CASE p = "open"
    <3>1. i \in Deliveries
      BY <2>3, KeepersAre
    <3> QED
      BY <2>1, <2>3, <3>1, OpenCopies
  <2>4. CASE p = "done"
    <3>1. i = j /\ (b = "done" => l = j)
      BY <2>4, KeepersAre
    <3>2. CopiesAt(j, p, i) = succeeded[j] /\ CopiesAt(j, p, i)' = succeeded'[j]
      BY <2>4, <3>1, DoneCopies
    <3> QED
      BY <2>1, <2>4, <3>1, <3>2
  <2> QED
    BY <2>2, <2>3, <2>4 DEF Places
<1>2. /\ CopiesAt(j, a, k)' = CopiesAt(j, a, k) - 1
      /\ CopiesAt(j, b, l)' = CopiesAt(j, b, l) + 1
  <2>1. CopiesAt(j, a, k) \in Nat /\ CopiesAt(j, b, l) \in Nat
    BY CopiesAreCounts
  <2> QED
    BY <1>1, <2>1
<1>3. ASSUME NEW p \in Places, NEW i \in Keepers(j, p), p # a \/ i # k, p # b \/ i # l
      PROVE  CopiesAt(j, p, i)' = CopiesAt(j, p, i)
  <2>1. CopiesAt(j, p, i) \in Nat
    BY CopiesAreCounts
  <2> QED
    BY <1>1, <1>3, <2>1
<1> QED
  BY <1>2, <1>3, CopyMoves

LEMMA NextOneCopy ==
  TypeOK /\ Earned /\ OneCopyUnlessLost /\ [Next]_vars => OneCopyUnlessLost'
<1> SUFFICES ASSUME TypeOK, Earned, OneCopyUnlessLost, [Next]_vars, losses' = 0,
                    NEW j \in Jobs
             PROVE  OneCopy(j)'
  BY DEF OneCopyUnlessLost
<1>0. /\ ready \in Count /\ waiting \in Count /\ dead \in Count
      /\ \A d \in Deliveries : Unacked(d) => held[d] \in Message
      /\ \A m \in Message : m.job \in Jobs
      /\ {"ready", "waiting", "dead", "open", "done"} = Places
  BY Published DEF TypeOK, Count, Earned, DeliveryOK, Places
<1>1. losses = 0
  BY DEF Next, Step, vars, Deliver, ProcessSucceeds, ProcessFails, HandleInVain, QueuesAsserted,
         AssertFails, PublishDeadLetter, PublishRetry, Ack, Expire, ChannelLost, TypeOK
<1>2. OneCopy(j)
  BY <1>1 DEF OneCopyUnlessLost
<1>3. CASE UNCHANGED vars
  BY <1>2, <1>3, CopyRests DEF vars, queues, Opened
<1>4. ASSUME NEW d \in Deliveries, Deliver(d) PROVE OneCopy(j)'
  <2>1. PICK m \in Message : /\ ready[m] > 0
                             /\ ready' = Take(ready, m)
                             /\ held' = [held EXCEPT ![d] = m]
    BY <1>4 DEF Deliver
  <2>2. \A n \in Message : ready'[n] = IF n = m THEN ready[n] - 1 ELSE ready[n]
    BY <1>0, <2>1, TakeCounts
  <2>3. /\ pc[d] = "idle" /\ pc'[d] = "process" /\ held'[d] = m
        /\ \A e \in Deliveries \ {d} : pc'[e] = pc[e] /\ held'[e] = held[e]
        /\ UNCHANGED <<waiting, dead, succeeded>>
    BY <1>4, <2>1 DEF Deliver, Goto, TypeOK
  <2>4. /\ ~ Opened(d, j) /\ (Opened(d, j)' <=> m.job = j)
        /\ \A e \in Deliveries \ {d} : Opened(e, j)' <=> Opened(e, j)
    BY <2>3 DEF Opened, BeforePublication
  <2>5. CASE m.job = j
    <3>1. m \in Keepers(j, "ready") /\ d \in Keepers(j, "open")
      BY <2>5, KeepersAre
    <3>2. CopiesAt(j, "ready", m) > 0
      BY <2>1, QueuedCopies
    <3>3. "ready" \in Places /\ "open" \in Places
      BY <1>0
    <3> QED
      BY <1>2, <2>2, <2>3, <2>4, <2>5, <3>1, <3>2, <3>3, CopyGoes
  <2>6. CASE m.job # j
    BY <1>2, <2>2, <2>3, <2>4, <2>6, CopyRests
  <2> QED
    BY <2>5, <2>6
<1>5. ASSUME NEW d \in Deliveries,
             ProcessSucceeds(d) \/ ProcessFails(d) \/ HandleInVain(d) \/ QueuesAsserted(d)
      PROVE  OneCopy(j)'
  <2>1. /\ UNCHANGED <<ready, waiting, dead, held, succeeded>>
        /\ pc[d] \in BeforePublication <=> pc'[d] \in BeforePublication
        /\ \A e \in Deliveries \ {d} : pc'[e] = pc[e]
    BY <1>5 DEF ProcessSucceeds, ProcessFails, HandleInVain, QueuesAsserted, Goto, queues,
                TypeOK, BeforePublication
  <2>2. \A e \in Deliveries : Opened(e, j)' <=> Opened(e, j)
    BY <2>1 DEF Opened
  <2> QED
    BY <1>2, <2>1, <2>2, CopyRests
<1>6. ASSUME NEW d \in Deliveries,
             AssertFails(d) \/ PublishDeadLetter(d) \/ PublishRetry(d)
      PROVE  OneCopy(j)'
  <2>1. /\ held[d] \in Message
        /\ pc[d] \in BeforePublication /\ pc'[d] \notin BeforePublication
        /\ \A e \in Deliveries \ {d} : pc'[e] = pc[e] /\ held'[e] = held[e]
        /\ succeeded' = succeeded
    BY <1>0, <1>6 DEF AssertFails, PublishDeadLetter, PublishRetry, Goto, TypeOK, Unacked,
                      BeforePublication
  <2>2. /\ Opened(d, j) <=> held[d].job = j
        /\ ~ Opened(d, j)'
        /\ \A e \in Deliveries \ {d} : Opened(e, j)' <=> Opened(e, j)
    BY <2>1 DEF Opened
  <2>3. d \in Keepers(j, "open") /\ (Opened(d, j) => CopiesAt(j, "open", d) > 0)
    BY KeepersAre, OpenCopies
  <2>4. ASSUME AssertFails(d) PROVE OneCopy(j)'
    <3>1. /\ \A n \in Message : ready'[n] = IF n = held[d] THEN ready[n] + 1 ELSE ready[n]
          /\ UNCHANGED <<waiting, dead>>
      BY <1>0, <2>1, <2>4, PutCounts DEF AssertFails
    <3>2. CASE held[d].job = j
      <4>1. held[d] \in Keepers(j, "ready") /\ "ready" \in Places /\ "open" \in Places
        BY <1>0, <2>1, <3>2, KeepersAre
      <4> QED
        BY <1>2, <2>1, <2>2, <2>3, <3>1, <3>2, <4>1, CopyGoes
    <3>3. CASE held[d].job # j
      BY <1>2, <2>1, <2>2, <3>1, <3>3, CopyRests
    <3> QED
      BY <3>2, <3>3
  <2>5. ASSUME PublishDeadLetter(d) PROVE OneCopy(j)'
    <3> DEFINE letter == DeadLetterOf(held[d])
    <3>1. letter \in Message /\ letter.job = held[d].job
      BY <2>1, <2>5, Published DEF PublishDeadLetter
    <3>2. dead' = Put(dead, letter) /\ UNCHANGED <<ready, waiting>>
      BY <2>5 DEF PublishDeadLetter
    <3> HIDE DEF letter
    <3>3. \A n \in Message : dead'[n] = IF n = letter THEN dead[n] + 1 ELSE dead[n]
      BY <1>0, <3>1, <3>2, PutCounts
    <3>4. CASE held[d].job = j
      <4>1. letter \in Keepers(j, "dead") /\ "dead" \in Places /\ "open" \in Places
        BY <1>0, <3>1, <3>4, KeepersAre
      <4> QED
        BY <1>2, <2>1, <2>2, <2>3, <3>2, <3>3, <3>4, <4>1, CopyGoes
    <3>5. CASE held[d].job # j
      BY <1>2, <2>1, <2>2, <3>1, <3>2, <3>3, <3>5, CopyRests
    <3> QED
      BY <3>4, <3>5
  <2>6. ASSUME PublishRetry(d) PROVE OneCopy(j)'
    <3> DEFINE retry == RetryOf(held[d])
    <3>1. retry \in Message /\ retry.job = held[d].job
      BY <2>1, <2>6, Published DEF PublishRetry
    <3>2. waiting' = Put(waiting, retry) /\ UNCHANGED <<ready, dead>>
      BY <2>6 DEF PublishRetry
    <3> HIDE DEF retry
    <3>3. \A n \in Message : waiting'[n] = IF n = retry THEN waiting[n] + 1 ELSE waiting[n]
      BY <1>0, <3>1, <3>2, PutCounts
    <3>4. CASE held[d].job = j
      <4>1. retry \in Keepers(j, "waiting") /\ "waiting" \in Places /\ "open" \in Places
        BY <1>0, <3>1, <3>4, KeepersAre
      <4> QED
        BY <1>2, <2>1, <2>2, <2>3, <3>2, <3>3, <3>4, <4>1, CopyGoes
    <3>5. CASE held[d].job # j
      BY <1>2, <2>1, <2>2, <3>1, <3>2, <3>3, <3>5, CopyRests
    <3> QED
      BY <3>4, <3>5
  <2> QED
    BY <1>6, <2>4, <2>5, <2>6
<1>7. ASSUME NEW d \in Deliveries, Ack(d) PROVE OneCopy(j)'
  <2>1. /\ held[d] \in Message /\ held[d].job \in Jobs
        /\ UNCHANGED <<ready, waiting, dead>>
        /\ pc'[d] \notin BeforePublication
        /\ \A e \in Deliveries \ {d} : pc'[e] = pc[e] /\ held'[e] = held[e]
    BY <1>0, <1>7 DEF Ack, Goto, queues, TypeOK, Unacked, BeforePublication
  <2>2. /\ ~ Opened(d, j)'
        /\ \A e \in Deliveries \ {d} : Opened(e, j)' <=> Opened(e, j)
    BY <2>1 DEF Opened
  <2>3. CASE pc[d] = "ackSuccess" /\ held[d].job = j
    <3>1. Opened(d, j) /\ succeeded'[j] = succeeded[j] + 1
      BY <1>7, <2>3 DEF Ack, Opened, BeforePublication, TypeOK
    <3>2. /\ d \in Keepers(j, "open") /\ j \in Keepers(j, "done")
          /\ "open" \in Places /\ "done" \in Places
          /\ CopiesAt(j, "open", d) > 0
      BY <1>0, <3>1, KeepersAre, OpenCopies
    <3> QED
      BY <1>2, <2>1, <2>2, <3>1, <3>2, CopyGoes
  <2>4. CASE ~ (pc[d] = "ackSuccess" /\ held[d].job = j)
    <3>1. ~ Opened(d, j) /\ succeeded'[j] = succeeded[j]
      BY <1>7, <2>1, <2>4 DEF Ack, Opened, BeforePublication, TypeOK
    <3> QED
      BY <1>2, <2>1, <2>2, <3>1, CopyRests
  <2> QED
    BY <2>3, <2>4
<1>8. ASSUME NEW m \in Message, Expire(m) PROVE OneCopy(j)'
  <2>1. /\ waiting[m] > 0
        /\ \A n \in Message : /\ ready'[n] = IF n = m THEN ready[n] + 1 ELSE ready[n]
                              /\ waiting'[n] = IF n = m THEN waiting[n] - 1 ELSE waiting[n]
        /\ UNCHANGED <<dead, pc, held, succeeded>>
    BY <1>0, <1>8, PutCounts, TakeCounts DEF Expire
  <2>2. \A e \in Deliveries : Opened(e, j)' <=> Opened(e, j)
    BY <2>1 DEF Opened
  <2>3. CASE m.job = j
    <3>1. m \in Keepers(j, "waiting") /\ m \in Keepers(j, "ready")
      BY <2>3, KeepersAre
    <3>2. CopiesAt(j, "waiting", m) > 0 /\ "waiting" \in Places /\ "ready" \in Places
      BY <1>0, <2>1, QueuedCopies
    <3> QED
      BY <1>2, <2>1, <2>2, <2>3, <3>1, <3>2, CopyGoes
  <2>4. CASE m.job # j
    BY <1>2, <2>1, <2>2, <2>4, CopyRests
  <2> QED
    BY <2>3, <2>4
<1>9. ~ ChannelLost
  BY <1>1 DEF ChannelLost
<1> QED
  BY <1>3, <1>4, <1>5, <1>6, <1>7, <1>8, <1>9 DEF Next, Step

LEMMA OneCopyInvariance == Spec => [](TypeOK /\ Earned /\ OneCopyUnlessLost)
BY InitOneCopy, NextOneCopy, EarnedInvariance, PTL DEF Spec

\* A job is in one place, and there once, as long as no channel is lost: retries,
\* dead letters and nacked deliveries never multiply it, for any number of jobs,
\* deliveries and attempts.
THEOREM OneCopyStays == Spec => []OneCopyUnlessLost
BY OneCopyInvariance, PTL

-----------------------------------------------------------------------------
(* Tries are bounded *)

\* Without faults the one copy of a job tells how often it has failed.
TriesOf(j) ==
  /\ \A m \in Message : m.job = j =>
       /\ ready[m] > 0 \/ waiting[m] > 0 => failures[j] = ResolveCurrentAttempt(m) - 1
       /\ dead[m] > 0 => failures[j] = MaxAttempts
  /\ \A d \in Deliveries : Opened(d, j) =>
       /\ pc[d] \in {"process", "ackSuccess"} =>
            failures[j] = ResolveCurrentAttempt(held[d]) - 1
       /\ pc[d] \in {"assertQueues", "publish"} =>
            failures[j] = ResolveCurrentAttempt(held[d])
  /\ succeeded[j] > 0 => failures[j] < MaxAttempts

TriesTold == faults = 0 => \A j \in Jobs : TriesOf(j)

LEMMA AttemptsAreFew ==
  ASSUME NEW m \in Message
  PROVE  ResolveCurrentAttempt(m) \in 1 .. MaxAttempts
BY RetryAssumption DEF Message, ResolveCurrentAttempt

\* What a delivery holds is nowhere else.
LEMMA OpenIsOnly ==
  ASSUME NEW j \in Jobs, OneCopy(j), NEW d \in Deliveries, Opened(d, j)
  PROVE  /\ \A m \in Message : m.job = j => ready[m] = 0 /\ waiting[m] = 0 /\ dead[m] = 0
         /\ \A e \in Deliveries \ {d} : ~ Opened(e, j)
         /\ succeeded[j] = 0
<1>1. /\ "open" \in Places /\ d \in Keepers(j, "open") /\ CopiesAt(j, "open", d) = 1
      /\ {"ready", "waiting", "dead", "done"} \subseteq Places
  BY KeepersAre, OpenCopies DEF Places
<1>2. ASSUME NEW p \in Places, NEW k \in Keepers(j, p), p # "open" \/ k # d
      PROVE  CopiesAt(j, p, k) = 0
  BY <1>1, <1>2 DEF OneCopy
<1>3. ASSUME NEW m \in Message, m.job = j
      PROVE  ready[m] = 0 /\ waiting[m] = 0 /\ dead[m] = 0
  <2>1. m \in Keepers(j, "ready") /\ m \in Keepers(j, "waiting") /\ m \in Keepers(j, "dead")
    BY <1>3, KeepersAre
  <2>2. CopiesAt(j, "ready", m) = 0 /\ CopiesAt(j, "waiting", m) = 0 /\ CopiesAt(j, "dead", m) = 0
    BY <1>1, <1>2, <2>1
  <2> QED
    BY <2>2, QueuedCopies
<1>4. ASSUME NEW e \in Deliveries \ {d} PROVE ~ Opened(e, j)
  <2>1. CopiesAt(j, "open", e) = 0
    BY <1>1, <1>2, <1>4, KeepersAre
  <2> QED
    BY <2>1, OpenCopies
<1>5. succeeded[j] = 0
  <2>1. CopiesAt(j, "done", j) = 0
    BY <1>1, <1>2, KeepersAre
  <2> QED
    BY <2>1, DoneCopies
<1> QED
  BY <1>3, <1>4, <1>5

LEMMA InitTries == Init => TriesTold
<1> SUFFICES ASSUME Init, NEW j \in Jobs PROVE TriesOf(j)
  BY DEF TriesTold
<1>1. failures[j] = 0 /\ succeeded[j] = 0
  BY DEF Init
<1>2. \A d \in Deliveries : ~ Opened(d, j)
  BY DEF Init, Opened, BeforePublication
<1>3. ASSUME NEW m \in Message
      PROVE  /\ ready[m] > 0 => ResolveCurrentAttempt(m) = 1
             /\ ~ (waiting[m] > 0) /\ ~ (dead[m] > 0)
  BY DEF Init, ResolveCurrentAttempt
<1> QED
  BY <1>1, <1>2, <1>3 DEF TriesOf

\* A step that adds no copy of a job and does not fail it again.
LEMMA TriesRest ==
  ASSUME TypeOK, NEW j \in Jobs, TriesOf(j), failures'[j] = failures[j],
         \A m \in Message : m.job = j =>
           /\ ready'[m] > 0 \/ waiting'[m] > 0 => ready[m] > 0 \/ waiting[m] > 0
           /\ dead'[m] > 0 => dead[m] > 0,
         \A d \in Deliveries : Opened(d, j)' =>
           /\ Opened(d, j) /\ held'[d] = held[d]
           /\ \/ pc'[d] = pc[d]
              \/ pc[d] = "process" /\ pc'[d] = "ackSuccess"
              \/ pc[d] = "assertQueues" /\ pc'[d] = "publish",
         succeeded'[j] = succeeded[j]
  PROVE  TriesOf(j)'
<1>1. ASSUME NEW m \in Message, m.job = j
      PROVE  /\ ready'[m] > 0 \/ waiting'[m] > 0 =>
                  failures'[j] = ResolveCurrentAttempt(m) - 1
             /\ dead'[m] > 0 => failures'[j] = MaxAttempts
  BY <1>1 DEF TriesOf
<1>2. ASSUME NEW d \in Deliveries, Opened(d, j)'
      PROVE  /\ pc'[d] \in {"process", "ackSuccess"} =>
                  failures'[j] = ResolveCurrentAttempt(held'[d]) - 1
             /\ pc'[d] \in {"assertQueues", "publish"} =>
                  failures'[j] = ResolveCurrentAttempt(held'[d])
  BY <1>2 DEF TriesOf
<1>3. succeeded'[j] > 0 => failures'[j] < MaxAttempts
  BY DEF TriesOf
<1> QED
  BY <1>1, <1>2, <1>3 DEF TriesOf, ResolveCurrentAttempt

LEMMA NextTries ==
  TypeOK /\ Earned /\ OneCopyUnlessLost /\ TriesTold /\ [Next]_vars => TriesTold'
<1> SUFFICES ASSUME TypeOK, Earned, OneCopyUnlessLost, TriesTold, [Next]_vars, faults' = 0,
                    NEW j \in Jobs
             PROVE  TriesOf(j)'
  BY DEF TriesTold
<1>0. /\ ready \in Count /\ waiting \in Count /\ dead \in Count
      /\ \A d \in Deliveries : Unacked(d) => held[d] \in Message
      /\ failures[j] \in Nat /\ succeeded[j] \in Nat /\ MaxAttempts \in Nat
  BY RetryAssumption DEF TypeOK, Count, Earned, DeliveryOK
<1>1. faults = 0 /\ losses = 0
  <2>1. faults = 0
    BY DEF Next, Step, vars, Deliver, ProcessSucceeds, ProcessFails, HandleInVain,
           QueuesAsserted, AssertFails, PublishDeadLetter, PublishRetry, Ack, Expire,
           ChannelLost, TypeOK
  <2> QED
    BY <2>1 DEF TypeOK
<1>2. OneCopy(j) /\ TriesOf(j)
  BY <1>1 DEF OneCopyUnlessLost, TriesTold
<1>3. CASE UNCHANGED vars
  BY <1>2, <1>3, TriesRest DEF vars, queues, Opened
<1>4. ASSUME NEW d \in Deliveries, Deliver(d) PROVE TriesOf(j)'
  <2>1. PICK m \in Message : /\ ready[m] > 0
                             /\ ready' = Take(ready, m)
                             /\ held' = [held EXCEPT ![d] = m]
    BY <1>4 DEF Deliver
  <2>2. \A n \in Message : /\ ready[n] \in Nat
                           /\ ready'[n] = IF n = m THEN ready[n] - 1 ELSE ready[n]
    BY <1>0, <2>1, TakeCounts DEF Count
  <2>3. /\ pc'[d] = "process" /\ held'[d] = m
        /\ \A e \in Deliveries \ {d} : pc'[e] = pc[e] /\ held'[e] = held[e]
        /\ UNCHANGED <<waiting, dead, succeeded, failures>>
    BY <1>4, <2>1 DEF Deliver, Goto, TypeOK
  <2>4. \A n \in Message : ready'[n] > 0 => ready[n] > 0
    BY <2>2
  <2>5. m.job = j => failures[j] = ResolveCurrentAttempt(m) - 1
    BY <1>2, <2>1 DEF TriesOf
  <2>6. ASSUME NEW n \in Message, n.job = j
        PROVE  /\ ready'[n] > 0 \/ waiting'[n] > 0 =>
                    failures'[j] = ResolveCurrentAttempt(n) - 1
               /\ dead'[n] > 0 => failures'[j] = MaxAttempts
    BY <1>2, <2>3, <2>4, <2>6 DEF TriesOf
  <2>7. ASSUME NEW e \in Deliveries, Opened(e, j)'
        PROVE  /\ pc'[e] \in {"process", "ackSuccess"} =>
                    failures'[j] = ResolveCurrentAttempt(held'[e]) - 1
               /\ pc'[e] \in {"assertQueues", "publish"} =>
                    failures'[j] = ResolveCurrentAttempt(held'[e])
    <3>1. CASE e = d
      BY <2>3, <2>5, <2>7, <3>1 DEF Opened
    <3>2. CASE e # d
      <4>1. Opened(e, j) /\ pc'[e] = pc[e] /\ held'[e] = held[e]
        BY <2>3, <2>7, <3>2 DEF Opened
      <4> QED
        BY <1>2, <2>3, <4>1 DEF TriesOf
    <3> QED
      BY <3>1, <3>2
  <2> QED
    BY <1>2, <2>3, <2>6, <2>7 DEF TriesOf, ResolveCurrentAttempt
<1>5. ASSUME NEW d \in Deliveries, ProcessSucceeds(d) \/ HandleInVain(d) \/ QueuesAsserted(d)
      PROVE  TriesOf(j)'
  <2>1. /\ UNCHANGED <<ready, waiting, dead, held, succeeded, failures>>
        /\ \A e \in Deliveries \ {d} : pc'[e] = pc[e]
        /\ \/ pc[d] = "process" /\ pc'[d] = "ackSuccess"
           \/ pc[d] = "assertQueues" /\ pc'[d] = "publish"
           \/ pc'[d] = "idle"
    BY <1>5 DEF ProcessSucceeds, HandleInVain, QueuesAsserted, Goto, queues, TypeOK
  <2>2. ASSUME NEW e \in Deliveries, Opened(e, j)'
        PROVE  /\ Opened(e, j) /\ held'[e] = held[e]
               /\ \/ pc'[e] = pc[e]
                  \/ pc[e] = "process" /\ pc'[e] = "ackSuccess"
                  \/ pc[e] = "assertQueues" /\ pc'[e] = "publish"
    BY <2>1, <2>2 DEF Opened, BeforePublication
  <2> QED
    BY <1>2, <2>1, <2>2, TriesRest
<1>6. ASSUME NEW d \in Deliveries, ProcessFails(d) PROVE TriesOf(j)'
  <2>1. /\ pc[d] = "process" /\ pc'[d] = "assertQueues" /\ held[d] \in Message
        /\ UNCHANGED <<ready, waiting, dead, held, succeeded>>
        /\ \A e \in Deliveries \ {d} : pc'[e] = pc[e]
        /\ failures'[j] = IF held[d].job = j THEN failures[j] + 1 ELSE failures[j]
    BY <1>0, <1>6 DEF ProcessFails, Goto, queues, TypeOK, Unacked
  <2>2. CASE held[d].job = j
    <3>1. Opened(d, j)
      BY <2>1, <2>2 DEF Opened, BeforePublication
    <3>2. /\ \A m \in Message : m.job = j => ready[m] = 0 /\ waiting[m] = 0 /\ dead[m] = 0
          /\ \A e \in Deliveries \ {d} : ~ Opened(e, j)
          /\ succeeded[j] = 0
      BY <1>2, <3>1, OpenIsOnly
    <3>3. failures[j] = ResolveCurrentAttempt(held[d]) - 1
          /\ ResolveCurrentAttempt(held[d]) \in 1 .. MaxAttempts
      BY <1>2, <2>1, <3>1, AttemptsAreFew DEF TriesOf
    <3>4. failures'[j] = ResolveCurrentAttempt(held'[d])
      BY <1>0, <2>1, <2>2, <3>3
    <3>5. \A e \in Deliveries \ {d} : ~ Opened(e, j)'
      BY <2>1, <3>2 DEF Opened
    <3> QED
      BY <2>1, <3>2, <3>4, <3>5 DEF TriesOf, ResolveCurrentAttempt
  <2>3. CASE held[d].job # j
    <3>1. \A e \in Deliveries : Opened(e, j)' => Opened(e, j) /\ pc'[e] = pc[e]
      BY <2>1, <2>3 DEF Opened
    <3> QED
      BY <1>2, <2>1, <2>3, <3>1, TriesRest
  <2> QED
    BY <2>2, <2>3
<1>7. ASSUME NEW d \in Deliveries, PublishDeadLetter(d) PROVE TriesOf(j)'
  <2> DEFINE letter == DeadLetterOf(held[d])
  <2>1. /\ held[d] \in Message /\ pc[d] = "publish" /\ pc'[d] = "ackFailure"
        /\ \A e \in Deliveries \ {d} : pc'[e] = pc[e]
        /\ UNCHANGED <<ready, waiting, held, succeeded, failures>>
        /\ dead' = Put(dead, letter)
    BY <1>0, <1>7 DEF PublishDeadLetter, Goto, TypeOK, Unacked
  <2>2. /\ letter \in Message /\ letter.job = held[d].job
        /\ ResolveCurrentAttempt(held[d]) >= MaxAttempts
        /\ ResolveCurrentAttempt(held[d]) \in 1 .. MaxAttempts
    BY <1>7, <2>1, Published, AttemptsAreFew DEF PublishDeadLetter
  <2> HIDE DEF letter
  <2>3. \A n \in Message : /\ dead[n] \in Nat
                           /\ dead'[n] = IF n = letter THEN dead[n] + 1 ELSE dead[n]
    BY <1>0, <2>1, <2>2, PutCounts DEF Count
  <2>4. held[d].job = j => failures[j] = MaxAttempts
    <3>1. held[d].job = j => Opened(d, j)
      BY <2>1 DEF Opened, BeforePublication
    <3>2. Opened(d, j) => failures[j] = ResolveCurrentAttempt(held[d])
      BY <1>2, <2>1 DEF TriesOf
    <3> QED
      BY <1>0, <2>2, <3>1, <3>2
  <2>5. ASSUME NEW n \in Message, n.job = j, dead'[n] > 0 PROVE failures'[j] = MaxAttempts
    BY <1>2, <2>1, <2>2, <2>3, <2>4, <2>5 DEF TriesOf
  <2>6. ASSUME NEW e \in Deliveries, Opened(e, j)' PROVE Opened(e, j) /\ pc'[e] = pc[e]
    BY <2>1, <2>6 DEF Opened, BeforePublication
  <2> QED
    BY <1>2, <2>1, <2>5, <2>6 DEF TriesOf, ResolveCurrentAttempt
<1>8. ASSUME NEW d \in Deliveries, PublishRetry(d) PROVE TriesOf(j)'
  <2> DEFINE retry == RetryOf(held[d])
  <2>1. /\ held[d] \in Message /\ pc[d] = "publish" /\ pc'[d] = "ackFailure"
        /\ \A e \in Deliveries \ {d} : pc'[e] = pc[e]
        /\ UNCHANGED <<ready, dead, held, succeeded, failures>>
        /\ waiting' = Put(waiting, retry)
    BY <1>0, <1>8 DEF PublishRetry, Goto, TypeOK, Unacked
  <2>2. /\ retry \in Message /\ retry.job = held[d].job
        /\ ResolveCurrentAttempt(retry) = ResolveCurrentAttempt(held[d]) + 1
        /\ ResolveCurrentAttempt(held[d]) \in 1 .. MaxAttempts
    BY <1>8, <2>1, Published, AttemptsAreFew DEF PublishRetry
  <2> HIDE DEF retry
  <2>3. \A n \in Message : /\ waiting[n] \in Nat
                           /\ waiting'[n] = IF n = retry THEN waiting[n] + 1 ELSE waiting[n]
    BY <1>0, <2>1, <2>2, PutCounts DEF Count
  <2>4. held[d].job = j => failures[j] = ResolveCurrentAttempt(retry) - 1
    <3>1. held[d].job = j => Opened(d, j)
      BY <2>1 DEF Opened, BeforePublication
    <3>2. Opened(d, j) => failures[j] = ResolveCurrentAttempt(held[d])
      BY <1>2, <2>1 DEF TriesOf
    <3> QED
      BY <1>0, <2>2, <3>1, <3>2
  <2>5. \A n \in Message : waiting'[n] > 0 <=> waiting[n] > 0 \/ n = retry
    BY <2>3
  <2>6. ASSUME NEW n \in Message, n.job = j, ready'[n] > 0 \/ waiting'[n] > 0
        PROVE  failures'[j] = ResolveCurrentAttempt(n) - 1
    BY <1>2, <2>1, <2>2, <2>4, <2>5, <2>6 DEF TriesOf
  <2>7. ASSUME NEW e \in Deliveries, Opened(e, j)' PROVE Opened(e, j) /\ pc'[e] = pc[e]
    BY <2>1, <2>7 DEF Opened, BeforePublication
  <2> QED
    BY <1>2, <2>1, <2>6, <2>7 DEF TriesOf, ResolveCurrentAttempt
<1>9. ASSUME NEW d \in Deliveries, Ack(d) PROVE TriesOf(j)'
  <2>1. /\ held[d] \in Message
        /\ UNCHANGED <<ready, waiting, dead, failures>>
        /\ pc'[d] = "idle"
        /\ \A e \in Deliveries \ {d} : pc'[e] = pc[e] /\ held'[e] = held[e]
    BY <1>0, <1>9 DEF Ack, Goto, queues, TypeOK, Unacked
  <2>2. ASSUME NEW e \in Deliveries, Opened(e, j)'
        PROVE  Opened(e, j) /\ held'[e] = held[e] /\ pc'[e] = pc[e]
    BY <2>1, <2>2 DEF Opened, BeforePublication
  <2>3. CASE pc[d] = "ackSuccess" /\ held[d].job = j
    <3>1. Opened(d, j)
      BY <2>3 DEF Opened, BeforePublication
    <3>2. failures[j] = ResolveCurrentAttempt(held[d]) - 1
      BY <1>2, <2>3, <3>1 DEF TriesOf
    <3>3. failures'[j] < MaxAttempts
      BY <1>0, <2>1, <3>2, AttemptsAreFew
    <3> QED
      BY <1>2, <2>1, <2>2, <3>3 DEF TriesOf, ResolveCurrentAttempt
  <2>4. CASE ~ (pc[d] = "ackSuccess" /\ held[d].job = j)
    <3>1. succeeded'[j] = succeeded[j]
      BY <1>9, <2>4 DEF Ack, TypeOK
    <3> QED
      BY <1>2, <2>1, <2>2, <3>1, TriesRest
  <2> QED
    BY <2>3, <2>4
<1>10. ASSUME NEW m \in Message, Expire(m) PROVE TriesOf(j)'
  <2>1. /\ waiting[m] > 0
        /\ \A n \in Message : /\ ready'[n] = IF n = m THEN ready[n] + 1 ELSE ready[n]
                              /\ waiting'[n] = IF n = m THEN waiting[n] - 1 ELSE waiting[n]
                              /\ waiting[n] \in Nat
        /\ UNCHANGED <<dead, pc, held, succeeded, failures>>
    BY <1>0, <1>10, PutCounts, TakeCounts DEF Expire, Count
  <2>2. \A e \in Deliveries : Opened(e, j)' <=> Opened(e, j)
    BY <2>1 DEF Opened
  <2>3. \A n \in Message : ready'[n] > 0 \/ waiting'[n] > 0 => ready[n] > 0 \/ waiting[n] > 0
    BY <2>1
  <2> QED
    BY <1>2, <2>1, <2>2, <2>3, TriesRest
<1>11. \A d \in Deliveries : ~ AssertFails(d)
  BY <1>1 DEF AssertFails
<1>12. ~ ChannelLost
  BY <1>1 DEF ChannelLost
<1> QED
  BY <1>3, <1>4, <1>5, <1>6, <1>7, <1>8, <1>9, <1>10, <1>11, <1>12 DEF Next, Step

LEMMA TriesInvariance == Spec => [](TypeOK /\ Earned /\ OneCopyUnlessLost /\ TriesTold)
BY InitTries, NextTries, OneCopyInvariance, PTL DEF Spec

LEMMA TriesAreFew ==
  TypeOK /\ OneCopyUnlessLost /\ TriesTold => TriesAreBounded
<1> SUFFICES ASSUME TypeOK, OneCopyUnlessLost, TriesTold, faults = 0, NEW j \in Jobs
             PROVE  failures[j] + succeeded[j] <= MaxAttempts
  BY DEF TriesAreBounded
<1>1. OneCopy(j) /\ TriesOf(j)
  BY DEF OneCopyUnlessLost, TriesTold, TypeOK
<1>2. failures[j] \in Nat /\ succeeded[j] \in Nat /\ MaxAttempts \in Nat
  BY RetryAssumption DEF TypeOK
<1>3. PICK p \in Places : \E k \in Keepers(j, p) :
        /\ CopiesAt(j, p, k) = 1
        /\ \A other \in Places : \A l \in Keepers(j, other) :
             other # p \/ l # k => CopiesAt(j, other, l) = 0
  BY <1>1 DEF OneCopy
<1>4. PICK k \in Keepers(j, p) :
        /\ CopiesAt(j, p, k) = 1
        /\ \A other \in Places : \A l \in Keepers(j, other) :
             other # p \/ l # k => CopiesAt(j, other, l) = 0
  BY <1>3
<1>5. p # "done" => succeeded[j] = 0
  <2>1. "done" \in Places /\ j \in Keepers(j, "done")
    BY KeepersAre DEF Places
  <2> QED
    BY <1>4, <2>1, DoneCopies
<1>6. CASE p \in {"ready", "waiting", "dead"}
  <2>1. k \in Message /\ k.job = j
    BY <1>6, KeepersAre
  <2>2. ready[k] = 1 \/ waiting[k] = 1 \/ dead[k] = 1
    BY <1>4, <1>6, QueuedCopies
  <2>3. failures[j] = ResolveCurrentAttempt(k) - 1 \/ failures[j] = MaxAttempts
    BY <1>1, <2>1, <2>2 DEF TriesOf
  <2> QED
    BY <1>2, <1>5, <1>6, <2>1, <2>3, AttemptsAreFew
<1>7. CASE p = "open"
  <2>1. k \in Deliveries
    BY <1>7, KeepersAre
  <2>2. Opened(k, j)
    BY <1>4, <1>7, OpenCopies
  <2>3. \/ failures[j] = ResolveCurrentAttempt(held[k]) - 1
        \/ failures[j] = ResolveCurrentAttempt(held[k])
    BY <1>1, <2>1, <2>2 DEF TriesOf, Opened, BeforePublication
  <2>4. held[k] \in Message \cup {NoMessage}
    BY <2>1 DEF TypeOK
  <2>5. ResolveCurrentAttempt(held[k]) \in 1 .. MaxAttempts
    <3>1. ResolveCurrentAttempt(NoMessage) = 1
      BY DEF ResolveCurrentAttempt, NoMessage
    <3> QED
      BY <2>4, <3>1, AttemptsAreFew, RetryAssumption
  <2> QED
    BY <1>2, <1>5, <1>7, <2>3, <2>5
<1>8. CASE p = "done"
  <2>1. succeeded[j] = 1
    <3>1. k = j
      BY <1>8, KeepersAre
    <3> QED
      BY <1>4, <1>8, <3>1, DoneCopies
  <2>2. failures[j] < MaxAttempts
    BY <1>1, <2>1 DEF TriesOf
  <2> QED
    BY <1>2, <2>1, <2>2
<1> QED
  BY <1>6, <1>7, <1>8 DEF Places

\* Without faults no job is tried more often than the retry policy allows, for
\* any number of jobs, deliveries and attempts.
THEOREM TriesStayBounded == Spec => []TriesAreBounded
BY TriesInvariance, TriesAreFew, PTL

-----------------------------------------------------------------------------
(* Delays *)

\* A set of numbers that holds 0, and with each number the next, holds all.
LEMMA CountsUp ==
  ASSUME NEW S \in SUBSET Nat, 0 \in S, \A n \in S : n + 1 \in S
  PROVE  S = Nat
<1> SUFFICES ASSUME Nat \ S # {} PROVE FALSE
  OBVIOUS
<1>1. PICK n \in Nat \ S : \A k \in Nat \ S : ~ (<<k, n>> \in OpToRel(<, Nat))
  <2>1. Nat \ S \subseteq Nat /\ Nat \ S # {}
    OBVIOUS
  <2> QED
    BY <2>1, NatLessThanWellFounded, WFMin
<1>2. \A k \in Nat \ S : ~ (k < n)
  BY <1>1 DEF OpToRel
<1>3. n - 1 \in Nat /\ n - 1 < n
  OBVIOUS
<1>4. (n - 1) + 1 \in S
  BY <1>2, <1>3
<1> QED
  BY <1>4

\* A function on 0 .. n that is computed as the power is.
Computes(h, n) ==
  /\ h \in [0 .. n -> Nat]
  /\ h[0] = 1
  /\ \A k \in 1 .. n : h[k] = BackoffMultiplier * h[k - 1]

LEMMA PowersExist == \A n \in Nat : \E h : Computes(h, n)
<1> DEFINE S == {n \in Nat : \E h : Computes(h, n)}
<1>1. 0 \in S
  <2>1. Computes([k \in 0 .. 0 |-> 1], 0)
    BY DEF Computes
  <2> QED
    BY <2>1
<1>2. ASSUME NEW n \in S PROVE n + 1 \in S
  <2>1. n \in Nat
    OBVIOUS
  <2>2. PICK h : Computes(h, n)
    OBVIOUS
  <2> DEFINE g == [k \in 0 .. n + 1 |-> IF k = n + 1 THEN BackoffMultiplier * h[n] ELSE h[k]]
  <2>3. /\ h \in [0 .. n -> Nat] /\ h[0] = 1
        /\ \A k \in 1 .. n : h[k] = BackoffMultiplier * h[k - 1]
    BY <2>2 DEF Computes
  <2>4. h[n] \in Nat /\ BackoffMultiplier * h[n] \in Nat
    BY <2>1, <2>3, RetryAssumption
  <2>5. g \in [0 .. n + 1 -> Nat]
    BY <2>1, <2>3, <2>4
  <2>6. g[0] = 1
    BY <2>1, <2>3
  <2>7. ASSUME NEW k \in 1 .. n + 1 PROVE g[k] = BackoffMultiplier * g[k - 1]
    <3>1. k \in 0 .. n + 1 /\ k - 1 \in 0 .. n + 1 /\ k - 1 # n + 1
      BY <2>1
    <3>2. g[k - 1] = h[k - 1]
      BY <3>1
    <3>3. CASE k = n + 1
      BY <3>1, <3>2, <3>3
    <3>4. CASE k # n + 1
      <4>1. k \in 1 .. n
        BY <2>1, <3>4
      <4> QED
        BY <2>3, <3>1, <3>2, <3>4, <4>1
    <3> QED
      BY <3>3, <3>4
  <2>8. Computes(g, n + 1)
    BY <2>5, <2>6, <2>7 DEF Computes
  <2> QED
    BY <2>1, <2>8
<1> HIDE DEF S
<1>3. S = Nat
  <2>1. S \in SUBSET Nat
    BY DEF S
  <2> QED
    BY <1>1, <1>2, <2>1, CountsUp
<1> QED
  BY <1>3 DEF S

\* Two such functions agree where both are defined.
LEMMA PowersAgree ==
  ASSUME NEW n \in Nat, NEW m \in Nat, NEW g, NEW h, Computes(g, n), Computes(h, m)
  PROVE  \A k \in Nat : k <= n /\ k <= m => g[k] = h[k]
<1> DEFINE S == {k \in Nat : k <= n /\ k <= m => g[k] = h[k]}
<1>1. 0 \in S
  BY DEF Computes
<1>2. ASSUME NEW k \in S PROVE k + 1 \in S
  <2>1. k \in Nat
    OBVIOUS
  <2> SUFFICES ASSUME k + 1 <= n, k + 1 <= m PROVE g[k + 1] = h[k + 1]
    BY <2>1
  <2>2. g[k] = h[k]
    BY <2>1
  <2>3. k + 1 \in 1 .. n /\ k + 1 \in 1 .. m /\ (k + 1) - 1 = k
    BY <2>1
  <2> QED
    BY <2>2, <2>3 DEF Computes
<1> HIDE DEF S
<1>3. S = Nat
  <2>1. S \in SUBSET Nat
    BY DEF S
  <2> QED
    BY <1>1, <1>2, <2>1, CountsUp
<1> QED
  BY <1>3 DEF S

\* Power is the function its definition describes: the values of such functions
\* put together are one of them.
LEMMA PowerIs ==
  /\ Power[0] = 1
  /\ \A n \in Nat : Power[n] \in Nat /\ Power[n + 1] = BackoffMultiplier * Power[n]
<1> DEFINE part(n) == CHOOSE h : Computes(h, n)
           f == [n \in Nat |-> part(n)[n]]
<1>1. \A n \in Nat : Computes(part(n), n)
  BY PowersExist
<1> HIDE DEF part
<1>2. f[0] = 1
  BY <1>1 DEF Computes
<1>3. ASSUME NEW n \in Nat, n # 0 PROVE f[n] = BackoffMultiplier * f[n - 1]
  <2>1. n - 1 \in Nat /\ n \in 1 .. n
    BY <1>3
  <2>2. Computes(part(n), n) /\ Computes(part(n - 1), n - 1)
    BY <1>1, <2>1
  <2>3. part(n)[n - 1] = part(n - 1)[n - 1]
    BY <2>1, <2>2, PowersAgree
  <2>4. part(n)[n] = BackoffMultiplier * part(n)[n - 1]
    BY <2>1, <2>2 DEF Computes
  <2> QED
    BY <2>1, <2>3, <2>4
<1> HIDE DEF f
<1>4. f = [n \in Nat |-> IF n = 0 THEN 1 ELSE BackoffMultiplier * f[n - 1]]
  BY <1>2, <1>3 DEF f
<1>5. Power = [n \in Nat |-> IF n = 0 THEN 1 ELSE BackoffMultiplier * Power[n - 1]]
  BY <1>4 DEF Power
<1>6. Power[0] = 1 /\ \A n \in Nat : Power[n + 1] = BackoffMultiplier * Power[n]
  <2>1. Power[0] = 1
    BY <1>5
  <2>2. ASSUME NEW n \in Nat PROVE Power[n + 1] = BackoffMultiplier * Power[n]
    <3>1. n + 1 \in Nat /\ n + 1 # 0 /\ (n + 1) - 1 = n
      OBVIOUS
    <3> QED
      BY <1>5, <3>1
  <2> QED
    BY <2>1, <2>2
<1> DEFINE S == {n \in Nat : Power[n] \in Nat}
<1>7. 0 \in S /\ \A n \in S : n + 1 \in S
  BY <1>6, RetryAssumption
<1> HIDE DEF S
<1>8. S = Nat
  <2>1. S \in SUBSET Nat
    BY DEF S
  <2> QED
    BY <1>7, <2>1, CountsUp
<1> QED
  BY <1>6, <1>8 DEF S

\* It is the same to cap the delay of each retry and to cap the last one.
LEMMA CappedOnce ==
  ASSUME NEW delay \in Nat
  PROVE  Capped(BackoffMultiplier * Capped(delay)) = Capped(BackoffMultiplier * delay)
<1>1. BackoffMultiplier \in Nat /\ MaxDelayMs \in Nat
  BY RetryAssumption
<1>2. CASE delay < MaxDelayMs
  BY <1>2 DEF Capped
<1>3. CASE BackoffMultiplier = 0
  BY <1>1, <1>3 DEF Capped
<1>4. CASE delay >= MaxDelayMs /\ BackoffMultiplier >= 1
  <2>1. /\ BackoffMultiplier * MaxDelayMs >= MaxDelayMs
        /\ BackoffMultiplier * delay >= BackoffMultiplier * MaxDelayMs
        /\ BackoffMultiplier * MaxDelayMs \in Nat /\ BackoffMultiplier * delay \in Nat
    BY <1>1, <1>4
  <2>2. Capped(delay) = MaxDelayMs
    BY <1>1, <1>4 DEF Capped
  <2> QED
    BY <1>1, <2>1, <2>2 DEF Capped
<1> QED
  BY <1>1, <1>2, <1>3, <1>4

\* What the n-th retry waits.
DelayAt(n) == Capped(BaseDelayMs * Power[n - 1])

LEMMA BackoffIs == \A n \in 1 .. MaxAttempts : Backoff[n] = DelayAt(n)
<1> DEFINE f == [n \in 1 .. MaxAttempts |-> DelayAt(n)]
<1>1. DelayAt(1) = Capped(BaseDelayMs)
  BY PowerIs, RetryAssumption DEF DelayAt
<1>2. ASSUME NEW n \in Nat, n >= 2
      PROVE  DelayAt(n) = Capped(BackoffMultiplier * DelayAt(n - 1))
  <2>1. PICK k \in Nat : k = n - 2
    BY <1>2
  <2>2. /\ Power[k] \in Nat /\ Power[k + 1] = BackoffMultiplier * Power[k]
        /\ BaseDelayMs \in Nat /\ BackoffMultiplier \in Nat
    BY PowerIs, RetryAssumption
  <2>3. n - 1 = k + 1 /\ (n - 1) - 1 = k
    BY <2>1
  <2>4. BaseDelayMs * Power[k] \in Nat
    BY <2>2
  <2>5. BaseDelayMs * Power[k + 1] = BackoffMultiplier * (BaseDelayMs * Power[k])
    BY <2>2
  <2>6. DelayAt(n) = Capped(BaseDelayMs * Power[k + 1])
    BY <2>3 DEF DelayAt
  <2>7. DelayAt(n - 1) = Capped(BaseDelayMs * Power[k])
    BY <2>3 DEF DelayAt
  <2> QED
    BY <2>4, <2>5, <2>6, <2>7, CappedOnce
<1>3. ASSUME NEW n \in 1 .. MaxAttempts
      PROVE  f[n] = IF n = 1 THEN Capped(BaseDelayMs) ELSE Capped(BackoffMultiplier * f[n - 1])
  <2>1. CASE n = 1
    BY <1>1, <2>1
  <2>2. CASE n # 1
    <3>1. n \in Nat /\ n >= 2 /\ n - 1 \in 1 .. MaxAttempts
      BY <2>2, RetryAssumption
    <3> QED
      BY <1>2, <2>2, <3>1
  <2> QED
    BY <2>1, <2>2
<1> HIDE DEF f
<1>4. f = [n \in 1 .. MaxAttempts |->
             IF n = 1 THEN Capped(BaseDelayMs) ELSE Capped(BackoffMultiplier * f[n - 1])]
  BY <1>3 DEF f
<1>5. Backoff = [n \in 1 .. MaxAttempts |->
             IF n = 1 THEN Capped(BaseDelayMs) ELSE Capped(BackoffMultiplier * Backoff[n - 1])]
  BY <1>4 DEF Backoff
<1> DEFINE S == {n \in Nat : n + 1 <= MaxAttempts => Backoff[n + 1] = DelayAt(n + 1)}
<1>6. 0 \in S
  BY <1>1, <1>5
<1>7. ASSUME NEW n \in S PROVE n + 1 \in S
  <2> SUFFICES ASSUME (n + 1) + 1 <= MaxAttempts
               PROVE  Backoff[(n + 1) + 1] = DelayAt((n + 1) + 1)
    OBVIOUS
  <2>1. PICK k : k = (n + 1) + 1
    OBVIOUS
  <2>2. /\ k \in Nat /\ k >= 2 /\ k # 1 /\ k - 1 = n + 1
        /\ k \in 1 .. MaxAttempts
    BY <2>1, RetryAssumption
  <2>3. Backoff[n + 1] = DelayAt(n + 1)
    BY RetryAssumption
  <2>4. Backoff[k] = Capped(BackoffMultiplier * Backoff[k - 1])
    BY <1>5, <2>2
  <2> QED
    BY <1>2, <2>1, <2>2, <2>3, <2>4
<1> HIDE DEF S
<1>8. S = Nat
  <2>1. S \in SUBSET Nat
    BY DEF S
  <2> QED
    BY <1>6, <1>7, <2>1, CountsUp
<1>9. ASSUME NEW n \in 1 .. MaxAttempts PROVE Backoff[n] = DelayAt(n)
  <2>1. PICK k : k = n - 1
    OBVIOUS
  <2>2. k \in S /\ k + 1 = n /\ k + 1 <= MaxAttempts
    BY <1>8, <2>1, RetryAssumption
  <2> QED
    BY <2>2 DEF S
<1> QED
  BY <1>9

\* What waits is a retry: nothing but publishRetry puts messages there.
RetriesWait == \A m \in Message : waiting[m] > 0 => m.header \in 2 .. MaxAttempts

LEMMA NextRetriesWait ==
  ASSUME TypeOK, Earned, RetriesWait, [Next]_vars
  PROVE  RetriesWait'
<1>1. waiting \in Count
  BY DEF TypeOK, Count
<1>2. ASSUME NEW d \in Deliveries, PublishRetry(d) PROVE RetriesWait'
  <2>1. held[d] \in Message /\ ~ Exhausted(held[d])
    BY <1>2 DEF PublishRetry, Earned, DeliveryOK, Unacked
  <2>2. PICK r : r = RetryOf(held[d])
    OBVIOUS
  <2>3. /\ r \in Message
        /\ ResolveCurrentAttempt(held[d]) \in 1 .. MaxAttempts
        /\ ResolveCurrentAttempt(r) = ResolveCurrentAttempt(held[d]) + 1
    BY <2>1, <2>2, Published, AttemptsAreFew
  <2>4. r.header \in 2 .. MaxAttempts
    BY <2>3, RetryAssumption DEF ResolveCurrentAttempt, Message
  <2>5. waiting' = Put(waiting, r)
    BY <1>2, <2>2 DEF PublishRetry
  <2>6. \A n \in Message : n # r => waiting'[n] = waiting[n]
    BY <1>1, <2>3, <2>5, PutCounts
  <2> QED
    BY <2>4, <2>6 DEF RetriesWait
<1>3. ASSUME NEW m \in Message, Expire(m) PROVE RetriesWait'
  <2>1. \A n \in Message : waiting'[n] > 0 => waiting[n] > 0
    <3>1. \A n \in Message : waiting'[n] = IF n = m THEN waiting[n] - 1 ELSE waiting[n]
      BY <1>1, <1>3, TakeCounts DEF Expire
    <3> QED
      BY <1>1, <3>1 DEF Count
  <2> QED
    BY <2>1 DEF RetriesWait
<1>4. CASE waiting' = waiting
  BY <1>4 DEF RetriesWait
<1> QED
  BY <1>2, <1>3, <1>4 DEF Next, Step, vars, queues, Deliver, ProcessSucceeds, ProcessFails,
     HandleInVain, QueuesAsserted, AssertFails, PublishDeadLetter, Ack, ChannelLost

LEMMA RetriesWaitInvariance == Spec => []RetriesWait
<1>1. Init => RetriesWait
  BY DEF Init, RetriesWait
<1> QED
  BY <1>1, NextRetriesWait, EarnedInvariance, PTL DEF Spec

LEMMA RetriesBackOff ==
  ASSUME RetriesWait
  PROVE  DelaysBackOff
<1> SUFFICES ASSUME NEW m \in Message, waiting[m] > 0
             PROVE  DelayOf(m) = Backoff[m.header - 1]
  BY DEF DelaysBackOff
<1>1. PICK n : n = m.header - 1
  OBVIOUS
<1>2. n \in 1 .. MaxAttempts /\ n \in Nat
  BY <1>1, RetryAssumption DEF RetriesWait
<1>3. (IF n > 1 THEN n ELSE 1) - 1 = n - 1
  BY <1>2
<1>4. DelayOf(m) = DelayAt(n)
  BY <1>1, <1>3 DEF DelayOf, CalculateDelayMs, DelayAt, Capped
<1> QED
  BY <1>1, <1>2, <1>4, BackoffIs

\* What waits in the retry queue waits the base delay at the first retry, and
\* at each later one the multiple of the delay before, up to the maximum: for any
\* base, multiplier, maximum and number of attempts (calculateDelayMs).
THEOREM DelaysStayBackedOff == Spec => []DelaysBackOff
BY RetriesWaitInvariance, RetriesBackOff, PTL

-----------------------------------------------------------------------------
(* The worker implements AtLeastOnce *)

\* A step after which every message of a job has a successor of the same job,
\* and nothing else changes, is a stutter of the queue.
LEMMA PendingMoves ==
  ASSUME UNCHANGED <<dead, succeeded>>,
         \A m \in Message : IsPending(m) => \E n \in Message : n.job = m.job /\ IsPending(n)',
         \A m \in Message : IsPending(m)' => \E n \in Message : n.job = m.job /\ IsPending(n)
  PROVE  UNCHANGED <<Queued, Done>>
BY DEF Queued, Done

\* A delivery lets its message go, which was the last step of a job or not.
LEMMA DeliveryEnds ==
  ASSUME TypeOK, NEW d \in Deliveries, HeldBefore(d, BeforePublication, held[d]),
         held[d] \in Message,
         UNCHANGED <<ready, waiting>>,
         pc'[d] \notin BeforePublication,
         \A e \in Deliveries \ {d} : pc'[e] = pc[e] /\ held'[e] = held[e]
  PROVE  /\ held[d].job \in Queued
         /\ Queued' \in {Queued, Queued \ {held[d].job}}
<1>1. held[d].job \in Jobs
  BY Published
<1>2. held[d].job \in Queued
  BY <1>1 DEF Queued, IsPending
<1>3. \A m \in Message : IsPending(m)' => IsPending(m)
  BY DEF IsPending, HeldBefore
<1>4. \A m \in Message : m # held[d] /\ IsPending(m) => IsPending(m)'
  BY DEF IsPending, HeldBefore
<1>5. Queued' \subseteq Queued
  BY <1>3 DEF Queued
<1>6. \A j \in Queued : j # held[d].job => j \in Queued'
  BY <1>4 DEF Queued
<1> QED
  BY <1>2, <1>5, <1>6

LEMMA StepDelivers ==
  TypeOK /\ Earned /\ NoJobIsLost /\ [Next]_vars => [Queue!Next]_<<Queued, Done>>
<1> SUFFICES ASSUME TypeOK, Earned, NoJobIsLost, [Next]_vars
             PROVE  Queue!Next \/ UNCHANGED <<Queued, Done>>
  OBVIOUS
<1>0. /\ ready \in Count /\ waiting \in Count /\ dead \in Count
      /\ \A d \in Deliveries : Unacked(d) => held[d] \in Message
  BY DEF TypeOK, Count, Earned, DeliveryOK
<1>1. CASE UNCHANGED vars
  BY <1>1 DEF vars, queues, Queued, Done, IsPending, HeldBefore
<1>2. ASSUME NEW d \in Deliveries, Deliver(d) PROVE UNCHANGED <<Queued, Done>>
  <2>1. PICK m \in Message : /\ ready[m] > 0
                             /\ ready' = Take(ready, m)
                             /\ held' = [held EXCEPT ![d] = m]
    BY <1>2 DEF Deliver
  <2>2. \A n \in Message : ready'[n] = IF n = m THEN ready[n] - 1 ELSE ready[n]
    BY <1>0, <2>1, TakeCounts
  <2>3. /\ pc[d] = "idle" /\ pc'[d] = "process" /\ held'[d] = m
        /\ \A e \in Deliveries \ {d} : pc'[e] = pc[e] /\ held'[e] = held[e]
        /\ UNCHANGED <<waiting, dead, succeeded>>
    BY <1>2, <2>1 DEF Deliver, Goto, TypeOK
  <2>4. IsPending(m) /\ IsPending(m)'
    BY <2>1, <2>3 DEF IsPending, HeldBefore, BeforePublication
  <2>5. ASSUME NEW n \in Message, n # m PROVE IsPending(n)' <=> IsPending(n)
    BY <2>2, <2>3, <2>5 DEF IsPending, HeldBefore, BeforePublication
  <2> QED
    BY <2>3, <2>4, <2>5, PendingMoves
<1>3. ASSUME NEW d \in Deliveries,
             ProcessSucceeds(d) \/ ProcessFails(d) \/ HandleInVain(d) \/ QueuesAsserted(d)
      PROVE  UNCHANGED <<Queued, Done>>
  <2>1. /\ UNCHANGED <<ready, waiting, dead, held, succeeded>>
        /\ pc[d] \in BeforePublication <=> pc'[d] \in BeforePublication
        /\ \A e \in Deliveries \ {d} : pc'[e] = pc[e]
    BY <1>3 DEF ProcessSucceeds, ProcessFails, HandleInVain, QueuesAsserted, Goto, queues,
                TypeOK, BeforePublication
  <2>2. \A m \in Message : IsPending(m)' <=> IsPending(m)
    BY <2>1 DEF IsPending, HeldBefore
  <2> QED
    BY <2>1, <2>2, PendingMoves
<1>4. ASSUME NEW d \in Deliveries, AssertFails(d) PROVE UNCHANGED <<Queued, Done>>
  <2>1. held[d] \in Message
    BY <1>0, <1>4 DEF AssertFails, Unacked
  <2>2. /\ \A n \in Message : ready'[n] = IF n = held[d] THEN ready[n] + 1 ELSE ready[n]
        /\ \A n \in Message : ready[n] \in Nat
    BY <1>0, <1>4, <2>1, PutCounts DEF AssertFails, Count
  <2>3. /\ pc[d] = "assertQueues" /\ pc'[d] = "idle"
        /\ \A e \in Deliveries \ {d} : pc'[e] = pc[e] /\ held'[e] = held[e]
        /\ UNCHANGED <<waiting, dead, succeeded>>
    BY <1>4 DEF AssertFails, Goto, TypeOK
  <2>4. IsPending(held[d]) /\ ready'[held[d]] > 0
    BY <2>1, <2>2, <2>3 DEF IsPending, HeldBefore, BeforePublication
  <2>5. ASSUME NEW n \in Message, n # held[d] PROVE IsPending(n)' <=> IsPending(n)
    BY <2>2, <2>3, <2>5 DEF IsPending, HeldBefore, BeforePublication
  <2>6. ASSUME NEW n \in Message, n = held[d] PROVE IsPending(n)' <=> IsPending(n)
    BY <2>4, <2>6 DEF IsPending
  <2> QED
    BY <2>3, <2>5, <2>6, PendingMoves
<1>5. ASSUME NEW d \in Deliveries, PublishDeadLetter(d) PROVE Queue!Next
  <2>1. held[d] \in Message /\ Exhausted(held[d])
        /\ HeldBefore(d, BeforePublication, held[d])
    BY <1>0, <1>5 DEF PublishDeadLetter, Unacked, HeldBefore, BeforePublication
  <2>2. /\ UNCHANGED <<ready, waiting, held, succeeded>>
        /\ pc'[d] = "ackFailure"
        /\ \A e \in Deliveries \ {d} : pc'[e] = pc[e]
        /\ dead' = Put(dead, DeadLetterOf(held[d]))
    BY <1>5 DEF PublishDeadLetter, Goto, TypeOK
  <2>3. held[d].job \in Queued /\ Queued' \in {Queued, Queued \ {held[d].job}}
    BY <2>1, <2>2, DeliveryEnds DEF BeforePublication
  <2>4. DeadLetterOf(held[d]) \in Message /\ DeadLetterOf(held[d]).job = held[d].job
        /\ held[d].job \in Jobs
    BY <2>1, Published
  <2>5. \A n \in Message :
          /\ dead[n] \in Nat
          /\ dead'[n] = IF n = DeadLetterOf(held[d]) THEN dead[n] + 1 ELSE dead[n]
    BY <1>0, <2>2, <2>4, PutCounts DEF Count
  <2>6. \A n \in Message : dead'[n] > 0 <=> dead[n] > 0 \/ n = DeadLetterOf(held[d])
    BY <2>5
  <2>7. Done' = Done \cup {held[d].job}
    BY <2>2, <2>4, <2>6 DEF Done
  <2>8. Queue!Finish(held[d].job)
    BY <2>3, <2>7 DEF Queue!Finish
  <2> QED
    BY <2>4, <2>8 DEF Queue!Next
<1>6. ASSUME NEW d \in Deliveries, PublishRetry(d) PROVE UNCHANGED <<Queued, Done>>
  <2>1. held[d] \in Message /\ ~ Exhausted(held[d])
        /\ HeldBefore(d, BeforePublication, held[d])
    BY <1>0, <1>6 DEF PublishRetry, Unacked, HeldBefore, BeforePublication
  <2>2. /\ UNCHANGED <<ready, dead, held, succeeded>>
        /\ pc'[d] = "ackFailure"
        /\ \A e \in Deliveries \ {d} : pc'[e] = pc[e]
        /\ waiting' = Put(waiting, RetryOf(held[d]))
    BY <1>6 DEF PublishRetry, Goto, TypeOK
  <2>3. RetryOf(held[d]) \in Message /\ RetryOf(held[d]).job = held[d].job
    BY <2>1, Published
  <2>4. \A n \in Message :
          /\ waiting[n] \in Nat
          /\ waiting'[n] = IF n = RetryOf(held[d]) THEN waiting[n] + 1 ELSE waiting[n]
    BY <1>0, <2>2, <2>3, PutCounts DEF Count
  <2>5. \A n \in Message : waiting'[n] > 0 <=> waiting[n] > 0 \/ n = RetryOf(held[d])
    BY <2>4
  <2>6. IsPending(held[d]) /\ IsPending(RetryOf(held[d]))'
    <3>1. waiting'[RetryOf(held'[d])] > 0
      BY <2>2, <2>3, <2>5
    <3> QED
      BY <2>1, <3>1 DEF IsPending
  <2>7. ASSUME NEW n \in Message, IsPending(n), n # held[d] PROVE IsPending(n)'
    BY <2>2, <2>5, <2>7 DEF IsPending, HeldBefore
  <2>8. ASSUME NEW n \in Message, IsPending(n)', n # RetryOf(held[d]) PROVE IsPending(n)
    BY <2>2, <2>5, <2>8 DEF IsPending, HeldBefore, BeforePublication
  <2> QED
    BY <2>1, <2>2, <2>3, <2>6, <2>7, <2>8, PendingMoves
<1>7. ASSUME NEW d \in Deliveries, Ack(d) PROVE Queue!Next \/ UNCHANGED <<Queued, Done>>
  <2>1. held[d] \in Message /\ held[d].job \in Jobs
    BY <1>0, <1>7, Published DEF Ack, Unacked
  <2>2. /\ UNCHANGED <<ready, waiting, dead>>
        /\ pc'[d] = "idle"
        /\ \A e \in Deliveries \ {d} : pc'[e] = pc[e] /\ held'[e] = held[e]
    BY <1>7 DEF Ack, Goto, queues, TypeOK
  <2>3. CASE pc[d] = "ackSuccess"
    <3>1. held[d].job \in Queued /\ Queued' \in {Queued, Queued \ {held[d].job}}
      BY <2>1, <2>2, <2>3, DeliveryEnds DEF BeforePublication, HeldBefore
    <3>2. \A j \in Jobs : /\ succeeded[j] \in Nat
                           /\ succeeded'[j] = IF j = held[d].job THEN succeeded[j] + 1
                                              ELSE succeeded[j]
      BY <1>7, <2>1, <2>3 DEF Ack, TypeOK
    <3>3. \A j \in Jobs : succeeded'[j] > 0 <=> succeeded[j] > 0 \/ j = held[d].job
      BY <3>2
    <3>4. Done' = Done \cup {held[d].job}
      BY <2>1, <2>2, <3>3 DEF Done
    <3>5. Queue!Finish(held[d].job)
      BY <3>1, <3>4 DEF Queue!Finish
    <3> QED
      BY <2>1, <3>5 DEF Queue!Next
  <2>4. CASE pc[d] = "ackFailure"
    <3>1. succeeded' = succeeded
      BY <1>7, <2>4 DEF Ack
    <3>2. \A m \in Message : IsPending(m)' <=> IsPending(m)
      BY <2>2, <2>4 DEF IsPending, HeldBefore, BeforePublication
    <3> QED
      BY <2>2, <3>1, <3>2, PendingMoves
  <2> QED
    BY <1>7, <2>3, <2>4 DEF Ack
<1>8. ASSUME NEW m \in Message, Expire(m) PROVE UNCHANGED <<Queued, Done>>
  <2>1. /\ waiting[m] > 0
        /\ \A n \in Message : /\ ready'[n] = IF n = m THEN ready[n] + 1 ELSE ready[n]
                              /\ waiting'[n] = IF n = m THEN waiting[n] - 1 ELSE waiting[n]
                              /\ ready[n] \in Nat
        /\ UNCHANGED <<dead, pc, held, succeeded>>
    BY <1>0, <1>8, PutCounts, TakeCounts DEF Expire, Count
  <2>2. \A n \in Message : IsPending(n)' <=> IsPending(n)
    BY <2>1 DEF IsPending, HeldBefore
  <2> QED
    BY <2>1, <2>2, PendingMoves
<1>9. ASSUME ChannelLost PROVE Queue!Next
  <2>1. /\ UNCHANGED <<waiting, dead, succeeded>>
        /\ \A m \in Message :
             ready'[m] > 0 <=> ready[m] > 0 \/ \E d \in Deliveries : Unacked(d) /\ held[d] = m
    BY <1>0, <1>9, RedeliveredCounts DEF ChannelLost
  <2>2. Done' = Done
    BY <2>1 DEF Done
  <2>3. \A m \in Message : IsPending(m) => IsPending(m)'
    BY <2>1 DEF IsPending, HeldBefore, BeforePublication, Unacked
  <2>4. Queued \subseteq Queued' /\ Queued' \subseteq Jobs
    BY <2>3 DEF Queued
  <2>5. Queued' \ Queued \in SUBSET Done
    BY <2>4 DEF NoJobIsLost
  <2>6. Queue!Recover
    <3>1. /\ Queued' = Queued \cup (Queued' \ Queued)
          /\ Done' = Done \cup {}
          /\ {} \in SUBSET Queued
      BY <2>2, <2>4
    <3> QED
      BY <2>5, <3>1 DEF Queue!Recover
  <2> QED
    BY <2>6 DEF Queue!Next
<1>10. CASE Next
  BY <1>2, <1>3, <1>4, <1>5, <1>6, <1>7, <1>8, <1>9, <1>10 DEF Next, Step
<1> QED
  BY <1>1, <1>10

\* What is queued or done stays queued or done, which is all that a loss of the
\* channel needs.
LEMMA QueueKeeps == NoJobIsLost /\ [Queue!Next]_<<Queued, Done>> => NoJobIsLost'
<1> SUFFICES ASSUME NoJobIsLost, [Queue!Next]_<<Queued, Done>> PROVE NoJobIsLost'
  OBVIOUS
<1>1. Queued \cup Done \subseteq Queued' \cup Done'
  BY DEF Queue!Next, Queue!Accept, Queue!Finish, Queue!Recover
<1> QED
  BY <1>1 DEF NoJobIsLost

LEMMA InitDelivers == Init => NoJobIsLost /\ Queue!Init
<1> SUFFICES ASSUME Init PROVE NoJobIsLost /\ Queue!Init
  OBVIOUS
<1>1. Done = {} /\ Queued \subseteq Jobs
  BY DEF Init, Done, Queued
<1>2. ASSUME NEW j \in Jobs PROVE j \in Queued
  <2> DEFINE first == [job |-> j, header |-> 0]
  <2>1. first \in Message /\ first.job = j /\ first.header = 0
    BY RetryAssumption DEF Message
  <2>2. ready[first] = 1
    BY <2>1 DEF Init
  <2> QED
    BY <2>1, <2>2 DEF Queued, IsPending
<1> QED
  BY <1>1, <1>2 DEF NoJobIsLost, Queue!Init

LEMMA NoLossInvariance == Spec => [](TypeOK /\ Earned /\ NoJobIsLost)
<1>1. TypeOK /\ Earned /\ NoJobIsLost /\ [Next]_vars => NoJobIsLost'
  BY StepDelivers, QueueKeeps
<1> QED
  BY <1>1, InitDelivers, EarnedInvariance, PTL DEF Spec

\* No job is ever lost by the worker: each is done, dead, or with the broker.
THEOREM NoJobGetsLost == Spec => []NoJobIsLost
BY NoLossInvariance, PTL

\* The worker implements AtLeastOnce: whatever fails, a job leaves the broker
\* only when it was acknowledged as done or its dead letter was written, and
\* neither is taken back.
THEOREM WorkerDelivers == Spec => DeliversAtLeastOnce
<1>1. TypeOK /\ Earned /\ NoJobIsLost /\ [Next]_vars => [Queue!Next]_(Queue!queueVars)
  BY StepDelivers DEF Queue!queueVars
<1>2. Init => Queue!Init
  BY InitDelivers
<1> QED
  BY <1>1, <1>2, NoLossInvariance, PTL DEF Spec, DeliversAtLeastOnce, Queue!Spec
=============================================================================
