------------------------- MODULE LogPipelineProofs -------------------------
(***************************************************************************)
(* No log entry the broker has confirmed is lost, without faults none is   *)
(* stored twice, and with faults only so often: for any number of entries, *)
(* valid or not, of open deliveries and of faults.                         *)
(***************************************************************************)
EXTENDS LogPipeline, TLAPS

\* What the invariants say of one entry, and that nothing comes of one the
\* schema refuses.
EntryOK(e) ==
  /\ emission[e] = "sent" => stored[e] > 0 \/ Pending(e) > 0
  /\ saved[e] <= stored[e]
  /\ faults = 0 => stored[e] + Pending(e) = IF emission[e] = "sent" THEN 1 ELSE 0
  /\ e \in Invalid => stored[e] = 0 /\ saved[e] = 0

IInv == TypeOK /\ \A e \in Entries : EntryOK(e)

Count == [Entries -> Nat]

LEMMA AddCounts ==
  ASSUME NEW q \in Count, NEW e \in Entries
  PROVE  /\ Add(q, e) \in Count
         /\ \A f \in Entries : Add(q, e)[f] = IF f = e THEN q[f] + 1 ELSE q[f]
BY DEF Add, Count

LEMMA RemoveCounts ==
  ASSUME NEW q \in Count, NEW e \in Entries, q[e] > 0
  PROVE  /\ Remove(q, e) \in Count
         /\ \A f \in Entries : Remove(q, e)[f] = IF f = e THEN q[f] - 1 ELSE q[f]
<1>1. q[e] - 1 \in Nat
  BY DEF Count
<1> QED
  BY <1>1 DEF Remove, Count

LEMMA FaultCounts ==
  ASSUME faults \in 0 .. MaxFaults, Fault
  PROVE  faults' \in 0 .. MaxFaults /\ faults' # 0
BY MaxFaultsAssumption DEF Fault

LEMMA InitIInv == Init => IInv
BY MaxFaultsAssumption DEF Init, IInv, TypeOK, EntryOK, Pending, None

\* The loss of the channel puts every delivery back, and forgets nothing.
LEMMA RedeliverKeeps ==
  ASSUME IInv, Redeliver, faults' # 0
  PROVE  /\ ready' \in Count /\ processing' \in Count /\ saved' \in Count /\ stored' \in Count
         /\ \A e \in Entries :
              (emission'[e] = "sent" => emission[e] = "sent") => EntryOK(e)'
<1>0. ready \in Count /\ processing \in Count /\ saved \in Count /\ stored \in Count
  BY DEF IInv, TypeOK, Count
<1>1. ready' \in Count /\ \A e \in Entries : ready'[e] = ready[e] + processing[e] + saved[e]
  BY <1>0 DEF Redeliver, Count
<1>2. /\ processing' \in Count /\ \A e \in Entries : processing'[e] = 0
      /\ saved' \in Count /\ \A e \in Entries : saved'[e] = 0
  BY DEF Redeliver, Count, None
<1>3. PICK late \in SUBSET {e \in Entries \ Invalid : processing[e] > 0} :
        stored' = [e \in Entries |-> IF e \in late THEN stored[e] + 1 ELSE stored[e]]
  BY DEF Redeliver
<1>4. /\ stored' \in Count
      /\ \A e \in Entries : stored'[e] >= stored[e]
      /\ \A e \in Invalid : e \in Entries => stored'[e] = stored[e]
  BY <1>0, <1>3 DEF Count
<1>5. ASSUME NEW e \in Entries, emission'[e] = "sent" => emission[e] = "sent"
      PROVE  EntryOK(e)'
  <2>1. EntryOK(e)
    BY DEF IInv
  <2>2. /\ ready[e] \in Nat /\ processing[e] \in Nat /\ saved[e] \in Nat /\ stored[e] \in Nat
        /\ stored'[e] \in Nat
    BY <1>0, <1>4 DEF Count
  <2> QED
    BY <1>1, <1>2, <1>4, <1>5, <2>1, <2>2 DEF EntryOK, Pending
<1> QED
  BY <1>1, <1>2, <1>4, <1>5

LEMMA NextIInv == IInv /\ [Next]_vars => IInv'
<1> SUFFICES ASSUME IInv, [Next]_vars PROVE IInv'
  OBVIOUS
<1>0. /\ TypeOK /\ \A e \in Entries : EntryOK(e)
      /\ ready \in Count /\ processing \in Count /\ saved \in Count /\ stored \in Count
  BY DEF IInv, TypeOK, Count
<1>1. CASE UNCHANGED vars
  BY <1>0, <1>1 DEF vars, deliveries, IInv, TypeOK, EntryOK, Pending
<1>2. ASSUME NEW e \in Entries, Publish(e) PROVE IInv'
  <2>1. TypeOK'
    BY <1>0, <1>2 DEF Publish, TypeOK, deliveries
  <2>2. ASSUME NEW f \in Entries PROVE EntryOK(f)'
    BY <1>0, <1>2 DEF Publish, TypeOK, EntryOK, Pending, deliveries
  <2> QED
    BY <2>1, <2>2 DEF IInv
<1>3. ASSUME NEW e \in Entries, EmitFails(e) PROVE IInv'
  <2>0. faults' \in 0 .. MaxFaults /\ faults' # 0
    BY <1>0, <1>3, FaultCounts DEF EmitFails, TypeOK
  <2>1. TypeOK'
    BY <1>0, <1>3, <2>0 DEF EmitFails, TypeOK, deliveries
  <2>2. ASSUME NEW f \in Entries PROVE EntryOK(f)'
    BY <1>0, <1>3, <2>0 DEF EmitFails, TypeOK, EntryOK, Pending, deliveries
  <2> QED
    BY <2>1, <2>2 DEF IInv
<1>4. ASSUME NEW e \in Entries, Confirm(e) PROVE IInv'
  <2>0. /\ ready' \in Count
        /\ \A f \in Entries : ready'[f] = IF f = e THEN ready[f] + 1 ELSE ready[f]
    BY <1>0, <1>4, AddCounts DEF Confirm
  <2>1. TypeOK'
    BY <1>0, <1>4, <2>0 DEF Confirm, TypeOK, Count
  <2>2. ASSUME NEW f \in Entries PROVE EntryOK(f)'
    <3>1. /\ ready[f] \in Nat /\ processing[f] \in Nat /\ stored[f] \in Nat /\ EntryOK(f)
          /\ emission'[f] = IF f = e THEN "sent" ELSE emission[f]
      BY <1>0, <1>4 DEF Count, Confirm, TypeOK
    <3>2. emission[e] # "sent"
      BY <1>4 DEF Confirm
    <3>3. UNCHANGED <<processing, saved, stored, faults>>
      BY <1>4 DEF Confirm
    <3>4. CASE f = e
      <4>1. /\ faults = 0 => stored[e] + (ready[e] + processing[e]) = 0
            /\ saved[e] <= stored[e]
            /\ e \in Invalid => stored[e] = 0 /\ saved[e] = 0
        BY <3>1, <3>2, <3>4 DEF EntryOK, Pending
      <4>2. ready'[e] = ready[e] + 1 /\ emission'[e] = "sent"
        BY <2>0, <3>1, <3>4
      <4>3. /\ ready'[e] + processing[e] > 0
            /\ faults = 0 => stored[e] + (ready'[e] + processing[e]) = 1
        BY <3>1, <3>4, <4>1, <4>2
      <4> QED
        BY <3>3, <3>4, <4>1, <4>2, <4>3 DEF EntryOK, Pending
    <3>5. CASE f # e
      BY <2>0, <3>1, <3>3, <3>5 DEF EntryOK, Pending
    <3> QED
      BY <3>4, <3>5
  <2> QED
    BY <2>1, <2>2 DEF IInv
<1>5. ASSUME NEW e \in Entries, ConfirmLost(e) PROVE IInv'
  <2>0. /\ ready' \in Count
        /\ \A f \in Entries : ready'[f] = IF f = e THEN ready[f] + 1 ELSE ready[f]
        /\ faults' \in 0 .. MaxFaults /\ faults' # 0
    BY <1>0, <1>5, AddCounts, FaultCounts DEF ConfirmLost, TypeOK
  <2>1. TypeOK'
    BY <1>0, <1>5, <2>0 DEF ConfirmLost, TypeOK, Count
  <2>2. ASSUME NEW f \in Entries PROVE EntryOK(f)'
    <3>1. ready[f] \in Nat /\ processing[f] \in Nat /\ stored[f] \in Nat /\ EntryOK(f)
      BY <1>0 DEF Count
    <3> QED
      BY <1>5, <2>0, <3>1 DEF ConfirmLost, EntryOK, Pending
  <2> QED
    BY <2>1, <2>2 DEF IInv
<1>6. ASSUME NEW e \in Entries, Deliver(e) PROVE IInv'
  <2>0. /\ ready' \in Count /\ processing' \in Count
        /\ \A f \in Entries : /\ ready'[f] = IF f = e THEN ready[f] - 1 ELSE ready[f]
                              /\ processing'[f] = IF f = e THEN processing[f] + 1
                                                          ELSE processing[f]
    BY <1>0, <1>6, AddCounts, RemoveCounts DEF Deliver
  <2>1. TypeOK'
    BY <1>0, <1>6, <2>0 DEF Deliver, TypeOK, Count
  <2>2. ASSUME NEW f \in Entries PROVE EntryOK(f)'
    <3>1. ready[f] \in Nat /\ processing[f] \in Nat /\ stored[f] \in Nat /\ EntryOK(f)
      BY <1>0 DEF Count
    <3> QED
      BY <1>6, <2>0, <3>1 DEF Deliver, EntryOK, Pending
  <2> QED
    BY <2>1, <2>2 DEF IInv
<1>7. ASSUME NEW e \in Entries, Save(e) PROVE IInv'
  <2>0. /\ processing' \in Count /\ saved' \in Count /\ stored' \in Count
        /\ \A f \in Entries : /\ processing'[f] = IF f = e THEN processing[f] - 1
                                                          ELSE processing[f]
                              /\ saved'[f] = IF f = e THEN saved[f] + 1 ELSE saved[f]
                              /\ stored'[f] = IF f = e THEN stored[f] + 1 ELSE stored[f]
    BY <1>0, <1>7, AddCounts, RemoveCounts DEF Save
  <2>1. TypeOK'
    BY <1>0, <1>7, <2>0 DEF Save, TypeOK, Count
  <2>2. ASSUME NEW f \in Entries PROVE EntryOK(f)'
    <3>1. /\ ready[f] \in Nat /\ processing[f] \in Nat /\ stored[f] \in Nat /\ saved[f] \in Nat
          /\ EntryOK(f)
      BY <1>0 DEF Count
    <3> QED
      BY <1>7, <2>0, <3>1 DEF Save, EntryOK, Pending
  <2> QED
    BY <2>1, <2>2 DEF IInv
<1>8. ASSUME NEW e \in Entries, processing[e] > 0, Requeue(e)
      PROVE  /\ ready' \in Count /\ processing' \in Count
             /\ \A f \in Entries : /\ ready'[f] = IF f = e THEN ready[f] + 1 ELSE ready[f]
                                   /\ processing'[f] = IF f = e THEN processing[f] - 1
                                                               ELSE processing[f]
             /\ UNCHANGED <<emission, saved>>
  BY <1>0, <1>8, AddCounts, RemoveCounts DEF Requeue
<1>9. ASSUME NEW e \in Entries, Refuse(e) PROVE IInv'
  <2>1. TypeOK'
    BY <1>0, <1>8, <1>9 DEF Refuse, TypeOK, Count
  <2>2. ASSUME NEW f \in Entries PROVE EntryOK(f)'
    <3>1. ready[f] \in Nat /\ processing[f] \in Nat /\ stored[f] \in Nat /\ EntryOK(f)
      BY <1>0 DEF Count
    <3> QED
      BY <1>8, <1>9, <3>1 DEF Refuse, EntryOK, Pending
  <2> QED
    BY <2>1, <2>2 DEF IInv
<1>10. ASSUME NEW e \in Entries, SaveFails(e) PROVE IInv'
  <2>0. /\ faults' \in 0 .. MaxFaults /\ faults' # 0
        /\ stored' \in Count
        /\ \A f \in Entries : stored'[f] >= stored[f] /\ (f \in Invalid => stored'[f] = stored[f])
    BY <1>0, <1>10, AddCounts, FaultCounts DEF SaveFails, TypeOK, Count
  <2>1. TypeOK'
    BY <1>0, <1>8, <1>10, <2>0 DEF SaveFails, TypeOK, Count
  <2>2. ASSUME NEW f \in Entries PROVE EntryOK(f)'
    <3>1. /\ ready[f] \in Nat /\ processing[f] \in Nat /\ stored[f] \in Nat /\ saved[f] \in Nat
          /\ stored'[f] \in Nat /\ EntryOK(f)
      BY <1>0, <2>0 DEF Count
    <3> QED
      BY <1>8, <1>10, <2>0, <3>1 DEF SaveFails, EntryOK, Pending
  <2> QED
    BY <2>1, <2>2 DEF IInv
<1>11. ASSUME NEW e \in Entries, Ack(e) PROVE IInv'
  <2>0. /\ saved' \in Count
        /\ \A f \in Entries : saved'[f] = IF f = e THEN saved[f] - 1 ELSE saved[f]
    BY <1>0, <1>11, RemoveCounts DEF Ack
  <2>1. TypeOK'
    BY <1>0, <1>11, <2>0 DEF Ack, TypeOK, Count
  <2>2. ASSUME NEW f \in Entries PROVE EntryOK(f)'
    <3>1. saved[f] \in Nat /\ stored[f] \in Nat /\ EntryOK(f)
      BY <1>0 DEF Count
    <3>2. f \in Invalid => f # e
      BY <1>11, <3>1 DEF Ack, EntryOK
    <3> QED
      BY <1>11, <2>0, <3>1, <3>2 DEF Ack, EntryOK, Pending
  <2> QED
    BY <2>1, <2>2 DEF IInv
<1>12. CASE ChannelLost
  <2>0. faults' \in 0 .. MaxFaults /\ faults' # 0
    BY <1>0, <1>12, FaultCounts DEF ChannelLost, TypeOK
  <2>1. /\ ready' \in Count /\ processing' \in Count /\ saved' \in Count /\ stored' \in Count
        /\ \A e \in Entries : EntryOK(e)'
    BY <1>12, <2>0, RedeliverKeeps DEF ChannelLost
  <2> QED
    BY <1>0, <1>12, <2>0, <2>1 DEF ChannelLost, IInv, TypeOK, Count
<1>13. CASE Crash
  <2>0. faults' \in 0 .. MaxFaults /\ faults' # 0
    BY <1>0, <1>13, FaultCounts DEF Crash, TypeOK
  <2>1. \A e \in Entries : emission'[e] = IF emission[e] = "buffered" THEN "dropped" ELSE emission[e]
    BY <1>13 DEF Crash
  <2>2. /\ ready' \in Count /\ processing' \in Count /\ saved' \in Count /\ stored' \in Count
        /\ \A e \in Entries : EntryOK(e)'
    BY <1>13, <2>0, <2>1, RedeliverKeeps DEF Crash
  <2>3. emission' \in [Entries -> {"new", "buffered", "sent", "dropped"}]
    BY <1>0, <1>13 DEF Crash, TypeOK
  <2> QED
    BY <2>0, <2>2, <2>3 DEF IInv, TypeOK, Count
<1> QED
  BY <1>1, <1>2, <1>3, <1>4, <1>5, <1>6, <1>7, <1>9, <1>10, <1>11, <1>12, <1>13 DEF Next

LEMMA Invariance == Spec => []IInv
BY InitIInv, NextIInv, PTL DEF Spec

\* Types (LogPipeline).
THEOREM PipelineTypeCorrect == Spec => []TypeOK
<1>1. IInv => TypeOK
  BY DEF IInv
<1> QED
  BY <1>1, Invariance, PTL

\* An entry the broker has confirmed is stored or still with the broker,
\* whatever fails or crashes.
THEOREM SentStaysKept == Spec => []SentIsKept
<1>1. IInv => SentIsKept
  BY DEF IInv, EntryOK, SentIsKept
<1> QED
  BY <1>1, Invariance, PTL

\* Every delivery that awaits its acknowledgement has its own document.
THEOREM AckImpliesStored == Spec => []AckedWhenStored
<1>1. IInv => AckedWhenStored
  BY DEF IInv, EntryOK, AckedWhenStored
<1> QED
  BY <1>1, Invariance, PTL

\* Without faults an entry is stored once.
THEOREM StoredOnce == Spec => []OnceWithoutFaults
<1>1. IInv => OnceWithoutFaults
  BY DEF IInv, EntryOK, OnceWithoutFaults
<1> QED
  BY <1>1, Invariance, PTL

\* An entry the schema refuses stays with the broker for good, and is never
\* stored.
THEOREM RefusedStays == Spec => RefusedIsNeverDropped
<1>1. ASSUME IInv, [Next]_vars, NEW e \in Invalid
      PROVE  Pending(e)' >= Pending(e) /\ stored'[e] = 0
  <2>0. /\ e \in Entries
        /\ ready \in Count /\ processing \in Count /\ saved \in Count
        /\ ready[e] \in Nat /\ processing[e] \in Nat /\ saved[e] \in Nat
    BY <1>1, InvalidAssumption DEF IInv, TypeOK, Count
  <2>1. stored'[e] = 0
    BY <1>1, <2>0, NextIInv DEF IInv, EntryOK
  <2>2. ASSUME UNCHANGED <<ready, processing>> PROVE Pending(e)' >= Pending(e)
    BY <2>0, <2>2 DEF Pending
  <2>3. ASSUME NEW f \in Entries, Confirm(f) \/ ConfirmLost(f)
        PROVE  Pending(e)' >= Pending(e)
    <3>1. ready' = Add(ready, f) /\ processing' = processing
      BY <2>3 DEF Confirm, ConfirmLost
    <3> QED
      BY <2>0, <3>1, AddCounts DEF Pending
  <2>4. ASSUME NEW f \in Entries, Deliver(f) PROVE Pending(e)' >= Pending(e)
    BY <2>0, <2>4, AddCounts, RemoveCounts DEF Deliver, Pending
  <2>5. ASSUME NEW f \in Entries, Save(f) PROVE Pending(e)' >= Pending(e)
    <3>1. e # f
      BY <2>5 DEF Save
    <3> QED
      BY <2>0, <2>5, <3>1, RemoveCounts DEF Save, Pending
  <2>6. ASSUME NEW f \in Entries, Refuse(f) \/ SaveFails(f) PROVE Pending(e)' >= Pending(e)
    <3>1. processing[f] > 0 /\ Requeue(f)
      BY <2>6 DEF Refuse, SaveFails
    <3> QED
      BY <2>0, <3>1, AddCounts, RemoveCounts DEF Requeue, Pending
  <2>7. ASSUME Redeliver PROVE Pending(e)' >= Pending(e)
    BY <2>0, <2>7 DEF Redeliver, None, Pending
  <2> QED
    BY <1>1, <2>0, <2>1, <2>2, <2>3, <2>4, <2>5, <2>6, <2>7
    DEF Next, vars, deliveries, Publish, EmitFails, Ack, ChannelLost, Crash
<1>2. IInv /\ [Next]_vars => [\A e \in Invalid : Pending(e)' >= Pending(e) /\ stored'[e] = 0]_vars
  BY <1>1
<1> QED
  BY <1>2, Invariance, PTL DEF Spec, RefusedIsNeverDropped

-----------------------------------------------------------------------------
(* Duplicates *)

\* The documents of an entry, and those that may still come of it.
Copies(e) == stored[e] + Pending(e)

\* The deliveries of an entry that the broker has not seen acknowledged.
Held(e) == Pending(e) + saved[e]

Sent(e) == IF emission[e] = "sent" THEN 1 ELSE 0

\* After lost confirmations the broker holds an entry so many times more, and
\* each other fault may have each of these stored once more.
CopiesOK(e, lost) ==
  /\ Held(e) <= Sent(e) + lost
  /\ Copies(e) <= (Sent(e) + lost) * (1 + faults - lost)

CopiesInv == \A e \in Entries : \E lost \in 0 .. faults : CopiesOK(e, lost)

\* What a step does to the copies of one entry: it adds none; or the broker
\* takes the entry, with a confirmation or without; or a fault brings back what
\* was stored already.
Keeps(e) ==
  /\ Sent(e)' = Sent(e) /\ Held(e)' <= Held(e) /\ Copies(e)' <= Copies(e)
  /\ faults' \in {faults, faults + 1}

Takes(e) ==
  /\ Held(e)' = Held(e) + 1 /\ Copies(e)' = Copies(e) + 1
  /\ \/ Sent(e) = 0 /\ Sent(e)' = 1 /\ faults' = faults
     \/ Sent(e)' = Sent(e) /\ faults' = faults + 1

Repeats(e) ==
  /\ Sent(e)' = Sent(e) /\ Held(e)' <= Held(e) /\ Copies(e)' <= Copies(e) + Held(e)
  /\ faults' = faults + 1

LEMMA CopiesAreCounts ==
  ASSUME TypeOK, NEW e \in Entries
  PROVE  /\ ready[e] \in Nat /\ processing[e] \in Nat /\ saved[e] \in Nat /\ stored[e] \in Nat
         /\ Copies(e) \in Nat /\ Held(e) \in Nat /\ Sent(e) \in 0 .. 1 /\ faults \in Nat
BY MaxFaultsAssumption DEF TypeOK, Copies, Held, Sent, Pending

LEMMA StepCopies ==
  ASSUME IInv, [Next]_vars, NEW e \in Entries
  PROVE  Keeps(e) \/ Takes(e) \/ Repeats(e)
<1> USE DEF Copies, Held, Sent, Pending
<1>0. /\ TypeOK
      /\ ready \in Count /\ processing \in Count /\ saved \in Count /\ stored \in Count
      /\ ready[e] \in Nat /\ processing[e] \in Nat /\ saved[e] \in Nat /\ stored[e] \in Nat
      /\ faults \in Nat
  BY CopiesAreCounts DEF IInv, TypeOK, Count
<1>1. CASE UNCHANGED vars
  BY <1>0, <1>1 DEF vars, deliveries, Keeps
<1>2. ASSUME NEW f \in Entries, Publish(f) PROVE Keeps(e)
  BY <1>0, <1>2 DEF Publish, deliveries, Keeps, TypeOK
<1>3. ASSUME NEW f \in Entries, EmitFails(f) PROVE Keeps(e)
  BY <1>0, <1>3 DEF EmitFails, Fault, deliveries, Keeps, TypeOK
<1>4. ASSUME NEW f \in Entries, Confirm(f) PROVE Keeps(e) \/ Takes(e)
  <2>1. /\ ready'[e] = IF e = f THEN ready[e] + 1 ELSE ready[e]
        /\ emission'[e] = IF e = f THEN "sent" ELSE emission[e]
        /\ emission[f] # "sent"
        /\ UNCHANGED <<processing, saved, stored, faults>>
    BY <1>0, <1>4, AddCounts DEF Confirm, TypeOK
  <2> QED
    BY <1>0, <2>1 DEF Keeps, Takes
<1>5. ASSUME NEW f \in Entries, ConfirmLost(f) PROVE Keeps(e) \/ Takes(e)
  <2>1. /\ ready'[e] = IF e = f THEN ready[e] + 1 ELSE ready[e]
        /\ faults' = faults + 1
        /\ UNCHANGED <<emission, processing, saved, stored>>
    BY <1>0, <1>5, AddCounts DEF ConfirmLost, Fault
  <2> QED
    BY <1>0, <2>1 DEF Keeps, Takes
<1>6. ASSUME NEW f \in Entries, Deliver(f) PROVE Keeps(e)
  <2>1. /\ ready'[e] = IF e = f THEN ready[e] - 1 ELSE ready[e]
        /\ processing'[e] = IF e = f THEN processing[e] + 1 ELSE processing[e]
        /\ UNCHANGED <<emission, saved, stored, faults>>
    BY <1>0, <1>6, AddCounts, RemoveCounts DEF Deliver
  <2> QED
    BY <1>0, <2>1 DEF Keeps
<1>7. ASSUME NEW f \in Entries, Save(f) PROVE Keeps(e)
  <2>1. /\ processing'[e] = IF e = f THEN processing[e] - 1 ELSE processing[e]
        /\ saved'[e] = IF e = f THEN saved[e] + 1 ELSE saved[e]
        /\ stored'[e] = IF e = f THEN stored[e] + 1 ELSE stored[e]
        /\ UNCHANGED <<emission, ready, faults>>
    BY <1>0, <1>7, AddCounts, RemoveCounts DEF Save
  <2> QED
    BY <1>0, <2>1 DEF Keeps
<1>8. ASSUME NEW f \in Entries, processing[f] > 0, Requeue(f)
      PROVE  /\ ready'[e] = IF e = f THEN ready[e] + 1 ELSE ready[e]
             /\ processing'[e] = IF e = f THEN processing[e] - 1 ELSE processing[e]
             /\ UNCHANGED <<emission, saved>>
  BY <1>0, <1>8, AddCounts, RemoveCounts DEF Requeue
<1>9. ASSUME NEW f \in Entries, Refuse(f) PROVE Keeps(e)
  <2>1. processing[f] > 0 /\ Requeue(f) /\ UNCHANGED <<stored, faults>>
    BY <1>9 DEF Refuse
  <2> QED
    BY <1>0, <1>8, <2>1 DEF Keeps
<1>10. ASSUME NEW f \in Entries, SaveFails(f) PROVE Keeps(e) \/ Repeats(e)
  <2>1. /\ processing[f] > 0 /\ Requeue(f) /\ faults' = faults + 1
        /\ stored'[e] \in {stored[e], IF e = f THEN stored[e] + 1 ELSE stored[e]}
    BY <1>0, <1>10, AddCounts DEF SaveFails, Fault
  <2>2. CASE e = f
    BY <1>0, <1>8, <2>1, <2>2 DEF Keeps, Repeats
  <2>3. CASE e # f
    BY <1>0, <1>8, <2>1, <2>3 DEF Keeps
  <2> QED
    BY <2>2, <2>3
<1>11. ASSUME NEW f \in Entries, Ack(f) PROVE Keeps(e)
  <2>1. /\ saved'[e] = IF e = f THEN saved[e] - 1 ELSE saved[e]
        /\ UNCHANGED <<emission, ready, processing, stored, faults>>
    BY <1>0, <1>11, RemoveCounts DEF Ack
  <2> QED
    BY <1>0, <2>1 DEF Keeps
<1>12. ASSUME ChannelLost \/ Crash PROVE Repeats(e)
  <2>1. /\ Redeliver /\ faults' = faults + 1
        /\ (emission'[e] = "sent") = (emission[e] = "sent")
    BY <1>0, <1>12 DEF ChannelLost, Crash, Fault, TypeOK
  <2>2. /\ ready'[e] = ready[e] + processing[e] + saved[e]
        /\ processing'[e] = 0 /\ saved'[e] = 0
    BY <2>1 DEF Redeliver, None
  <2>3. \/ stored'[e] = stored[e]
        \/ processing[e] > 0 /\ stored'[e] = stored[e] + 1
    <3>1. PICK late \in SUBSET {f \in Entries \ Invalid : processing[f] > 0} :
            stored' = [f \in Entries |-> IF f \in late THEN stored[f] + 1 ELSE stored[f]]
      BY <2>1 DEF Redeliver
    <3> QED
      BY <3>1
  <2> QED
    BY <1>0, <2>1, <2>2, <2>3 DEF Repeats
<1> QED
  BY <1>1, <1>2, <1>3, <1>4, <1>5, <1>6, <1>7, <1>9, <1>10, <1>11, <1>12 DEF Next

\* What a lost confirmation, a confirmation and another fault each allow more.
LEMMA AllowsMore ==
  ASSUME NEW s \in 0 .. 1, NEW f \in Nat, NEW k \in 0 .. f
  PROVE  /\ (s + k) * (1 + f - k) \in Nat
         /\ (s + k) * (1 + (f + 1) - k) = (s + k) * (1 + f - k) + (s + k)
         /\ (s + k + 1) * (1 + f - k) = (s + k) * (1 + f - k) + (1 + f - k)
<1>1. PICK n \in Nat : n = 1 + f - k
  OBVIOUS
<1>2. PICK a \in Nat : a = s + k
  OBVIOUS
<1>3. /\ a * n \in Nat /\ a * (n + 1) = a * n + a
      /\ (a + 1) * n = a * n + n /\ 1 + (f + 1) - k = n + 1
  BY <1>1
<1> QED
  BY <1>1, <1>2, <1>3

LEMMA NextCopies ==
  ASSUME IInv, CopiesInv, [Next]_vars
  PROVE  CopiesInv'
<1> SUFFICES ASSUME NEW e \in Entries PROVE (\E lost \in 0 .. faults : CopiesOK(e, lost))'
  BY DEF CopiesInv
<1>0. /\ Copies(e) \in Nat /\ Held(e) \in Nat /\ Sent(e) \in 0 .. 1 /\ faults \in Nat
      /\ Copies(e)' \in Nat /\ Held(e)' \in Nat /\ Sent(e)' \in 0 .. 1 /\ faults' \in Nat
  <2>1. TypeOK /\ TypeOK'
    BY NextIInv DEF IInv
  <2> QED
    BY <2>1, MaxFaultsAssumption DEF TypeOK, Copies, Held, Sent, Pending
<1>1. PICK k \in 0 .. faults : CopiesOK(e, k)
  BY DEF CopiesInv
<1>2. PICK s, h, c, f : s = Sent(e) /\ h = Held(e) /\ c = Copies(e) /\ f = faults
  OBVIOUS
<1>3. PICK s1, h1, c1, f1 : s1 = Sent(e)' /\ h1 = Held(e)' /\ c1 = Copies(e)' /\ f1 = faults'
  OBVIOUS
<1>4. /\ s \in 0 .. 1 /\ h \in Nat /\ c \in Nat /\ f \in Nat /\ k \in 0 .. f
      /\ s1 \in 0 .. 1 /\ h1 \in Nat /\ c1 \in Nat /\ f1 \in Nat
      /\ h <= s + k /\ c <= (s + k) * (1 + f - k)
  BY <1>0, <1>1, <1>2, <1>3 DEF CopiesOK
<1>5. /\ (s + k) * (1 + f - k) \in Nat
      /\ (s + k) * (1 + (f + 1) - k) = (s + k) * (1 + f - k) + (s + k)
      /\ (s + k + 1) * (1 + f - k) = (s + k) * (1 + f - k) + (1 + f - k)
  BY <1>4, AllowsMore
<1>6. ASSUME NEW j \in 0 .. f1, h1 <= s1 + j, c1 <= (s1 + j) * (1 + f1 - j)
      PROVE  (\E lost \in 0 .. faults : CopiesOK(e, lost))'
  BY <1>3, <1>6 DEF CopiesOK
<1>7. CASE Keeps(e)
  <2>1. s1 = s /\ h1 <= h /\ c1 <= c /\ f1 \in {f, f + 1}
    BY <1>2, <1>3, <1>7 DEF Keeps
  <2>2. k \in 0 .. f1 /\ h1 <= s1 + k /\ c1 <= (s1 + k) * (1 + f1 - k)
    <3>1. CASE f1 = f
      BY <1>4, <1>5, <2>1, <3>1
    <3>2. CASE f1 = f + 1
      BY <1>4, <1>5, <2>1, <3>2
    <3> QED
      BY <2>1, <3>1, <3>2
  <2> QED
    BY <1>6, <2>2
<1>8. CASE Takes(e)
  <2>1. /\ h1 = h + 1 /\ c1 = c + 1
        /\ \/ s = 0 /\ s1 = 1 /\ f1 = f
           \/ s1 = s /\ f1 = f + 1
    BY <1>2, <1>3, <1>8 DEF Takes
  <2>2. CASE s = 0 /\ s1 = 1 /\ f1 = f
    <3>1. s1 + k = s + k + 1 /\ 1 + f - k >= 1
      BY <1>4, <2>2
    <3>2. k \in 0 .. f1 /\ h1 <= s1 + k /\ c1 <= (s1 + k) * (1 + f1 - k)
      BY <1>4, <1>5, <2>1, <2>2, <3>1
    <3> QED
      BY <1>6, <3>2
  <2>3. CASE s1 = s /\ f1 = f + 1
    <3>1. PICK j : j = k + 1
      OBVIOUS
    <3>2. /\ s1 + j = s + k + 1 /\ 1 + f1 - j = 1 + f - k /\ 1 + f - k >= 1
          /\ j \in 0 .. f1
      BY <1>4, <2>3, <3>1
    <3>3. h1 <= s1 + j /\ c1 <= (s1 + j) * (1 + f1 - j)
      BY <1>4, <1>5, <2>1, <3>2
    <3> QED
      BY <1>6, <3>2, <3>3
  <2> QED
    BY <2>1, <2>2, <2>3
<1>9. CASE Repeats(e)
  <2>1. s1 = s /\ h1 <= h /\ c1 <= c + h /\ f1 = f + 1
    BY <1>2, <1>3, <1>9 DEF Repeats
  <2>2. k \in 0 .. f1 /\ h1 <= s1 + k /\ c1 <= (s1 + k) * (1 + f1 - k)
    BY <1>4, <1>5, <2>1
  <2> QED
    BY <1>6, <2>2
<1> QED
  BY <1>7, <1>8, <1>9, StepCopies

\* Faults are all that makes duplicates, and only so many: after n of them an
\* entry has at most (n + 2)^2 / 4 documents, one without faults, two after
\* one, four after two.
DuplicatesAreBounded ==
  \A e \in Entries : 4 * stored[e] <= (faults + 2) * (faults + 2)

LEMMA CopiesBound ==
  ASSUME TypeOK, CopiesInv
  PROVE  DuplicatesAreBounded
<1> SUFFICES ASSUME NEW e \in Entries
             PROVE  4 * stored[e] <= (faults + 2) * (faults + 2)
  BY DEF DuplicatesAreBounded
<1>1. PICK k \in 0 .. faults : CopiesOK(e, k)
  BY DEF CopiesInv
<1>2. /\ Sent(e) \in 0 .. 1 /\ faults \in Nat /\ stored[e] \in Nat
      /\ Copies(e) \in Nat /\ stored[e] <= Copies(e)
  BY CopiesAreCounts DEF Copies, Pending
<1>3. PICK a \in Nat : a = 1 + k
  BY <1>2
<1>4. PICK b \in Nat : b = 1 + faults - k
  BY <1>2
<1>5. stored[e] <= a * b
  <2>1. (Sent(e) + k) * b <= a * b
    <3>1. Sent(e) = 0 \/ Sent(e) = 1
      BY <1>2
    <3>2. CASE Sent(e) = 1
      BY <1>2, <1>3, <3>2
    <3>3. CASE Sent(e) = 0
      <4>1. k * b <= (1 + k) * b
        BY <1>2
      <4> QED
        BY <1>2, <1>3, <3>3, <4>1
    <3> QED
      BY <3>1, <3>2, <3>3
  <2>2. (Sent(e) + k) * b \in Nat /\ a * b \in Nat
    BY <1>2
  <2> QED
    BY <1>1, <1>2, <1>4, <2>1, <2>2 DEF CopiesOK
<1>6. (a + b) * (a + b) = 4 * (a * b) + (a - b) * (a - b) /\ (a - b) * (a - b) >= 0
  OBVIOUS
<1>7. a + b = faults + 2
  BY <1>2, <1>3, <1>4
<1>8. a * b \in Nat /\ (a + b) * (a + b) \in Nat /\ (a - b) * (a - b) \in Int
  OBVIOUS
<1> QED
  BY <1>2, <1>5, <1>6, <1>7, <1>8

\* However often confirmations, saves, channels and processes are lost, an entry
\* is never stored more often than the faults so far can account for
\* (handleSystemLog nacks and stores again; save writes a new document).
THEOREM DuplicatesStayBounded == Spec => []DuplicatesAreBounded
<1>1. Init => CopiesInv
  <2>1. ASSUME Init, NEW e \in Entries PROVE CopiesOK(e, 0)
    BY <2>1 DEF Init, None, CopiesOK, Copies, Held, Sent, Pending
  <2> QED
    BY <2>1 DEF CopiesInv, Init
<1>2. IInv /\ CopiesInv /\ [Next]_vars => CopiesInv'
  BY NextCopies
<1>3. IInv /\ CopiesInv => DuplicatesAreBounded
  BY CopiesBound DEF IInv
<1> QED
  BY <1>1, <1>2, <1>3, Invariance, PTL DEF Spec

-----------------------------------------------------------------------------
(* The pipeline implements AtLeastOnce. *)

Valid == Entries \ Invalid
Queued == {e \in Valid : Pending(e) > 0}
Done == {e \in Valid : stored[e] > 0}

\* The loss of the channel is a recovery: what comes back from saved is done.
LEMMA RedeliverRecovers == IInv /\ Redeliver => Queue!Recover
<1> SUFFICES ASSUME IInv, Redeliver PROVE Queue!Recover
  OBVIOUS
<1>1. PICK late \in SUBSET {e \in Valid : processing[e] > 0} :
        stored' = [e \in Entries |-> IF e \in late THEN stored[e] + 1 ELSE stored[e]]
  BY DEF Redeliver, Valid
<1> DEFINE back == {e \in Valid : saved[e] > 0}
<1>2. /\ ready' = [e \in Entries |-> ready[e] + processing[e] + saved[e]]
      /\ processing' = [e \in Entries |-> 0]
  BY DEF Redeliver, None
<1>3. \A e \in Valid :
        /\ e \in Entries
        /\ ready[e] \in Nat /\ processing[e] \in Nat /\ saved[e] \in Nat /\ stored[e] \in Nat
        /\ saved[e] <= stored[e]
  BY DEF IInv, TypeOK, EntryOK, Valid
<1>4. \A e \in Valid : Pending(e)' > 0 <=> Pending(e) > 0 \/ saved[e] > 0
  BY <1>2, <1>3 DEF Pending
<1>5. Queued' = Queued \cup back
  BY <1>4 DEF Queued
<1>6. Done' = Done \cup late
  BY <1>1, <1>3 DEF Done
<1>7. back \in SUBSET Done /\ late \in SUBSET Queued
  BY <1>1, <1>3 DEF Done, Queued, Pending
<1> QED
  BY <1>5, <1>6, <1>7 DEF Queue!Recover, Queued, Done, Valid

LEMMA StepDelivers ==
  ASSUME IInv, [Next]_vars
  PROVE  Queue!Next \/ UNCHANGED <<Queued, Done>>
<1> USE DEF Valid
<1>0. /\ ready \in Count /\ processing \in Count /\ stored \in Count
      /\ \A f \in Entries : ready[f] \in Nat /\ processing[f] \in Nat /\ stored[f] \in Nat
  BY DEF IInv, TypeOK, Count
<1>1. ASSUME UNCHANGED <<ready, processing, stored>> PROVE UNCHANGED <<Queued, Done>>
  BY <1>1 DEF Queued, Done, Pending
<1>2. ASSUME NEW e \in Entries, Confirm(e) \/ ConfirmLost(e)
      PROVE  Queue!Next \/ UNCHANGED <<Queued, Done>>
  <2>1. /\ ready' = Add(ready, e) /\ UNCHANGED <<processing, stored>>
        /\ \A f \in Entries : ready'[f] = IF f = e THEN ready[f] + 1 ELSE ready[f]
    BY <1>0, <1>2, AddCounts DEF Confirm, ConfirmLost
  <2>2. Done' = Done
    BY <2>1 DEF Done
  <2>3. CASE e \in Valid
    <3>1. Queued' = Queued \cup {e}
      BY <1>0, <2>1, <2>3 DEF Queued, Pending
    <3>2. Queue!Accept(e)
      BY <2>2, <3>1 DEF Queue!Accept, Queued, Done
    <3> QED
      BY <2>3, <3>2 DEF Queue!Next
  <2>4. CASE e \notin Valid
    <3>1. Queued' = Queued
      BY <1>0, <2>1, <2>4 DEF Queued, Pending
    <3> QED
      BY <2>2, <3>1
  <2> QED
    BY <2>3, <2>4
<1>3. ASSUME NEW e \in Entries, Deliver(e) PROVE UNCHANGED <<Queued, Done>>
  <2>0. \A f \in Entries : /\ ready'[f] = IF f = e THEN ready[f] - 1 ELSE ready[f]
                           /\ processing'[f] = IF f = e THEN processing[f] + 1 ELSE processing[f]
    BY <1>0, <1>3, AddCounts, RemoveCounts DEF Deliver
  <2>1. \A f \in Entries : Pending(f)' = Pending(f)
    BY <1>0, <2>0 DEF Pending
  <2> QED
    BY <1>3, <2>1 DEF Deliver, Queued, Done
<1>4. ASSUME NEW e \in Entries, processing[e] > 0, Requeue(e)
      PROVE  Queued' = Queued
  <2>0. \A f \in Entries : /\ ready'[f] = IF f = e THEN ready[f] + 1 ELSE ready[f]
                           /\ processing'[f] = IF f = e THEN processing[f] - 1 ELSE processing[f]
    BY <1>0, <1>4, AddCounts, RemoveCounts DEF Requeue
  <2>1. \A f \in Entries : Pending(f)' = Pending(f)
    BY <1>0, <2>0 DEF Pending
  <2> QED
    BY <2>1 DEF Queued
<1>5. ASSUME NEW e \in Entries, Save(e) PROVE Queue!Next
  <2>1. /\ \A f \in Entries : /\ processing'[f] = IF f = e THEN processing[f] - 1 ELSE processing[f]
                             /\ stored'[f] = IF f = e THEN stored[f] + 1 ELSE stored[f]
        /\ ready' = ready
        /\ e \in Valid /\ processing[e] > 0
    BY <1>0, <1>5, AddCounts, RemoveCounts DEF Save
  <2>2. Done' = Done \cup {e}
    BY <1>0, <2>1 DEF Done
  <2>3. e \in Queued /\ Queued' \in {Queued, Queued \ {e}}
    BY <1>0, <2>1 DEF Queued, Pending
  <2>4. Queue!Finish(e)
    BY <2>2, <2>3 DEF Queue!Finish, Queued, Done
  <2> QED
    BY <2>1, <2>4 DEF Queue!Next
<1>6. ASSUME NEW e \in Entries, SaveFails(e)
      PROVE  Queue!Next \/ UNCHANGED <<Queued, Done>>
  <2>1. /\ e \in Valid /\ processing[e] > 0 /\ Requeue(e)
        /\ stored' \in {stored, Add(stored, e)}
    BY <1>6 DEF SaveFails
  <2>2. Queued' = Queued /\ e \in Queued
    BY <1>0, <1>4, <2>1 DEF Queued, Pending
  <2>3. CASE stored' = stored
    BY <2>2, <2>3 DEF Done
  <2>4. CASE stored' = Add(stored, e)
    <3>1. Done' = Done \cup {e}
      BY <1>0, <2>1, <2>4, AddCounts DEF Done
    <3>2. Queue!Finish(e)
      BY <2>2, <3>1 DEF Queue!Finish, Queued, Done
    <3> QED
      BY <2>1, <3>2 DEF Queue!Next
  <2> QED
    BY <2>1, <2>3, <2>4
<1>7. ASSUME NEW e \in Entries, Refuse(e) PROVE UNCHANGED <<Queued, Done>>
  <2>1. Queued' = Queued /\ stored' = stored
    BY <1>4, <1>7 DEF Refuse
  <2> QED
    BY <2>1 DEF Done
<1>8. ASSUME Redeliver PROVE Queue!Next
  BY <1>8, RedeliverRecovers DEF Queue!Next
<1>9. CASE Next
  BY <1>1, <1>2, <1>3, <1>5, <1>6, <1>7, <1>8, <1>9
  DEF Next, Publish, EmitFails, Ack, ChannelLost, Crash, deliveries
<1> QED
  BY <1>1, <1>9 DEF vars, deliveries

\* The pipeline implements AtLeastOnce: whatever fails, an entry leaves the
\* broker only when it is stored.
THEOREM PipelineDelivers == Spec => DeliversAtLeastOnce
<1>1. Init => Queue!Init
  BY DEF Init, Queue!Init, None
<1>2. IInv /\ [Next]_vars => [Queue!Next]_(Queue!queueVars)
  BY StepDelivers DEF Queue!queueVars, Queued, Done, Valid
<1> QED
  BY <1>1, <1>2, Invariance, PTL DEF Spec, DeliversAtLeastOnce, Queue!Spec
=============================================================================
