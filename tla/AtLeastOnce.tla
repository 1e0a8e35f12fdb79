---------------------------- MODULE AtLeastOnce ----------------------------
(***************************************************************************)
(* What a queue of the bot promises, whatever fails: a message it has      *)
(* accepted stays until the work it asks for is done, and what is done     *)
(* stays done.  Work may be done again, and a message may come back after  *)
(* its work was done; but none goes before.                                *)
(***************************************************************************)
EXTENDS Naturals

CONSTANT Messages

VARIABLES
  queued,  \* the messages the broker has, in a queue or as an open delivery
  done     \* those whose work is done

queueVars == <<queued, done>>

Init == queued \subseteq Messages /\ done = {}

Accept(m) ==
  /\ queued' = queued \cup {m}
  /\ UNCHANGED done

\* The work is done, here for the first time or again; other copies may stay.
Finish(m) ==
  /\ m \in queued
  /\ done' = done \cup {m}
  /\ queued' \in {queued, queued \ {m}}

\* The broker lost sight of its deliveries: what was not acknowledged comes
\* back, the work of some of it done meanwhile.
Recover ==
  \E back \in SUBSET done, late \in SUBSET queued :
    /\ queued' = queued \cup back
    /\ done' = done \cup late

Next == (\E m \in Messages : Accept(m) \/ Finish(m)) \/ Recover

Spec == Init /\ [][Next]_queueVars
=============================================================================
