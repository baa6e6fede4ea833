---------------------------- MODULE EventChannel ----------------------------
(***************************************************************************)
(* What the asynchronous path from a business transaction to a consumer's  *)
(* tables really promises: an effect (a notification for one recipient, a  *)
(* snapshot row) happens at most once, and only for an event that was      *)
(* committed.  Nothing is promised about order, nor that the effect ever   *)
(* happens.  EventDelivery implements this specification.                  *)
(***************************************************************************)
CONSTANTS Events, Services, Targets   \* Targets[svc]: what svc does per event

VARIABLES
  committed,  \* the events whose transaction committed
  done        \* how often each effect has happened

Init ==
  /\ committed = {}
  /\ done = [svc \in Services |-> [e \in Events |-> [t \in Targets[svc] |-> 0]]]

Commit(e) ==
  /\ e \notin committed
  /\ committed' = committed \cup {e}
  /\ done' = done

Effect(svc, e, t) ==
  /\ e \in committed
  /\ done[svc][e][t] = 0
  /\ done' = [done EXCEPT ![svc][e][t] = 1]
  /\ committed' = committed

Next == \E e \in Events :
          \/ Commit(e)
          \/ \E svc \in Services : \E t \in Targets[svc] : Effect(svc, e, t)

Spec == Init /\ [][Next]_<<committed, done>>
=============================================================================
