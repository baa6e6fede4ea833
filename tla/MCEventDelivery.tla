--------------------------- MODULE MCEventDelivery ---------------------------
(***************************************************************************)
(* Constants for the model checker.  The notification service writes one   *)
(* notification per recipient: of event 1 (supervisor_request.assigned)    *)
(* the student and the lecturer, of event 2 (supervisor_request.completed) *)
(* the student and the Kaprodi, who is looked up.  The reporting service   *)
(* takes one snapshot.                                                     *)
(***************************************************************************)
EXTENDS EventDelivery

CONSTANTS notification, reporting, student, lecturer, kaprodi, snapshot

MCTargets == [v \in Services |->
                IF v = notification THEN {student, lecturer, kaprodi} ELSE {snapshot}]

MCRecipients == [v \in Services |-> [e \in Events |->
                   CASE v # notification -> {snapshot}
                     [] e = 1 -> {student, lecturer}
                     [] OTHER -> {student, kaprodi}]]
=============================================================================
