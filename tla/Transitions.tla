---------------------------- MODULE Transitions ----------------------------
(***************************************************************************)
(* The status transition tables of academic-service and the two questions  *)
(* the services ask of them.  A table is a function from a status to the   *)
(* set of statuses it may move to; a status with no entry in the Go map    *)
(* has the empty set here, which is what a lookup of a missing key yields. *)
(***************************************************************************)

AcademicStatus == {"DRAFT", "SUBMITTED", "REVISION_REQUIRED", "VERIFIED",
                   "APPROVED", "REJECTED", "COMPLETED", "CANCELLED"}

SupervisorStatus == {"SUBMITTED", "REVISION_REQUIRED", "VERIFIED", "ASSIGNED",
                     "ACCEPTED", "REJECTED", "COMPLETED", "CANCELLED"}

AcademicTransitions == [s \in AcademicStatus |->
  CASE s = "DRAFT"             -> {"SUBMITTED", "CANCELLED"}
    [] s = "SUBMITTED"         -> {"VERIFIED", "REVISION_REQUIRED", "CANCELLED"}
    [] s = "VERIFIED"          -> {"APPROVED", "REJECTED"}
    [] s = "APPROVED"          -> {"COMPLETED"}
    [] s = "REVISION_REQUIRED" -> {"SUBMITTED", "CANCELLED"}
    [] OTHER                   -> {}]

SupervisorTransitions == [s \in SupervisorStatus |->
  CASE s = "SUBMITTED"         -> {"VERIFIED", "REVISION_REQUIRED", "CANCELLED"}
    [] s = "VERIFIED"          -> {"ASSIGNED"}
    [] s = "REVISION_REQUIRED" -> {"SUBMITTED", "CANCELLED"}
    [] s = "ASSIGNED"          -> {"ACCEPTED", "REJECTED"}
    [] s = "ACCEPTED"          -> {"COMPLETED"}
    [] s = "REJECTED"          -> {"ASSIGNED"}
    [] OTHER                   -> {}]

(***************************************************************************)
(* CanTransition: may a row go from one status to the other?               *)
(* AllowedFrom:   the statuses from which the target can be reached in one *)
(*                step, the slice the services hand to the repository.     *)
(***************************************************************************)
CanTransition(table, from, to) == from \in DOMAIN table /\ to \in table[from]

AllowedFrom(table, to) == {from \in DOMAIN table : to \in table[from]}

Terminal(table) == {s \in DOMAIN table : table[s] = {}}
=============================================================================
