-------------------------- MODULE RequestLifecycle --------------------------
(***************************************************************************)
(* What a request workflow promises, whatever tables, handlers and locks   *)
(* stand behind it: a request is born in one status and from then on only  *)
(* moves along the transition table, one request and one move at a time.   *)
(* A request that has reached a status without successors keeps it.        *)
(*                                                                         *)
(* AcademicRequests and SupervisorRequests are shown to implement this     *)
(* specification, each with its own table.                                 *)
(***************************************************************************)
CONSTANTS
  Items,    \* the requests
  Table,    \* status |-> the statuses it may move to
  First,    \* the status a request is born in
  Unborn    \* the status of a request that does not exist

VARIABLE status

Init == status = [i \in Items |-> Unborn]

Birth(i) ==
  /\ status[i] = Unborn
  /\ status' = [status EXCEPT ![i] = First]

Move(i) ==
  /\ status[i] \in DOMAIN Table
  /\ \E to \in Table[status[i]] : status' = [status EXCEPT ![i] = to]

Next == \E i \in Items : Birth(i) \/ Move(i)

Spec == Init /\ [][Next]_status
=============================================================================
