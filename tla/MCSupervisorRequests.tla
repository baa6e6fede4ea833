------------------------ MODULE MCSupervisorRequests ------------------------
(***************************************************************************)
(* Constants for the model checker.  The sessions are interchangeable, and *)
(* so are the requests and the lecturers.                                  *)
(***************************************************************************)
EXTENDS SupervisorRequests, TLC

CONSTANTS s1, s2, r1, r2, l1, l2

MCSymmetry ==
  Permutations({s1, s2}) \cup Permutations({r1, r2}) \cup Permutations({l1, l2})
=============================================================================
