-------------------------- MODULE MCAcademicRequests --------------------------
(***************************************************************************)
(* Constants for the model checker: the sessions and the requests are      *)
(* interchangeable, the students are not (one is the stranger).            *)
(***************************************************************************)
EXTENDS AcademicRequests, TLC

CONSTANTS s1, s2, r1, r2

MCSymmetry == Permutations({s1, s2}) \cup Permutations({r1, r2})
MCSessionSymmetry == Permutations({s1, s2})
=============================================================================
