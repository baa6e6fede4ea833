--------------------------- MODULE MCConsultation ---------------------------
(***************************************************************************)
(* Constants for the model checker.  Slots, students and sessions are      *)
(* interchangeable.                                                        *)
(***************************************************************************)
EXTENDS Consultation, TLC

CONSTANTS z1, z2, a, b, p1, p2

MCSymmetry ==
  Permutations({z1, z2}) \cup Permutations({a, b}) \cup Permutations({p1, p2})
=============================================================================
