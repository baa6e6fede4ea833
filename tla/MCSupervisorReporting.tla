----------------------- MODULE MCSupervisorReporting -----------------------
(***************************************************************************)
(* Constants for the model checker.                                        *)
(***************************************************************************)
EXTENDS SupervisorReporting, TLC

CONSTANTS r1, r2, l1, l2

MCSymmetry == Permutations({r1, r2})
MCLecturerSymmetry == Permutations({l1, l2})
=============================================================================
