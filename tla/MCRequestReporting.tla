------------------------- MODULE MCRequestReporting -------------------------
(***************************************************************************)
(* RequestReporting for the model checker.                                 *)
(***************************************************************************)
EXTENDS RequestReporting
=============================================================================
