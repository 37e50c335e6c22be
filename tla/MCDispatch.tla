----------------------------- MODULE MCDispatch ------------------------------
(***************************************************************************)
(* Dispatch with two task lists.                                           *)
(***************************************************************************)
EXTENDS Dispatch

CONSTANTS c1, c2
==============================================================================
