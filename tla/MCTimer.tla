------------------------------- MODULE MCTimer -------------------------------
(***************************************************************************)
(* Timer with named users and modules.                                     *)
(***************************************************************************)
EXTENDS Timer

CONSTANTS u1, RANK
==============================================================================
