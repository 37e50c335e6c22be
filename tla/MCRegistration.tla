--------------------------- MODULE MCRegistration ----------------------------
(***************************************************************************)
(* Registration with named clients, workers and addresses; the seconds 1   *)
(* and 3 happen to make the same code.                                     *)
(***************************************************************************)
EXTENDS Registration, TLC

CONSTANTS c1, c2, w1, w2, e1, e2

MCCodeOf == <<11, 12, 11>>

Alike == Permutations({c1, c2}) \cup Permutations({w1, w2})
==============================================================================
