---------------------------- MODULE MCPersistence ----------------------------
(***************************************************************************)
(* Persistence with named users, modules, values and workers.              *)
(***************************************************************************)
EXTENDS Persistence, TLC

CONSTANTS u1, ACTOR, BAG, v1, v2, w1, w2

(* The values of one kind are told apart by no definition. *)
Alike == Permutations(Modules) \cup Permutations(Values) \cup Permutations(Workers)
==============================================================================
