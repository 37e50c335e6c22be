----------------------------- MODULE MCSessions ------------------------------
(***************************************************************************)
(* Sessions with named clients, descriptors, users and workers.            *)
(***************************************************************************)
EXTENDS Sessions, TLC

CONSTANTS c1, c2, c3, f1, f2, u1, u2, w1, w2

(* The values of one kind are told apart by no definition. *)
Alike == Permutations({c1, c2, c3} \cap Clients) \cup Permutations({f1, f2} \cap Fds)
             \cup Permutations({u1, u2} \cap Users) \cup Permutations({w1, w2} \cap Workers)
==============================================================================
