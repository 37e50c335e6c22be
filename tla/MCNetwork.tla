------------------------------ MODULE MCNetwork ------------------------------
(***************************************************************************)
(* Network with named clients, one of which says nothing before it leaves.*)
(***************************************************************************)
EXTENDS Network

CONSTANTS c1, c2, s

MCMaxBytes == [c \in Clients |-> IF c = c1 THEN 3 ELSE 0]
==============================================================================
