------------------------------ MODULE MCTaskList -----------------------------
(***************************************************************************)
(* A task list between the epoll thread, which puts up to two messages or  *)
(* none at once, and the timer thread, which puts one.                     *)
(***************************************************************************)
EXTENDS TaskList

CONSTANTS epoll, timer

MCProducers == {epoll, timer}

MCBatchSizes == [p \in MCProducers |-> IF p = epoll THEN 0..2 ELSE {1}]
==============================================================================
