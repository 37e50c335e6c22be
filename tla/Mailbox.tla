------------------------------- MODULE Mailbox -------------------------------
(***************************************************************************)
(* What one task list of the pool promises to the threads around it, with  *)
(* no list, no lock and no pointer: messages arrive in batches, and every  *)
(* message is processed at most once, after the messages before it in its  *)
(* own batch.  Nothing is promised between two batches.                    *)
(*                                                                         *)
(* A message is the pair <<b, i>>: the i-th message of the b-th batch.     *)
(* TaskList implements this specification.                                 *)
(***************************************************************************)
EXTENDS Naturals

CONSTANTS BatchIds,   \* the batches that may arrive
          Sizes       \* how many messages a batch may hold

VARIABLES accepted,   \* the messages some producer has handed over
          done        \* the messages the worker has finished

mailboxVars == <<accepted, done>>

Batch(b, n) == {<<b, i>> : i \in 1..n}

(* The messages of m's batch that come before m. *)
Earlier(m) == {<<m[1], i>> : i \in 1..(m[2] - 1)}

MailboxInit == accepted = {} /\ done = {}

(* A batch never seen before is accepted whole. *)
Accept(b, n) ==
    /\ \A m \in accepted : m[1] # b
    /\ accepted' = accepted \cup Batch(b, n)
    /\ UNCHANGED done

(* An accepted message whose predecessors are done is finished. *)
Finish(m) ==
    /\ Earlier(m) \subseteq done
    /\ done' = done \cup {m}
    /\ UNCHANGED accepted

MailboxNext ==
    \/ \E b \in BatchIds, n \in Sizes : Accept(b, n)
    \/ \E m \in accepted \ done : Finish(m)

MailboxSpec == MailboxInit /\ [][MailboxNext]_mailboxVars
==============================================================================
