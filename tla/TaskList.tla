------------------------------ MODULE TaskList -------------------------------
(***************************************************************************)
(* One ClassTaskList of the pool and the threads that meet on it: the      *)
(* worker thread that runs CheckTaskList, and the producers (the epoll     *)
(* thread, the timer thread) that run AddMsgIntoTaskPool.                  *)
(*                                                                         *)
(* Two std::lists take turns: producers append to the list pMess points    *)
(* to, the worker pops from the list pWork points to, and SwapTaskList     *)
(* exchanges the two pointers.  `lock' is held by the worker all the time  *)
(* except inside pthread_cond_wait; putLock serialises the producers.      *)
(*                                                                         *)
(* A message is the pair <<b, i>>, the i-th message of the b-th put.       *)
(*                                                                         *)
(* An erase that overlaps a push_back on the same list is a data race; the *)
(* model lets it either go well or leave the list corrupt, after which     *)
(* nothing is claimed and nothing moves.                                   *)
(***************************************************************************)
EXTENDS Naturals, Sequences, Functions

CONSTANTS Producers,    \* the threads that put messages
          BatchSizes,   \* BatchSizes[p]: how many messages p may put at once
          Worker,       \* the thread that runs CheckTaskList
          Nobody,       \* holder of a mutex that is free
          MaxPuts       \* bound: how many puts a behaviour makes

ASSUME ThreadsAssumption ==
    /\ Worker \notin Producers
    /\ Nobody \notin Producers \cup {Worker}

ASSUME BatchAssumption ==
    /\ MaxPuts \in Nat
    /\ BatchSizes \in [Producers -> SUBSET Nat]

VARIABLES
    list,       \* list[l]: the messages in each of the two std::lists
    pMess,      \* pMessTaskList
    pWork,      \* pWorkTaskList
    lock,       \* who holds ClassTaskList::lock
    putLock,    \* who holds putMessageLock
    pc,         \* where each producer is in AddMsgIntoTaskPool
    target,     \* the list each producer's back_inserter writes to
    todo,       \* what each producer has still to copy
    wpc,        \* where the worker is in CheckTaskList
    myMess,     \* the worker's local pMessList
    myWork,     \* the worker's local pWorkList
    hand,       \* the message the worker has popped, <<>> or a 1-sequence
    corrupt,    \* a racing erase and push_back broke a list
    puts,       \* history: how many puts have begun
    accepted,   \* history: every message ever handed to a put
    done        \* history: every message processed and deleted

vars == <<list, pMess, pWork, lock, putLock, pc, target, todo,
          wpc, myMess, myWork, hand, corrupt, puts, accepted, done>>

shared   == <<list, pMess, pWork>>
putting  == <<putLock, pc, target, todo>>
working  == <<wpc, myMess, myWork, hand>>
history  == <<puts, accepted, done>>

Lists == {"taskList", "taskList_"}

Sizes == UNION {BatchSizes[p] : p \in Producers}

Batch(b, n) == [i \in 1..n |-> <<b, i>>]

Messages == UNION {Range(Batch(b, n)) : b \in 1..MaxPuts, n \in Sizes}

------------------------------------------------------------------------------
(* The constructor. *)
Init ==
    /\ list = [l \in Lists |-> <<>>]
    /\ pMess = "taskList_" /\ pWork = "taskList"
    /\ lock = Nobody /\ putLock = Nobody
    /\ pc = [p \in Producers |-> "idle"]
    /\ target = [p \in Producers |-> "taskList_"]
    /\ todo = [p \in Producers |-> <<>>]
    /\ wpc = "readMess" /\ myMess = "taskList_" /\ myWork = "taskList"
    /\ hand = <<>>
    /\ corrupt = FALSE
    /\ puts = 0 /\ accepted = {} /\ done = {}

(* A faulty SwapTaskList: pMess keeps pointing where it did. *)
SwapWorkOnly ==
    /\ pWork' \in Lists \ {pWork}
    /\ pMess' = pMess

(* SwapTaskList: pMess and pWork exchange the lists they point to. *)
SwapTaskList ==
    \/ /\ pWork = "taskList"
       /\ pWork' = "taskList_" /\ pMess' = "taskList"
    \/ /\ pWork = "taskList_"
       /\ pWork' = "taskList" /\ pMess' = "taskList_"

------------------------------------------------------------------------------
(* Producers: AddMsgIntoTaskPool. *)

Goto(p, label) == pc' = [pc EXCEPT ![p] = label]

(* Takes putMessageLock; back_inserter captures the list pMess points to.  *)
(* An empty batch is legal: a read that completes no message puts nothing. *)
BeginPut(p) ==
    /\ pc[p] = "idle"
    /\ putLock = Nobody
    /\ puts < MaxPuts
    /\ \E n \in BatchSizes[p] :
          /\ todo' = [todo EXCEPT ![p] = Batch(puts + 1, n)]
          /\ accepted' = accepted \cup Range(Batch(puts + 1, n))
    /\ puts' = puts + 1
    /\ putLock' = p
    /\ target' = [target EXCEPT ![p] = pMess]
    /\ Goto(p, "copy")
    /\ UNCHANGED <<shared, lock, working, corrupt, done>>

(* A faulty copy: push_front. *)
PushFront(p) ==
    /\ pc[p] = "copy"
    /\ todo[p] # <<>>
    /\ list' = [list EXCEPT ![target[p]] = <<Head(todo[p])>> \o @]
    /\ todo' = [todo EXCEPT ![p] = Tail(@)]
    /\ UNCHANGED <<pMess, pWork, lock, putLock, pc, target, working, corrupt, history>>

(* std::copy appends one message. *)
PushBack(p) ==
    /\ pc[p] = "copy"
    /\ todo[p] # <<>>
    /\ list' = [list EXCEPT ![target[p]] = Append(@, Head(todo[p]))]
    /\ todo' = [todo EXCEPT ![p] = Tail(@)]
    /\ UNCHANGED <<pMess, pWork, lock, putLock, pc, target, working, corrupt, history>>

(* pthread_mutex_trylock: on failure the put is over without a signal. *)
TryLock(p) ==
    /\ pc[p] = "copy"
    /\ todo[p] = <<>>
    /\ \/ /\ lock = Nobody
          /\ lock' = p
          /\ Goto(p, "swap")
       \/ /\ lock # Nobody
          /\ lock' = lock
          /\ Goto(p, "unlock")
    /\ UNCHANGED <<shared, putLock, target, todo, working, corrupt, history>>

SwapAndUnlock(p) ==
    /\ pc[p] = "swap"
    /\ SwapTaskList
    /\ lock' = Nobody
    /\ Goto(p, "signal")
    /\ UNCHANGED <<list, putLock, target, todo, working, corrupt, history>>

(* pthread_cond_signal wakes the worker if it waits and is lost otherwise. *)
Signal(p) ==
    /\ pc[p] = "signal"
    /\ wpc' = IF wpc = "waiting" THEN "woken" ELSE wpc
    /\ Goto(p, "unlock")
    /\ UNCHANGED <<shared, lock, putLock, target, todo, myMess, myWork, hand,
                   corrupt, history>>

EndPut(p) ==
    /\ pc[p] = "unlock"
    /\ putLock' = Nobody
    /\ Goto(p, "idle")
    /\ UNCHANGED <<shared, lock, target, todo, working, corrupt, history>>

ContinuePut(p) == PushBack(p) \/ TryLock(p) \/ SwapAndUnlock(p)
                    \/ Signal(p) \/ EndPut(p)

------------------------------------------------------------------------------
(* The worker: CheckTaskList. *)

(* The two pointers are read one after the other, before lock is taken. *)
ReadMess ==
    /\ wpc = "readMess"
    /\ myMess' = pMess
    /\ wpc' = "readWork"
    /\ UNCHANGED <<shared, lock, putting, myWork, hand, corrupt, history>>

ReadWork ==
    /\ wpc = "readWork"
    /\ myWork' = pWork
    /\ wpc' = "lock"
    /\ UNCHANGED <<shared, lock, putting, myMess, hand, corrupt, history>>

LockOnce ==
    /\ wpc = "lock"
    /\ lock = Nobody
    /\ lock' = Worker
    /\ wpc' = "loop"
    /\ UNCHANGED <<shared, putting, myMess, myWork, hand, corrupt, history>>

(* The head of the loop: is there work on the list the worker knows? *)
CheckWork ==
    /\ wpc = "loop"
    /\ wpc' = IF list[myWork] = <<>> THEN "checkMess" ELSE "pop"
    /\ UNCHANGED <<shared, lock, putting, myMess, myWork, hand, corrupt, history>>

(* No work, but messages wait: swap and read both pointers again.  The     *)
(* worker holds lock here and does not take putMessageLock.                *)
SwapOwn ==
    /\ wpc = "checkMess"
    /\ list[myMess] # <<>>
    /\ SwapTaskList
    /\ myMess' = pMess' /\ myWork' = pWork'
    /\ wpc' = "loop"
    /\ UNCHANGED <<list, lock, putting, hand, corrupt, history>>

(* A faulty FindNothing: it sleeps whatever pMessList holds. *)
FindNoWork ==
    /\ wpc = "checkMess"
    /\ wpc' = "sleep"
    /\ UNCHANGED <<shared, lock, putting, myMess, myWork, hand, corrupt, history>>

FindNothing ==
    /\ wpc = "checkMess"
    /\ list[myMess] = <<>>
    /\ wpc' = "sleep"
    /\ UNCHANGED <<shared, lock, putting, myMess, myWork, hand, corrupt, history>>

(* pthread_cond_wait releases lock and blocks in one step. *)
CondWait ==
    /\ wpc = "sleep"
    /\ lock' = Nobody
    /\ wpc' = "waiting"
    /\ UNCHANGED <<shared, putting, myMess, myWork, hand, corrupt, history>>

(* POSIX lets pthread_cond_wait return with no signal. *)
SpuriousWakeup ==
    /\ wpc = "waiting"
    /\ wpc' = "woken"
    /\ UNCHANGED <<shared, lock, putting, myMess, myWork, hand, corrupt, history>>

(* A faulty Relock: the pointers are read again after a swap only. *)
RelockOnly ==
    /\ wpc = "woken"
    /\ lock = Nobody
    /\ lock' = Worker
    /\ wpc' = "loop"
    /\ UNCHANGED <<shared, putting, myMess, myWork, hand, corrupt, history>>

(* pthread_cond_wait returns with lock held; both pointers are read again. *)
Relock ==
    /\ wpc = "woken"
    /\ lock = Nobody
    /\ lock' = Worker
    /\ myMess' = pMess /\ myWork' = pWork
    /\ wpc' = "loop"
    /\ UNCHANGED <<shared, putting, hand, corrupt, history>>

(* A faulty Pop: the message is not erased. *)
PopKeeping ==
    /\ wpc = "pop"
    /\ list[myWork] # <<>>
    /\ hand' = <<Head(list[myWork])>>
    /\ wpc' = "process"
    /\ UNCHANGED <<shared, lock, putting, myMess, myWork, corrupt, history>>

(* A faulty Pop: the message at the back is taken. *)
PopBack ==
    /\ wpc = "pop"
    /\ list[myWork] # <<>>
    /\ hand' = <<list[myWork][Len(list[myWork])]>>
    /\ list' = [list EXCEPT ![myWork] = SubSeq(@, 1, Len(@) - 1)]
    /\ wpc' = "process"
    /\ UNCHANGED <<pMess, pWork, lock, putting, myMess, myWork, corrupt, history>>

Pop ==
    /\ wpc = "pop"
    /\ list[myWork] # <<>>
    /\ hand' = <<Head(list[myWork])>>
    /\ list' = [list EXCEPT ![myWork] = Tail(@)]
    /\ wpc' = "process"
    /\ UNCHANGED <<pMess, pWork, lock, putting, myMess, myWork, corrupt, history>>

(* The message is carried out and deleted; lock stays held. *)
Process ==
    /\ wpc = "process"
    /\ done' = done \cup Range(hand)
    /\ hand' = <<>>
    /\ wpc' = "loop"
    /\ UNCHANGED <<shared, lock, putting, myMess, myWork, corrupt, puts, accepted>>

WorkerStep == ReadMess \/ ReadWork \/ LockOnce \/ CheckWork \/ SwapOwn
                \/ FindNothing \/ CondWait \/ Relock \/ Pop \/ Process

------------------------------------------------------------------------------
(* p is inside a push_back, and the worker inside an erase, of one list.   *)
Racing(p) ==
    /\ pc[p] = "copy" /\ todo[p] # <<>>
    /\ wpc = "pop"
    /\ target[p] = myWork

(* The race goes wrong: a node or a size update is lost. *)
Race ==
    /\ \E p \in Producers : Racing(p)
    /\ corrupt' = TRUE
    /\ UNCHANGED <<shared, lock, putting, working, history>>

Next ==
    /\ ~corrupt
    /\ \/ \E p \in Producers : BeginPut(p) \/ ContinuePut(p)
       \/ WorkerStep
       \/ SpuriousWakeup
       \/ Race

Spec == Init /\ [][Next]_vars

(* Every thread that can run does run; nobody is obliged to start a put,   *)
(* and no wakeup is obliged to be spurious.                                *)
Fairness ==
    /\ \A p \in Producers : WF_vars(~corrupt /\ ContinuePut(p))
    /\ WF_vars(~corrupt /\ WorkerStep)

FairSpec == Spec /\ Fairness

------------------------------------------------------------------------------
(* Every variable has its type. *)
TypeOK ==
    /\ list \in [Lists -> Seq(Messages)]
    /\ pMess \in Lists /\ pWork \in Lists \ {pMess}
    /\ lock \in Producers \cup {Worker, Nobody}
    /\ putLock \in Producers \cup {Nobody}
    /\ pc \in [Producers -> {"idle", "copy", "swap", "signal", "unlock"}]
    /\ target \in [Producers -> Lists]
    /\ todo \in [Producers -> Seq(Messages)]
    /\ wpc \in {"readMess", "readWork", "lock", "loop", "checkMess", "sleep",
                "waiting", "woken", "pop", "process"}
    /\ myMess \in Lists /\ myWork \in Lists
    /\ hand \in Seq(Messages)
    /\ corrupt \in BOOLEAN
    /\ puts \in 0..MaxPuts
    /\ accepted \subseteq Messages
    /\ done \subseteq Messages

Queued == Range(list["taskList"]) \cup Range(list["taskList_"])

Copying == UNION {Range(todo[p]) : p \in Producers}

(* However the two threads interleave their swaps, a message handed to a   *)
(* put is in exactly one place: waiting to be copied, on one position of   *)
(* one list, in the worker's hand, or done (ClassPthreadMgr.cpp:96-114 and *)
(* 160-184 move it between lists by pointer, never by copy).               *)
NothingLostOrRepeated ==
    /\ accepted = Copying \cup Queued \cup Range(hand) \cup done
    /\ \A l \in Lists : IsInjective(list[l])
    /\ Range(list["taskList"]) \cap Range(list["taskList_"]) = {}
    /\ Copying \cap Queued = {}
    /\ (Copying \cup Queued) \cap (Range(hand) \cup done) = {}
    /\ Range(hand) \cap done = {}

(* Messages put together are processed in the order they were put, even    *)
(* when the worker's swap moves the list under the producer's copy         *)
(* (ClassPthreadMgr.cpp:102 keeps writing to the list captured first).     *)
BatchInOrder ==
    \A k \in DOMAIN hand : \A i \in 1..(hand[k][2] - 1) : <<hand[k][1], i>> \in done

(* Once the worker has been woken a first time, the pointers it cached     *)
(* outside the swap (ClassPthreadMgr.cpp:176-177) are the shared ones      *)
(* whenever it uses them: no producer swaps behind its back.               *)
CachedPointersCurrent ==
    [](wpc = "woken" => [](lock = Worker => myMess = pMess /\ myWork = pWork))

(* A worker that is woken, or about to be, finishes everything that is on  *)
(* either list at that moment before anything else can put it to sleep for *)
(* good: a message stranded by an earlier put is rescued by the next one   *)
(* that finds the lock free (ClassPthreadMgr.cpp:105-111, 164-177).        *)
WokenWorkerDrainsBoth ==
    \A m \in Messages :
        (/\ m \in Queued
         /\ \/ wpc = "woken"
            \/ wpc = "waiting" /\ \E p \in Producers : pc[p] = "signal")
            ~> (m \in done \/ corrupt)

(* The list implements the mailbox it stands for. *)
Abstract == INSTANCE Mailbox WITH BatchIds <- 1..MaxPuts
ImplementsMailbox == Abstract!MailboxSpec

------------------------------------------------------------------------------
(* ClassPthreadMgr.cpp:168 says the worker sleeps when both lists are      *)
(* empty, to be woken when a task comes.  With every put over and nobody   *)
(* left to wake it, a sleeping worker would then leave nothing behind.     *)
SleepsOnlyWhenBothEmpty ==
    (wpc = "waiting" /\ putLock = Nobody) => Queued = {}
==============================================================================
