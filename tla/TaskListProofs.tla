--------------------------- MODULE TaskListProofs ----------------------------
(***************************************************************************)
(* Proofs about TaskList, for any producers, batch sizes and number of     *)
(* puts.                                                                   *)
(***************************************************************************)
EXTENDS TaskList, TLAPS

------------------------------------------------------------------------------
(* Sequences as the two std::lists use them. *)

(* push_back adds one element at the end. *)
LEMMA AppendFacts ==
    ASSUME NEW S, NEW s \in Seq(S), NEW e \in S
    PROVE  /\ Append(s, e) \in Seq(S)
           /\ Range(Append(s, e)) = Range(s) \cup {e}
           /\ IsInjective(s) /\ e \notin Range(s) => IsInjective(Append(s, e))
           /\ DOMAIN Append(s, e) = DOMAIN s \cup {Len(s) + 1}
           /\ Append(s, e)[Len(s) + 1] = e
           /\ \A k \in DOMAIN s : Append(s, e)[k] = s[k]
<1>1. /\ Append(s, e) \in Seq(S)
      /\ DOMAIN Append(s, e) = DOMAIN s \cup {Len(s) + 1}
      /\ Append(s, e)[Len(s) + 1] = e
      /\ \A k \in DOMAIN s : Append(s, e)[k] = s[k]
  OBVIOUS
<1>2. Range(Append(s, e)) = Range(s) \cup {e}
  BY <1>1 DEF Range
<1>3. ASSUME IsInjective(s), e \notin Range(s) PROVE IsInjective(Append(s, e))
  BY <1>1, <1>3 DEF IsInjective, Range
<1> QED BY <1>1, <1>2, <1>3

(* Taking the head leaves the rest, in order. *)
LEMMA TailFacts ==
    ASSUME NEW S, NEW s \in Seq(S), s # <<>>
    PROVE  /\ Head(s) \in S /\ Tail(s) \in Seq(S)
           /\ 1 \in DOMAIN s /\ s[1] = Head(s)
           /\ \A k \in DOMAIN Tail(s) :
                 k + 1 \in DOMAIN s /\ Tail(s)[k] = s[k + 1]
           /\ Range(s) = {Head(s)} \cup Range(Tail(s))
           /\ IsInjective(s) => IsInjective(Tail(s)) /\ Head(s) \notin Range(Tail(s))
<1>1. /\ Head(s) \in S /\ Tail(s) \in Seq(S)
      /\ 1 \in DOMAIN s /\ s[1] = Head(s)
      /\ \A k \in DOMAIN Tail(s) : k + 1 \in DOMAIN s /\ Tail(s)[k] = s[k + 1]
      /\ \A k \in DOMAIN s : k = 1 \/ k - 1 \in DOMAIN Tail(s)
      /\ DOMAIN s \subseteq Nat /\ DOMAIN Tail(s) \subseteq Nat \ {0}
  OBVIOUS
<1>2. Range(s) = {Head(s)} \cup Range(Tail(s))
  <2>1. Range(s) \subseteq {Head(s)} \cup Range(Tail(s))
    <3> SUFFICES ASSUME NEW k \in DOMAIN s, k # 1
                 PROVE  s[k] \in Range(Tail(s))
      BY <1>1 DEF Range
    <3>1. k - 1 \in DOMAIN Tail(s) /\ Tail(s)[k - 1] = s[(k - 1) + 1]
      BY <1>1
    <3> QED BY <3>1, <1>1 DEF Range
  <2>2. {Head(s)} \cup Range(Tail(s)) \subseteq Range(s)
    BY <1>1 DEF Range
  <2> QED BY <2>1, <2>2
<1>3. ASSUME IsInjective(s)
      PROVE  IsInjective(Tail(s)) /\ Head(s) \notin Range(Tail(s))
  BY <1>1, <1>3 DEF IsInjective, Range
<1> QED BY <1>1, <1>2, <1>3

(* A batch is a sequence of messages that has each of them once. *)
LEMMA BatchFacts ==
    ASSUME NEW b \in 1..MaxPuts, NEW n \in Sizes
    PROVE  /\ Batch(b, n) \in Seq(Messages)
           /\ IsInjective(Batch(b, n))
           /\ Range(Batch(b, n)) \subseteq Messages
           /\ \A m \in Range(Batch(b, n)) : m[1] = b
           /\ Range(Batch(b, n)) = {<<b, i>> : i \in 1..n}
<1>1. n \in Nat
  BY BatchAssumption DEF Sizes
<1>2. Range(Batch(b, n)) \subseteq Messages
  BY DEF Messages
<1>3. Batch(b, n) \in Seq(Messages)
  <2>1. \A i \in 1..n : <<b, i>> \in Messages
    BY <1>2 DEF Range, Batch
  <2> QED BY <1>1, <2>1 DEF Batch
<1>4. IsInjective(Batch(b, n))
  BY DEF IsInjective, Batch
<1>5. \A m \in Range(Batch(b, n)) : m[1] = b
  BY DEF Range, Batch
<1>6. Range(Batch(b, n)) = {<<b, i>> : i \in 1..n}
  BY DEF Range, Batch
<1> QED BY <1>2, <1>3, <1>4, <1>5, <1>6

------------------------------------------------------------------------------
(* The inductive invariant. *)

(* Who holds which mutex, at which line. *)
LocksHeld ==
    /\ lock = Worker <=> wpc \in {"loop", "checkMess", "sleep", "pop", "process"}
    /\ \A p \in Producers : lock = p <=> pc[p] = "swap"
    /\ \A p \in Producers : putLock = p <=> pc[p] # "idle"

(* What each thread holds outside the lists, at which line. *)
HandsFull ==
    /\ \A p \in Producers : pc[p] # "copy" => todo[p] = <<>>
    /\ hand = <<>> <=> wpc # "process"
    /\ wpc = "process" => Len(hand) = 1
    /\ \A p \in Producers : IsInjective(todo[p])
    /\ \A m \in accepted : m[1] \in 1..puts

(* The messages that have left the lists. *)
Gone == done \cup Range(hand)

(* S holds what m's batch has before m. *)
After(m, S) == \A i \in 1..(m[2] - 1) : <<m[1], i>> \in S

(* What s holds before its k-th element. *)
Ahead(s, k) == {s[j] : j \in 1..(k - 1)}

(* Wherever a message is, what its batch holds before it is ahead of it. *)
Ordered ==
    /\ \A l \in Lists : \A k \in DOMAIN list[l] :
          After(list[l][k], Gone \cup Ahead(list[l], k))
    /\ \A p \in Producers : \A k \in DOMAIN todo[p] :
          After(todo[p][k], Gone \cup Range(list[target[p]]) \cup Ahead(todo[p], k))
    /\ BatchInOrder

IInv == TypeOK /\ LocksHeld /\ HandsFull /\ NothingLostOrRepeated /\ Ordered

------------------------------------------------------------------------------
(* Types. *)

(* SwapTaskList leaves the two pointers on different lists. *)
LEMMA SwapFacts ==
    ASSUME TypeOK, SwapTaskList
    PROVE  pMess' \in Lists /\ pWork' \in Lists \ {pMess'}
BY DEF TypeOK, SwapTaskList, Lists

(* Initially every variable has its type. *)
LEMMA InitType == Init => TypeOK
<1> SUFFICES ASSUME Init PROVE TypeOK
  OBVIOUS
<1>1. 0 \in 0..MaxPuts
  BY BatchAssumption
<1>2. list \in [Lists -> Seq(Messages)] /\ todo \in [Producers -> Seq(Messages)]
  BY DEF Init
<1> QED BY <1>1, <1>2 DEF Init, TypeOK, Lists

(* A producer's step keeps the types. *)
LEMMA ProducerType ==
    ASSUME TypeOK, NEW p \in Producers, BeginPut(p) \/ ContinuePut(p)
    PROVE  TypeOK'
<1> USE DEF shared, working, history, Goto
<1>1. CASE BeginPut(p)
  <2>1. PICK n \in BatchSizes[p] :
           /\ todo' = [todo EXCEPT ![p] = Batch(puts + 1, n)]
           /\ accepted' = accepted \cup Range(Batch(puts + 1, n))
    BY <1>1 DEF BeginPut
  <2>2. puts + 1 \in 1..MaxPuts /\ n \in Sizes
    BY <1>1, BatchAssumption DEF BeginPut, TypeOK, Sizes
  <2>3. Batch(puts + 1, n) \in Seq(Messages) /\ Range(Batch(puts + 1, n)) \subseteq Messages
    BY <2>2, BatchFacts
  <2> QED BY <1>1, <2>1, <2>2, <2>3, BatchAssumption DEF BeginPut, TypeOK
<1>2. CASE PushBack(p)
  <2>1. todo[p] \in Seq(Messages) /\ todo[p] # <<>> /\ target[p] \in Lists
    BY <1>2 DEF PushBack, TypeOK
  <2>2. Head(todo[p]) \in Messages /\ Tail(todo[p]) \in Seq(Messages)
    BY <2>1, TailFacts
  <2>3. Append(list[target[p]], Head(todo[p])) \in Seq(Messages)
    BY <2>1, <2>2 DEF TypeOK
  <2> QED BY <1>2, <2>1, <2>2, <2>3 DEF PushBack, TypeOK
<1>3. CASE TryLock(p)
  BY <1>3 DEF TryLock, TypeOK
<1>4. CASE SwapAndUnlock(p)
  BY <1>4, SwapFacts DEF SwapAndUnlock, TypeOK
<1>5. CASE Signal(p)
  BY <1>5 DEF Signal, TypeOK
<1>6. CASE EndPut(p)
  BY <1>6 DEF EndPut, TypeOK
<1> QED BY <1>1, <1>2, <1>3, <1>4, <1>5, <1>6 DEF ContinuePut

(* A step of the worker, a spurious wakeup or a race keeps the types. *)
LEMMA WorkerType ==
    ASSUME TypeOK, WorkerStep \/ SpuriousWakeup \/ Race
    PROVE  TypeOK'
<1> USE DEF shared, putting, working, history
<1>1. CASE ReadMess
  BY <1>1 DEF ReadMess, TypeOK
<1>2. CASE ReadWork
  BY <1>2 DEF ReadWork, TypeOK
<1>3. CASE LockOnce
  BY <1>3 DEF LockOnce, TypeOK
<1>4. CASE CheckWork
  BY <1>4 DEF CheckWork, TypeOK
<1>5. CASE SwapOwn
  BY <1>5, SwapFacts DEF SwapOwn, TypeOK
<1>6. CASE FindNothing
  BY <1>6 DEF FindNothing, TypeOK
<1>7. CASE CondWait
  BY <1>7 DEF CondWait, TypeOK
<1>8. CASE Relock
  BY <1>8 DEF Relock, TypeOK
<1>9. CASE Pop
  <2>1. list[myWork] \in Seq(Messages) /\ list[myWork] # <<>>
    BY <1>9 DEF Pop, TypeOK
  <2>2. Head(list[myWork]) \in Messages /\ Tail(list[myWork]) \in Seq(Messages)
    BY <2>1, TailFacts
  <2> QED BY <1>9, <2>2 DEF Pop, TypeOK
<1>10. CASE Process
  <2>1. Range(hand) \subseteq Messages
    BY DEF TypeOK, Range
  <2> QED BY <1>10, <2>1 DEF Process, TypeOK
<1>11. CASE SpuriousWakeup
  BY <1>11 DEF SpuriousWakeup, TypeOK
<1>12. CASE Race
  BY <1>12 DEF Race, TypeOK
<1> QED BY <1>1, <1>2, <1>3, <1>4, <1>5, <1>6, <1>7, <1>8, <1>9, <1>10, <1>11,
           <1>12 DEF WorkerStep

(* Every step keeps the types. *)
LEMMA NextType == TypeOK /\ [Next]_vars => TypeOK'
<1> SUFFICES ASSUME TypeOK, [Next]_vars PROVE TypeOK'
  OBVIOUS
<1>1. CASE UNCHANGED vars
  BY <1>1 DEF vars, TypeOK
<1> QED BY <1>1, ProducerType, WorkerType DEF Next

(* Every variable keeps its type in every behaviour. *)
THEOREM TypeInvariant == Spec => []TypeOK
BY InitType, NextType, PTL DEF Spec

------------------------------------------------------------------------------
(* Mutexes, and what each thread holds. *)

(* A producer's step takes and releases the mutexes as LocksHeld says. *)
LEMMA ProducerLocks ==
    ASSUME TypeOK, LocksHeld, NEW p \in Producers, BeginPut(p) \/ ContinuePut(p)
    PROVE  LocksHeld'
<1> USE ThreadsAssumption DEF TypeOK, LocksHeld, Goto, working
<1>1. CASE BeginPut(p)
  BY <1>1 DEF BeginPut
<1>2. CASE PushBack(p)
  BY <1>2 DEF PushBack
<1>3. CASE TryLock(p)
  BY <1>3 DEF TryLock
<1>4. CASE SwapAndUnlock(p)
  BY <1>4 DEF SwapAndUnlock
<1>5. CASE Signal(p)
  BY <1>5 DEF Signal
<1>6. CASE EndPut(p)
  BY <1>6 DEF EndPut
<1> QED BY <1>1, <1>2, <1>3, <1>4, <1>5, <1>6 DEF ContinuePut

(* So does a step of the worker, a spurious wakeup or a race. *)
LEMMA WorkerLocks ==
    ASSUME TypeOK, LocksHeld, WorkerStep \/ SpuriousWakeup \/ Race
    PROVE  LocksHeld'
<1> USE ThreadsAssumption DEF TypeOK, LocksHeld, putting, working
<1>1. CASE ReadMess
  BY <1>1 DEF ReadMess
<1>2. CASE ReadWork
  BY <1>2 DEF ReadWork
<1>3. CASE LockOnce
  BY <1>3 DEF LockOnce
<1>4. CASE CheckWork
  BY <1>4 DEF CheckWork
<1>5. CASE SwapOwn
  BY <1>5 DEF SwapOwn
<1>6. CASE FindNothing
  BY <1>6 DEF FindNothing
<1>7. CASE CondWait
  BY <1>7 DEF CondWait
<1>8. CASE Relock
  BY <1>8 DEF Relock
<1>9. CASE Pop
  BY <1>9 DEF Pop
<1>10. CASE Process
  BY <1>10 DEF Process
<1>11. CASE SpuriousWakeup
  BY <1>11 DEF SpuriousWakeup
<1>12. CASE Race
  BY <1>12 DEF Race
<1> QED BY <1>1, <1>2, <1>3, <1>4, <1>5, <1>6, <1>7, <1>8, <1>9, <1>10, <1>11,
           <1>12 DEF WorkerStep

(* A producer's step changes what the threads hold as HandsFull says. *)
LEMMA ProducerHands ==
    ASSUME TypeOK, LocksHeld, HandsFull, NEW p \in Producers,
           BeginPut(p) \/ ContinuePut(p)
    PROVE  HandsFull'
<1> USE DEF HandsFull, Goto, working, history
<1>1. CASE BeginPut(p)
  <2>1. PICK n \in BatchSizes[p] :
           /\ todo' = [todo EXCEPT ![p] = Batch(puts + 1, n)]
           /\ accepted' = accepted \cup Range(Batch(puts + 1, n))
    BY <1>1 DEF BeginPut
  <2>2. puts + 1 \in 1..MaxPuts /\ n \in Sizes
    BY <1>1, BatchAssumption DEF BeginPut, TypeOK, Sizes
  <2>3. /\ IsInjective(Batch(puts + 1, n))
        /\ \A m \in Range(Batch(puts + 1, n)) : m[1] = puts + 1
    BY <2>2, BatchFacts
  <2>4. \A m \in accepted' : m[1] \in 1..puts'
    BY <1>1, <2>1, <2>2, <2>3, BatchAssumption DEF BeginPut, TypeOK
  <2>5. \A q \in Producers : IsInjective(todo'[q])
    BY <2>1, <2>3 DEF TypeOK
  <2> QED BY <1>1, <2>1, <2>4, <2>5 DEF BeginPut, TypeOK
<1>2. CASE PushBack(p)
  <2>1. todo[p] \in Seq(Messages) /\ todo[p] # <<>>
    BY <1>2 DEF PushBack, TypeOK
  <2>2. IsInjective(Tail(todo[p]))
    BY <2>1, TailFacts
  <2> QED BY <1>2, <2>2 DEF PushBack, TypeOK
<1>3. CASE TryLock(p)
  BY <1>3 DEF TryLock, TypeOK
<1>4. CASE SwapAndUnlock(p)
  BY <1>4 DEF SwapAndUnlock, TypeOK
<1>5. CASE Signal(p)
  BY <1>5 DEF Signal, TypeOK
<1>6. CASE EndPut(p)
  BY <1>6 DEF EndPut, TypeOK
<1> QED BY <1>1, <1>2, <1>3, <1>4, <1>5, <1>6 DEF ContinuePut

(* So does a step of the worker, a spurious wakeup or a race. *)
LEMMA WorkerHands ==
    ASSUME TypeOK, HandsFull, WorkerStep \/ SpuriousWakeup \/ Race
    PROVE  HandsFull'
<1> USE DEF TypeOK, HandsFull, putting, working, history
<1>1. CASE ReadMess
  BY <1>1 DEF ReadMess
<1>2. CASE ReadWork
  BY <1>2 DEF ReadWork
<1>3. CASE LockOnce
  BY <1>3 DEF LockOnce
<1>4. CASE CheckWork
  BY <1>4 DEF CheckWork
<1>5. CASE SwapOwn
  BY <1>5 DEF SwapOwn
<1>6. CASE FindNothing
  BY <1>6 DEF FindNothing
<1>7. CASE CondWait
  BY <1>7 DEF CondWait
<1>8. CASE Relock
  BY <1>8 DEF Relock
<1>9. CASE Pop
  BY <1>9 DEF Pop
<1>10. CASE Process
  BY <1>10 DEF Process
<1>11. CASE SpuriousWakeup
  BY <1>11 DEF SpuriousWakeup
<1>12. CASE Race
  BY <1>12 DEF Race
<1> QED BY <1>1, <1>2, <1>3, <1>4, <1>5, <1>6, <1>7, <1>8, <1>9, <1>10, <1>11,
           <1>12 DEF WorkerStep

------------------------------------------------------------------------------
(* Every message is in exactly one place. *)

(* Only the holder of putMessageLock has anything left to copy. *)
LEMMA OneCopies ==
    ASSUME NEW f, NEW p \in Producers, \A q \in Producers \ {p} : f[q] = <<>>
    PROVE  UNION {Range(f[q]) : q \in Producers} = Range(f[p])
BY DEF Range

(* While p holds putMessageLock, or nobody does, no other producer has     *)
(* anything left to copy.                                                  *)
LEMMA OthersIdle ==
    ASSUME LocksHeld, HandsFull, NEW p \in Producers,
           putLock = p \/ putLock = Nobody
    PROVE  \A q \in Producers \ {p} : todo[q] = <<>>
BY ThreadsAssumption DEF LocksHeld, HandsFull

(* There are two lists. *)
LEMMA OtherList ==
    ASSUME NEW l \in Lists
    PROVE  \E k \in Lists \ {l} : Lists = {l, k}
<1>1. CASE l = "taskList"
  <2>1. "taskList_" \in Lists \ {l} /\ Lists = {l, "taskList_"}
    BY <1>1 DEF Lists
  <2> QED BY <2>1
<1>2. CASE l = "taskList_"
  <2>1. "taskList" \in Lists \ {l} /\ Lists = {l, "taskList"}
    BY <1>2 DEF Lists
  <2> QED BY <2>1
<1> QED BY <1>1, <1>2 DEF Lists

(* What is queued, said of a list and the other one. *)
LEMMA QueuedIs ==
    ASSUME NEW f \in [Lists -> Seq(Messages)], NEW l \in Lists, NEW k \in Lists \ {l}
    PROVE  Range(f["taskList"]) \cup Range(f["taskList_"]) = Range(f[l]) \cup Range(f[k])
BY DEF Lists

(* Beginning a put brings new messages, to one place. *)
LEMMA BeginPutPlaces ==
    ASSUME TypeOK, LocksHeld, HandsFull, NothingLostOrRepeated,
           NEW p \in Producers, BeginPut(p)
    PROVE  NothingLostOrRepeated'
<1>1. PICK n \in BatchSizes[p] :
         /\ todo' = [todo EXCEPT ![p] = Batch(puts + 1, n)]
         /\ accepted' = accepted \cup Range(Batch(puts + 1, n))
  BY DEF BeginPut
<1> DEFINE new == Range(Batch(puts + 1, n))
<1>2. \A m \in new : m[1] = puts + 1
  <2>1. puts + 1 \in 1..MaxPuts /\ n \in Sizes
    BY BatchAssumption DEF BeginPut, TypeOK, Sizes
  <2> QED BY <2>1, BatchFacts
<1>3. new \cap accepted = {}
  <2>1. puts \in Nat
    BY BatchAssumption DEF TypeOK
  <2>2. \A m \in accepted : m[1] # puts + 1
    BY <2>1 DEF HandsFull
  <2> QED BY <1>2, <2>2
<1>4. \A q \in Producers : todo[q] = <<>>
  BY ThreadsAssumption DEF BeginPut, LocksHeld, HandsFull
<1>5. Copying = {}
  BY <1>4 DEF Copying, Range
<1>6. Copying' = new
  <2>1. \A q \in Producers \ {p} : todo'[q] = <<>>
    BY <1>1, <1>4 DEF TypeOK
  <2>2. todo'[p] = Batch(puts + 1, n)
    BY <1>1 DEF TypeOK
  <2> QED BY <2>1, <2>2, OneCopies DEF Copying
<1>7. UNCHANGED <<list, hand, done>>
  BY DEF BeginPut, shared, working
<1>8. Queued' = Queued
  BY <1>7 DEF Queued
<1> QED BY <1>1, <1>3, <1>5, <1>6, <1>7, <1>8 DEF NothingLostOrRepeated

(* Copying moves one message to one list. *)
LEMMA PushBackPlaces ==
    ASSUME TypeOK, LocksHeld, HandsFull, NothingLostOrRepeated,
           NEW p \in Producers, PushBack(p)
    PROVE  NothingLostOrRepeated'
<1> DEFINE l == target[p]
           m == Head(todo[p])
<1>1. PICK k \in Lists \ {l} : Lists = {l, k}
  BY OtherList DEF TypeOK
<1>2. todo[p] \in Seq(Messages) /\ todo[p] # <<>> /\ list[l] \in Seq(Messages) /\ l \in Lists
  BY DEF PushBack, TypeOK
<1>3. putLock = p
  BY DEF PushBack, LocksHeld
<1>4. Copying = Range(todo[p])
  BY <1>3, OthersIdle, OneCopies DEF Copying
<1>5. Copying' = Range(Tail(todo[p]))
  <2>1. todo' = [todo EXCEPT ![p] = Tail(todo[p])]
    BY DEF PushBack
  <2>2. \A q \in Producers \ {p} : todo'[q] = <<>>
    BY <1>3, <2>1, OthersIdle DEF TypeOK
  <2>3. todo'[p] = Tail(todo[p])
    BY <2>1 DEF TypeOK
  <2> QED BY <2>2, <2>3, OneCopies DEF Copying
<1>6. IsInjective(todo[p])
  BY DEF HandsFull
<1>7. /\ m \in Messages
      /\ Copying = {m} \cup Copying'
      /\ m \notin Copying'
  BY <1>2, <1>4, <1>5, <1>6, TailFacts
<1>8. list' = [list EXCEPT ![l] = Append(list[l], m)]
  BY DEF PushBack
<1>9. /\ list'[l] = Append(list[l], m) /\ list'[k] = list[k]
      /\ list' \in [Lists -> Seq(Messages)]
  BY <1>1, <1>2, <1>7, <1>8, AppendFacts DEF TypeOK
<1>10. /\ Queued = Range(list[l]) \cup Range(list[k])
       /\ Queued' = Range(list'[l]) \cup Range(list'[k])
       /\ Range(list[l]) \cap Range(list[k]) = {}
  <2>1. Range(list[l]) \cap Range(list[k]) = {}
    BY <1>1 DEF NothingLostOrRepeated, Lists
  <2>2. Queued = Range(list[l]) \cup Range(list[k])
    BY <1>2, QueuedIs DEF Queued, TypeOK
  <2>3. Queued' = Range(list'[l]) \cup Range(list'[k])
    BY <1>2, <1>9, QueuedIs DEF Queued
  <2> QED BY <2>1, <2>2, <2>3
<1>11. m \notin Queued
  BY <1>7 DEF NothingLostOrRepeated
<1>12. Range(list'[l]) = Range(list[l]) \cup {m} /\ IsInjective(list'[l])
  BY <1>2, <1>7, <1>9, <1>10, <1>11, AppendFacts DEF NothingLostOrRepeated
<1>13. /\ \A x \in Lists : IsInjective(list'[x])
       /\ Range(list'["taskList"]) \cap Range(list'["taskList_"]) = {}
  <2>1. Range(list'[l]) \cap Range(list'[k]) = {}
    BY <1>9, <1>10, <1>11, <1>12
  <2> QED BY <1>1, <1>9, <1>12, <2>1 DEF NothingLostOrRepeated, Lists
<1>14. UNCHANGED <<hand, done, accepted>>
  BY DEF PushBack, working, history
<1>15. Queued' = Queued \cup {m}
  BY <1>9, <1>10, <1>12
<1> QED BY <1>7, <1>11, <1>13, <1>14, <1>15 DEF NothingLostOrRepeated

(* Popping moves one message from one list to the worker's hand. *)
LEMMA PopPlaces ==
    ASSUME TypeOK, HandsFull, NothingLostOrRepeated, Pop
    PROVE  NothingLostOrRepeated'
<1> DEFINE l == myWork
           m == Head(list[l])
<1>1. PICK k \in Lists \ {l} : Lists = {l, k}
  BY OtherList DEF TypeOK
<1>2. list[l] \in Seq(Messages) /\ list[l] # <<>> /\ l \in Lists
  BY DEF Pop, TypeOK
<1>3. /\ m \in Messages /\ Tail(list[l]) \in Seq(Messages)
      /\ Range(list[l]) = {m} \cup Range(Tail(list[l]))
      /\ m \notin Range(Tail(list[l])) /\ IsInjective(Tail(list[l]))
  BY <1>2, TailFacts DEF NothingLostOrRepeated
<1>4. list' = [list EXCEPT ![l] = Tail(list[l])]
  BY DEF Pop
<1>5. /\ list'[l] = Tail(list[l]) /\ list'[k] = list[k]
      /\ list' \in [Lists -> Seq(Messages)]
  BY <1>1, <1>2, <1>3, <1>4 DEF TypeOK
<1>6. Range(list[l]) \cap Range(list[k]) = {}
  BY <1>1 DEF NothingLostOrRepeated, Lists
<1>7. Queued = Range(list[l]) \cup Range(list[k])
  BY <1>2, QueuedIs DEF Queued, TypeOK
<1>8. Queued' = Range(list'[l]) \cup Range(list'[k])
  BY <1>2, <1>5, QueuedIs DEF Queued
<1>9. Queued = Queued' \cup {m} /\ m \notin Queued'
  BY <1>3, <1>5, <1>6, <1>7, <1>8
<1>10. hand = <<>> /\ hand' = <<m>>
  BY DEF Pop, HandsFull
<1>11. Range(hand) = {} /\ Range(hand') = {m}
  BY <1>10 DEF Range
<1>12. /\ \A x \in Lists : IsInjective(list'[x])
       /\ Range(list'["taskList"]) \cap Range(list'["taskList_"]) = {}
  BY <1>1, <1>3, <1>5, <1>6 DEF NothingLostOrRepeated, Lists
<1>13. UNCHANGED <<done, accepted>> /\ Copying' = Copying
  BY DEF Pop, putting, history, Copying
<1> QED BY <1>9, <1>11, <1>12, <1>13 DEF NothingLostOrRepeated

(* Processing moves the message in hand to the done ones. *)
LEMMA ProcessPlaces ==
    ASSUME HandsFull, NothingLostOrRepeated, Process
    PROVE  NothingLostOrRepeated'
<1>1. /\ done' = done \cup Range(hand) /\ hand' = <<>>
      /\ UNCHANGED <<list, todo, accepted>>
  BY DEF Process, shared, putting
<1>2. Range(hand') = {}
  BY <1>1 DEF Range
<1>3. Queued' = Queued /\ Copying' = Copying
  BY <1>1 DEF Queued, Copying
<1> QED BY <1>1, <1>2, <1>3 DEF NothingLostOrRepeated

(* The steps that move no message. *)
LEMMA QuietPlaces ==
    ASSUME NothingLostOrRepeated, UNCHANGED <<list, todo, hand, done, accepted>>
    PROVE  NothingLostOrRepeated'
BY DEF NothingLostOrRepeated, Queued, Copying

(* The steps other than these four leave every message where it is. *)
LEMMA QuietSteps ==
    ASSUME [Next]_vars
    PROVE  \/ \E p \in Producers : BeginPut(p) \/ PushBack(p)
           \/ Pop \/ Process
           \/ UNCHANGED <<list, target, todo, hand, done, accepted>>
<1> USE DEF shared, putting, working, history
<1>1. CASE UNCHANGED vars
  BY <1>1 DEF vars
<1>2. CASE \E p \in Producers : ContinuePut(p)
  BY <1>2 DEF ContinuePut, TryLock, SwapAndUnlock, Signal, EndPut
<1>3. CASE WorkerStep \/ SpuriousWakeup \/ Race
  BY <1>3 DEF WorkerStep, ReadMess, ReadWork, LockOnce, CheckWork, SwapOwn,
              FindNothing, CondWait, Relock, SpuriousWakeup, Race
<1> QED BY <1>1, <1>2, <1>3 DEF Next

(* Initially there are no messages. *)
LEMMA InitPlaces == Init => NothingLostOrRepeated
<1> SUFFICES ASSUME Init PROVE NothingLostOrRepeated
  OBVIOUS
<1>1. \A l \in Lists : list[l] = <<>>
  BY DEF Init
<1>2. Queued = {} /\ Copying = {} /\ Range(hand) = {}
  BY <1>1 DEF Init, Queued, Copying, Range, Lists
<1>3. \A l \in Lists : IsInjective(list[l])
  BY <1>1 DEF IsInjective
<1> QED BY <1>2, <1>3 DEF Init, NothingLostOrRepeated, Queued

------------------------------------------------------------------------------
(* Order inside a batch. *)

(* What holds all that comes before m still does when it grows. *)
LEMMA AfterMore ==
    ASSUME NEW m, NEW S, NEW T, After(m, S), S \subseteq T
    PROVE  After(m, T)
BY DEF After

(* push_back changes nothing ahead of the other elements. *)
LEMMA AheadAppend ==
    ASSUME NEW s \in Seq(Messages), NEW e \in Messages
    PROVE  /\ \A k \in DOMAIN s : Ahead(Append(s, e), k) = Ahead(s, k)
           /\ Ahead(Append(s, e), Len(s) + 1) = Range(s)
<1>1. /\ DOMAIN s = 1..Len(s) /\ Len(s) \in Nat
      /\ \A k \in DOMAIN s : Append(s, e)[k] = s[k]
  OBVIOUS
<1>2. ASSUME NEW k \in DOMAIN s PROVE Ahead(Append(s, e), k) = Ahead(s, k)
  <2>1. \A j \in 1..(k - 1) : j \in DOMAIN s
    BY <1>1
  <2> QED BY <1>1, <2>1 DEF Ahead
<1>3. Ahead(Append(s, e), Len(s) + 1) = Range(s)
  <2>1. 1..((Len(s) + 1) - 1) = DOMAIN s
    BY <1>1
  <2> QED BY <1>1, <2>1 DEF Ahead, Range
<1> QED BY <1>2, <1>3

(* Popping takes one element away from what is ahead. *)
LEMMA AheadTail ==
    ASSUME NEW s \in Seq(Messages), s # <<>>, NEW k \in DOMAIN Tail(s)
    PROVE  /\ k + 1 \in DOMAIN s /\ Tail(s)[k] = s[k + 1]
           /\ Ahead(s, k + 1) \subseteq {Head(s)} \cup Ahead(Tail(s), k)
<1>1. /\ k + 1 \in DOMAIN s /\ Tail(s)[k] = s[k + 1] /\ s[1] = Head(s)
      /\ k \in Nat /\ DOMAIN Tail(s) = 1..Len(Tail(s)) /\ Len(Tail(s)) \in Nat
      /\ \A j \in DOMAIN Tail(s) : Tail(s)[j] = s[j + 1]
  BY TailFacts
<1>2. ASSUME NEW j \in 1..((k + 1) - 1), j # 1
      PROVE  s[j] \in Ahead(Tail(s), k)
  <2>1. j - 1 \in 1..(k - 1) /\ j - 1 \in DOMAIN Tail(s) /\ (j - 1) + 1 = j
    <3> DEFINE n == Len(Tail(s))
    <3>1. n \in Nat /\ DOMAIN Tail(s) = 1..n /\ k \in 1..n
      BY <1>1
    <3> HIDE DEF n
    <3> QED BY <1>2, <3>1
  <2>2. Tail(s)[j - 1] = s[j]
    BY <1>1, <2>1
  <2> QED BY <2>1, <2>2 DEF Ahead
<1> QED BY <1>1, <1>2 DEF Ahead

(* A new batch is in order. *)
LEMMA BeginPutOrder ==
    ASSUME TypeOK, LocksHeld, HandsFull, Ordered, NEW p \in Producers, BeginPut(p)
    PROVE  Ordered'
<1>1. PICK n \in BatchSizes[p] :
         todo' = [todo EXCEPT ![p] = Batch(puts + 1, n)]
  BY DEF BeginPut
<1>2. UNCHANGED <<list, hand, done>> /\ Gone' = Gone
  BY DEF BeginPut, shared, working, Gone
<1>3. \A q \in Producers \ {p} : todo'[q] = <<>>
  <2>1. \A q \in Producers : todo[q] = <<>>
    BY ThreadsAssumption DEF BeginPut, LocksHeld, HandsFull
  <2> QED BY <1>1, <2>1 DEF TypeOK
<1>4. todo'[p] = Batch(puts + 1, n)
  BY <1>1 DEF TypeOK
<1>5. ASSUME NEW k \in DOMAIN todo'[p]
      PROVE  After(todo'[p][k], Gone' \cup Range(list'[target'[p]]) \cup Ahead(todo'[p], k))
  <2>1. n \in Nat
    BY BatchAssumption
  <2>2. k \in 1..n /\ \A i \in 1..n : todo'[p][i] = <<puts + 1, i>>
    BY <1>4, <1>5, <2>1 DEF Batch
  <2>3. \A i \in 1..(k - 1) : <<puts + 1, i>> \in Ahead(todo'[p], k)
    <3>1. \A i \in 1..(k - 1) : i \in 1..n
      BY <2>1, <2>2
    <3> QED BY <2>2, <3>1 DEF Ahead
  <2>4. todo'[p][k] = <<puts + 1, k>>
    BY <2>2
  <2> QED BY <2>3, <2>4 DEF After
<1>6. \A q \in Producers : \A k \in DOMAIN todo'[q] :
         After(todo'[q][k], Gone' \cup Range(list'[target'[q]]) \cup Ahead(todo'[q], k))
  <2> TAKE q \in Producers
  <2>1. CASE q = p
    BY <1>5, <2>1
  <2>2. CASE q # p
    <3>1. DOMAIN todo'[q] = {}
      BY <1>3, <2>2
    <3> QED BY <3>1
  <2> QED BY <2>1, <2>2
<1>7. BatchInOrder'
  BY <1>2 DEF Ordered, BatchInOrder
<1>8. \A l \in Lists : \A k \in DOMAIN list'[l] :
         After(list'[l][k], Gone' \cup Ahead(list'[l], k))
  BY <1>2 DEF Ordered
<1> QED BY <1>6, <1>7, <1>8 DEF Ordered

(* Copying the head of a batch keeps the order. *)
LEMMA PushBackOrder ==
    ASSUME TypeOK, LocksHeld, HandsFull, Ordered, NEW p \in Producers, PushBack(p)
    PROVE  Ordered'
<1> DEFINE l == target[p]
           m == Head(todo[p])
<1>1. todo[p] \in Seq(Messages) /\ todo[p] # <<>> /\ list[l] \in Seq(Messages) /\ l \in Lists
  BY DEF PushBack, TypeOK
<1>2. m \in Messages /\ m = todo[p][1] /\ 1 \in DOMAIN todo[p]
  BY <1>1, TailFacts
<1>3. /\ list' = [list EXCEPT ![l] = Append(list[l], m)]
      /\ todo' = [todo EXCEPT ![p] = Tail(todo[p])]
      /\ UNCHANGED <<target, hand, done>> /\ Gone' = Gone
  BY DEF PushBack, working, history, Gone
<1>4. /\ list'[l] = Append(list[l], m) /\ \A x \in Lists \ {l} : list'[x] = list[x]
      /\ todo'[p] = Tail(todo[p])
  BY <1>1, <1>3 DEF TypeOK
<1>5. \A q \in Producers \ {p} : todo'[q] = <<>>
  <2>1. putLock = p
    BY DEF PushBack, LocksHeld
  <2> QED BY <1>3, <2>1, OthersIdle DEF TypeOK
<1>6. Range(list'[l]) = Range(list[l]) \cup {m}
  BY <1>1, <1>2, <1>4, AppendFacts
<1>7. ASSUME NEW k \in DOMAIN list'[l]
      PROVE  After(list'[l][k], Gone' \cup Ahead(list'[l], k))
  <2>1. CASE k \in DOMAIN list[l]
    <3>1. list'[l][k] = list[l][k] /\ Ahead(list'[l], k) = Ahead(list[l], k)
      BY <1>1, <1>2, <1>4, <2>1, AppendFacts, AheadAppend
    <3>2. After(list[l][k], Gone \cup Ahead(list[l], k))
      BY <1>1, <2>1 DEF Ordered
    <3> QED BY <1>3, <3>1, <3>2, AfterMore
  <2>2. CASE k = Len(list[l]) + 1
    <3>1. list'[l][k] = m /\ Ahead(list'[l], k) = Range(list[l])
      BY <1>1, <1>2, <1>4, <2>2, AppendFacts, AheadAppend
    <3>2. After(m, Gone \cup Range(list[l]) \cup Ahead(todo[p], 1))
      BY <1>2 DEF Ordered
    <3>3. Ahead(todo[p], 1) = {}
      BY DEF Ahead
    <3> QED BY <1>3, <3>1, <3>2, <3>3, AfterMore
  <2> QED BY <1>1, <1>2, <1>4, <1>7, <2>1, <2>2, AppendFacts
<1>8. ASSUME NEW x \in Lists \ {l}, NEW k \in DOMAIN list'[x]
      PROVE  After(list'[x][k], Gone' \cup Ahead(list'[x], k))
  <2>1. list'[x] = list[x] /\ After(list[x][k], Gone \cup Ahead(list[x], k))
    BY <1>4, <1>8 DEF Ordered
  <2> QED BY <1>3, <2>1, AfterMore
<1>9. ASSUME NEW k \in DOMAIN todo'[p]
      PROVE  After(todo'[p][k], Gone' \cup Range(list'[target'[p]]) \cup Ahead(todo'[p], k))
  <2>1. /\ k + 1 \in DOMAIN todo[p] /\ todo'[p][k] = todo[p][k + 1]
        /\ Ahead(todo[p], k + 1) \subseteq {m} \cup Ahead(todo'[p], k)
    BY <1>1, <1>4, <1>9, AheadTail
  <2>2. After(todo[p][k + 1], Gone \cup Range(list[l]) \cup Ahead(todo[p], k + 1))
    BY <2>1 DEF Ordered
  <2>3. /\ Gone' = Gone /\ target'[p] = l
        /\ Range(list[l]) \cup Ahead(todo[p], k + 1)
              \subseteq Range(list'[l]) \cup Ahead(todo'[p], k)
    BY <1>3, <1>6, <2>1
  <2> QED BY <2>1, <2>2, <2>3, AfterMore
<1>10. BatchInOrder'
  BY <1>3 DEF Ordered, BatchInOrder
<1>11. \A q \in Producers : \A k \in DOMAIN todo'[q] :
          After(todo'[q][k], Gone' \cup Range(list'[target'[q]]) \cup Ahead(todo'[q], k))
  <2> TAKE q \in Producers
  <2>1. CASE q = p
    BY <1>9, <2>1
  <2>2. CASE q # p
    <3>1. DOMAIN todo'[q] = {}
      BY <1>5, <2>2
    <3> QED BY <3>1
  <2> QED BY <2>1, <2>2
<1>12. \A x \in Lists : \A k \in DOMAIN list'[x] :
          After(list'[x][k], Gone' \cup Ahead(list'[x], k))
  BY <1>7, <1>8
<1> QED BY <1>10, <1>11, <1>12 DEF Ordered

(* Popping the head of a list keeps the order. *)
LEMMA PopOrder ==
    ASSUME TypeOK, HandsFull, Ordered, Pop
    PROVE  Ordered'
<1> DEFINE l == myWork
           m == Head(list[l])
<1>1. list[l] \in Seq(Messages) /\ list[l] # <<>> /\ l \in Lists
  BY DEF Pop, TypeOK
<1>2. /\ m \in Messages /\ m = list[l][1] /\ 1 \in DOMAIN list[l]
      /\ Range(list[l]) = {m} \cup Range(Tail(list[l]))
  BY <1>1, TailFacts
<1>3. /\ list' = [list EXCEPT ![l] = Tail(list[l])]
      /\ hand' = <<m>>
      /\ UNCHANGED <<todo, target, done>>
  BY DEF Pop, putting, history
<1>4. list'[l] = Tail(list[l]) /\ \A x \in Lists \ {l} : list'[x] = list[x]
  BY <1>1, <1>3 DEF TypeOK
<1>5. Gone = done /\ Gone' = Gone \cup {m}
  <2>1. hand = <<>>
    BY DEF Pop, HandsFull
  <2>2. Range(hand) = {} /\ Range(hand') = {m}
    BY <1>3, <2>1 DEF Range
  <2> QED BY <1>3, <2>2 DEF Gone
<1>6. ASSUME NEW k \in DOMAIN list'[l]
      PROVE  After(list'[l][k], Gone' \cup Ahead(list'[l], k))
  <2>1. /\ k + 1 \in DOMAIN list[l] /\ list'[l][k] = list[l][k + 1]
        /\ Ahead(list[l], k + 1) \subseteq {m} \cup Ahead(list'[l], k)
    BY <1>1, <1>4, <1>6, AheadTail
  <2>2. After(list[l][k + 1], Gone \cup Ahead(list[l], k + 1))
    BY <1>1, <2>1 DEF Ordered
  <2> QED BY <1>3, <1>5, <2>1, <2>2, AfterMore
<1>7. ASSUME NEW x \in Lists \ {l}, NEW k \in DOMAIN list'[x]
      PROVE  After(list'[x][k], Gone' \cup Ahead(list'[x], k))
  <2>1. list'[x] = list[x] /\ After(list[x][k], Gone \cup Ahead(list[x], k))
    BY <1>4, <1>7 DEF Ordered
  <2> QED BY <1>3, <1>5, <2>1, AfterMore
<1>8. ASSUME NEW q \in Producers, NEW k \in DOMAIN todo'[q]
      PROVE  After(todo'[q][k], Gone' \cup Range(list'[target'[q]]) \cup Ahead(todo'[q], k))
  <2>1. /\ todo'[q] = todo[q] /\ target'[q] = target[q] /\ target[q] \in Lists
        /\ After(todo[q][k], Gone \cup Range(list[target[q]]) \cup Ahead(todo[q], k))
    BY <1>3, <1>8 DEF Ordered, TypeOK
  <2>2. Range(list[target[q]]) \subseteq {m} \cup Range(list'[target[q]])
    BY <1>2, <1>4, <2>1
  <2> QED BY <1>3, <1>5, <2>1, <2>2, AfterMore
<1>9. BatchInOrder'
  <2>1. After(m, Gone \cup Ahead(list[l], 1)) /\ Ahead(list[l], 1) = {}
    <3>1. Ahead(list[l], 1) = {}
      BY DEF Ahead
    <3> QED BY <1>1, <1>2, <3>1 DEF Ordered
  <2>2. \A i \in 1..(m[2] - 1) : <<m[1], i>> \in done'
    BY <1>3, <1>5, <2>1 DEF After
  <2>3. \A k \in DOMAIN hand' : hand'[k] = m
    BY <1>3
  <2> QED BY <2>2, <2>3 DEF BatchInOrder
<1> QED BY <1>6, <1>7, <1>8, <1>9 DEF Ordered

(* Finishing the message in hand keeps the order. *)
LEMMA ProcessOrder ==
    ASSUME HandsFull, Ordered, Process
    PROVE  Ordered'
<1>1. /\ done' = done \cup Range(hand) /\ hand' = <<>>
      /\ UNCHANGED <<list, todo, target>>
  BY DEF Process, shared, putting
<1>2. Gone' = Gone
  BY <1>1 DEF Range, Gone
<1>3. BatchInOrder'
  BY <1>1 DEF BatchInOrder
<1> QED BY <1>1, <1>2, <1>3 DEF Ordered

(* A step that moves no message keeps the order. *)
LEMMA QuietOrder ==
    ASSUME Ordered, UNCHANGED <<list, target, todo, hand, done>>
    PROVE  Ordered'
BY DEF Ordered, Gone, BatchInOrder

(* Initially there is nothing to be out of order. *)
LEMMA InitOrder == Init => Ordered
<1> SUFFICES ASSUME Init PROVE Ordered
  OBVIOUS
<1>1. \A l \in Lists : list[l] = <<>>
  BY DEF Init
<1>2. \A p \in Producers : todo[p] = <<>>
  BY DEF Init
<1>3. hand = <<>>
  BY DEF Init
<1> QED BY <1>1, <1>2, <1>3 DEF Ordered, BatchInOrder

------------------------------------------------------------------------------
(* The theorems. *)

(* The invariant holds initially. *)
LEMMA InitIInv == Init => IInv
<1> SUFFICES ASSUME Init PROVE IInv
  OBVIOUS
<1>1. LocksHeld
  BY ThreadsAssumption DEF Init, LocksHeld
<1>2. HandsFull
  BY DEF Init, HandsFull, IsInjective
<1> QED BY <1>1, <1>2, InitType, InitPlaces, InitOrder DEF IInv

(* Every step keeps the invariant: types, locks, hands, places, order. *)
LEMMA NextIInv == IInv /\ [Next]_vars => IInv'
<1> SUFFICES ASSUME IInv, [Next]_vars PROVE IInv'
  OBVIOUS
<1> USE DEF IInv
<1>1. CASE UNCHANGED vars
  BY <1>1, NextType, QuietPlaces, QuietOrder DEF vars, LocksHeld, HandsFull
<1>2. CASE Next
  <2>1. TypeOK'
    BY NextType
  <2>2. LocksHeld' /\ HandsFull'
    BY <1>2, ProducerLocks, WorkerLocks, ProducerHands, WorkerHands DEF Next
  <2>3. NothingLostOrRepeated'
    BY QuietSteps, BeginPutPlaces, PushBackPlaces, PopPlaces, ProcessPlaces,
       QuietPlaces
  <2>4. Ordered'
    BY QuietSteps, BeginPutOrder, PushBackOrder, PopOrder, ProcessOrder, QuietOrder
  <2> QED BY <2>1, <2>2, <2>3, <2>4
<1> QED BY <1>1, <1>2

(* The inductive invariant holds in every behaviour: the types, who holds  *)
(* which mutex, what each thread holds, one place for every message, and   *)
(* what is ahead of each message on the lists.                             *)
THEOREM Invariance == Spec => []IInv
BY InitIInv, NextIInv, PTL DEF Spec

(* However the swaps of the producers and of the worker interleave, no     *)
(* message is dropped and none is processed twice.                         *)
THEOREM Conservation == Spec => []NothingLostOrRepeated
<1>1. IInv => NothingLostOrRepeated
  BY DEF IInv
<1> QED BY <1>1, Invariance, PTL

(* Messages put together are processed in the order they were put. *)
THEOREM BatchOrder == Spec => []BatchInOrder
<1>1. IInv => BatchInOrder
  BY DEF IInv, Ordered
<1> QED BY <1>1, Invariance, PTL

(* After its first wakeup the worker only uses pointers that are current:  *)
(* the producers swap only while it is not between lock and wait.          *)
THEOREM PointersCurrent == Spec => CachedPointersCurrent
<1> DEFINE fresh == lock = Worker => myMess = pMess /\ myWork = pWork
           C == wpc \notin {"readMess", "readWork", "lock"} /\ fresh
<1>1. IInv /\ wpc = "woken" => C
  BY DEF IInv, LocksHeld
<1>2. IInv /\ C /\ [Next]_vars => C'
  <2> SUFFICES ASSUME IInv, C, [Next]_vars PROVE C'
    OBVIOUS
  <2> USE ThreadsAssumption DEF IInv, LocksHeld, shared, working
  <2>1. CASE UNCHANGED vars
    BY <2>1 DEF vars
  <2>2. ASSUME NEW p \in Producers, BeginPut(p) \/ ContinuePut(p) PROVE C'
    BY <2>2 DEF BeginPut, ContinuePut, PushBack, TryLock, SwapAndUnlock, Signal,
                EndPut
  <2>3. CASE ReadMess \/ ReadWork \/ LockOnce \/ CheckWork \/ FindNothing
    BY <2>3 DEF ReadMess, ReadWork, LockOnce, CheckWork, FindNothing
  <2>4. CASE SwapOwn \/ CondWait \/ Relock
    BY <2>4 DEF SwapOwn, CondWait, Relock
  <2>5. CASE Pop \/ Process \/ SpuriousWakeup \/ Race
    BY <2>5 DEF Pop, Process, SpuriousWakeup, Race
  <2> QED BY <2>1, <2>2, <2>3, <2>4, <2>5 DEF Next, WorkerStep
<1>3. C => fresh
  OBVIOUS
<1> HIDE DEF C
<1> QED BY <1>1, <1>2, <1>3, Invariance, PTL DEF Spec, CachedPointersCurrent

(* The two lists, their locks and their swaps implement the mailbox. *)
THEOREM Refinement == Spec => ImplementsMailbox
<1> USE DEF Abstract!mailboxVars
<1>1. Init => Abstract!MailboxInit
  BY DEF Init, Abstract!MailboxInit
<1>2. IInv /\ [Next]_vars => [Abstract!MailboxNext]_Abstract!mailboxVars
  <2> SUFFICES ASSUME IInv, [Next]_vars
               PROVE  Abstract!MailboxNext \/ UNCHANGED <<accepted, done>>
    OBVIOUS
  <2>1. ASSUME NEW p \in Producers, BeginPut(p) PROVE Abstract!MailboxNext
    <3>1. PICK n \in BatchSizes[p] :
             accepted' = accepted \cup Range(Batch(puts + 1, n))
      BY <2>1 DEF BeginPut
    <3>2. puts + 1 \in 1..MaxPuts /\ n \in Sizes /\ puts \in Nat
      BY <2>1, BatchAssumption DEF BeginPut, IInv, TypeOK, Sizes
    <3>3. accepted' = accepted \cup Abstract!Batch(puts + 1, n)
      BY <3>1, <3>2, BatchFacts DEF Abstract!Batch
    <3>4. \A m \in accepted : m[1] # puts + 1
      BY <3>2 DEF IInv, HandsFull
    <3>5. UNCHANGED done
      BY <2>1 DEF BeginPut
    <3>6. Abstract!Accept(puts + 1, n)
      BY <3>3, <3>4, <3>5 DEF Abstract!Accept
    <3> QED BY <3>2, <3>6 DEF Abstract!MailboxNext
  <2>2. CASE Process
    <3>1. PICK m \in Messages : hand = <<m>>
      <4>1. hand \in Seq(Messages) /\ Len(hand) = 1
        BY <2>2 DEF Process, IInv, TypeOK, HandsFull
      <4>2. hand[1] \in Messages /\ hand = <<hand[1]>>
        BY <4>1
      <4> QED BY <4>2
    <3>2. Range(hand) = {m}
      BY <3>1 DEF Range
    <3>3. m \in accepted \ done
      BY <3>2 DEF IInv, NothingLostOrRepeated
    <3>4. Abstract!Earlier(m) \subseteq done
      BY <3>1 DEF IInv, Ordered, BatchInOrder, Abstract!Earlier
    <3>5. done' = done \cup {m} /\ UNCHANGED accepted
      BY <2>2, <3>2 DEF Process
    <3>6. Abstract!Finish(m)
      BY <3>4, <3>5 DEF Abstract!Finish
    <3> QED BY <3>3, <3>6 DEF Abstract!MailboxNext
  <2>3. CASE \E p \in Producers : PushBack(p)
    BY <2>3 DEF PushBack, history
  <2>4. CASE Pop
    BY <2>4 DEF Pop, history
  <2> QED BY <2>1, <2>2, <2>3, <2>4, QuietSteps
<1> QED BY <1>1, <1>2, Invariance, PTL
        DEF Spec, ImplementsMailbox, Abstract!MailboxSpec
==============================================================================
