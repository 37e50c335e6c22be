--------------------------- MODULE DispatchProofs ----------------------------
(***************************************************************************)
(* Dispatch, for any clients, any number of task lists and any bounds:     *)
(* types, CountIsPendingOrLeaked and OneThreadUntilTimer.                  *)
(***************************************************************************)
EXTENDS Dispatch, FiniteSetTheorems, TLAPS

(* The epoll thread has a batch of its client from ReadEvent on and until  *)
(* it has put it; the timer and the workers have a message while busy.     *)
InHand ==
    /\ epc \in {"scan", "events"} => ebatch = {}
    /\ epc \notin {"scan", "events"} => ecl \in Clients /\ reads > 0
    /\ IsFiniteSet(ebatch) /\ \A m \in ebatch : m.client = ecl /\ m.event = reads
    /\ tpc # "idle" => tmsg \in Message /\ tmsg.event = 0 /\ tmsg.i = fires
    /\ \A w \in Indexes : wpc[w] # "idle" => wmsg[w] \in Message

(* Before the first scan there is nothing to dispatch; before any scan     *)
(* nothing is left of the events before.                                   *)
Scanned ==
    /\ minIdx \notin Indexes =>
          /\ epc = "scan" /\ tpc = "idle" /\ online = {}
          /\ \A k \in Indexes : inbox[k] = {} /\ wpc[k] = "idle"
    /\ epc = "scan" => noLimit = {} /\ handled = {}

(* The messages that count. *)
All == Pending \cup leaked

(* What is read or fired next has a number of its own.                     *)
FreshOne(m) ==
    /\ m.event <= reads /\ (m.event = 0 => m.i <= fires)
    /\ epc \in {"loadNum", "addNum"} => m.event # reads
    /\ tpc \notin {"idle", "put"} /\ m.event = 0 => m.i # fires

Fresh == \A m \in All : FreshOne(m)

(* A message that counts is in one place.                                  *)
Apart ==
    /\ \A k \in Indexes :
          /\ inbox[k] \cap (noLimit \cup EpollHas \cup TimerHas \cup leaked) = {}
          /\ WorkerHas(k) \cap (noLimit \cup EpollHas \cup TimerHas \cup leaked) = {}
          /\ \A j \in Indexes : WorkerHas(k) \cap inbox[j] = {}
          /\ \A j \in Indexes \ {k} : /\ inbox[k] \cap inbox[j] = {}
                                      /\ WorkerHas(k) \cap WorkerHas(j) = {}
    /\ noLimit \cap (EpollHas \cup TimerHas \cup leaked) = {}
    /\ EpollHas \cap (TimerHas \cup leaked) = {}
    /\ TimerHas \cap leaked = {}

(* CountIsPendingOrLeaked, with sets that can be counted.                  *)
Counted ==
    \A c \in Clients : IsFiniteSet(Of(c, All)) /\ num[c] = Cardinality(Of(c, All))

CInv == /\ TypeOK /\ InHand /\ Scanned
        /\ ~crashed => Fresh /\ Apart /\ Counted

(* List k, or its worker, has a message of c; and no other has.            *)
Here(c, k) == \/ \E m \in inbox[k] : m.client = c
              \/ wpc[k] \in {"run", "subNum"} /\ wmsg[k].client = c

Home(c, k) == \A j \in Indexes \ {k} : ~Here(c, j)

(* While epoll is the only producer all messages of a client that are with *)
(* the workers are with one; that is the one the client's index names, the *)
(* one epoll has loaded, and the one noLimit is for, if there are any.     *)
Gathered(c) ==
    /\ \E k \in Indexes : Home(c, k)
    /\ idx[c] # -1 => Home(c, idx[c])
    /\ (\E m \in noLimit : m.client = c) =>
          Home(c, minIdx) /\ idx[c] \in {-1, minIdx} /\ c \in handled

Loaded ==
    /\ epc \notin {"scan", "events"} =>
          ecl \in handled /\ \A m \in noLimit : m.client # ecl
    /\ epc \in {"loadNum", "addNum", "put"} =>
          idx[ecl] \in {-1, eidx} /\ (eidx # -1 => Home(ecl, eidx))
    /\ epc = "setIdx" \/ (epc = "addNum" /\ enum <= 0) =>
          \A k \in Indexes : ~Here(ecl, k)

OneHome == fires = 0 => tpc = "idle" /\ (\A c \in Clients : Gathered(c)) /\ Loaded

IInv == CInv /\ OneHome

------------------------------------------------------------------------------
(* A batch is a finite set of messages of its client with a new number.    *)
LEMMA BatchShape ==
  ASSUME reads \in 0..MaxReads, reads < MaxReads, NEW c \in Clients, NEW S \in Batches(c)
  PROVE  /\ S \subseteq Message /\ IsFiniteSet(S)
         /\ \A m \in S : m.client = c /\ m.event = reads + 1
  <1> USE DispatchAssumption
  <1>0. PICK n \in 0..MaxBatch : \E f \in [1..n -> Kinds] :
           S = {[client |-> c, kind |-> f[i], event |-> reads + 1, i |-> i] : i \in 1..n}
    <2>1. PICK f \in UNION {[1..n -> IF c \in online THEN Kinds \ {"login"} ELSE Kinds] :
                               n \in 0..MaxBatch} :
             S = {[client |-> c, kind |-> f[i], event |-> reads + 1, i |-> i] : i \in DOMAIN f}
      BY DEF Batches
    <2>2. PICK n \in 0..MaxBatch :
             f \in [1..n -> IF c \in online THEN Kinds \ {"login"} ELSE Kinds]
      OBVIOUS
    <2>3. f \in [1..n -> Kinds] /\ DOMAIN f = 1..n
      BY <2>2
    <2> QED
      BY <2>1, <2>3
  <1>1. PICK f \in [1..n -> Kinds] :
           S = {[client |-> c, kind |-> f[i], event |-> reads + 1, i |-> i] : i \in 1..n}
    BY <1>0
  <1>2. \A i \in 1..n : f[i] \in Kinds /\ i \in Nat
    OBVIOUS
  <1>3. reads + 1 \in 0..MaxReads
    OBVIOUS
  <1>4. S \subseteq Message /\ \A m \in S : m.client = c /\ m.event = reads + 1
    BY <1>1, <1>2, <1>3 DEF Message
  <1>5. IsFiniteSet(S)
    <2> DEFINE g == [i \in 1..n |-> [client |-> c, kind |-> f[i], event |-> reads + 1, i |-> i]]
    <2>1. IsFiniteSet(1..n)
      BY FS_Interval
    <2>2. g \in Surjection(1..n, S)
      BY <1>1 DEF Surjection
    <2> QED
      BY <2>1, <2>2, FS_Surjection
  <1> QED
    BY <1>4, <1>5

(* What counts, place by place; before a step and after it. *)
LEMMA AllPlaces ==
  /\ \A m : m \in All <=> \/ \E k \in Indexes : m \in inbox[k] \/ m \in WorkerHas(k)
                          \/ m \in noLimit \cup EpollHas \cup TimerHas \cup leaked
  /\ \A m : m \in All' <=> \/ \E k \in Indexes : m \in inbox'[k] \/ m \in WorkerHas(k)'
                           \/ m \in (noLimit \cup EpollHas \cup TimerHas \cup leaked)'
  <1>1. \A m : m \in Given <=> \E k \in Indexes : m \in inbox[k] \/ m \in WorkerHas(k)
    BY DEF Given
  <1>2. \A m : m \in Given' <=> \E k \in Indexes : m \in inbox'[k] \/ m \in WorkerHas(k)'
    BY DEF Given
  <1> QED
    BY <1>1, <1>2 DEF All, Pending

LEMMA InitInv == Init => IInv
  <1> SUFFICES ASSUME Init PROVE IInv
    OBVIOUS
  <1> USE DispatchAssumption DEF Init, Indexes
  <1>1. CountTypes /\ ListTypes
    BY DEF CountTypes, ListTypes
  <1>2. EpollTypes /\ TimerTypes
    BY DEF EpollTypes, TimerTypes
  <1>3. WorkerTypes
    BY DEF WorkerTypes, Labels
  <1>4. HistoryTypes
    <2>1. crashed \in BOOLEAN
      OBVIOUS
    <2>2. reads \in 0..MaxReads /\ fires \in 0..MaxFires /\ leaked \subseteq Message
      OBVIOUS
    <2> QED
      BY <2>1, <2>2 DEF HistoryTypes
  <1>5. InHand /\ Scanned
    BY FS_EmptySet DEF InHand, Scanned
  <1>6. All = {}
    <2>1. \A k \in Indexes : inbox[k] = {} /\ WorkerHas(k) = {}
      BY DEF WorkerHas
    <2>2. noLimit \cup EpollHas \cup TimerHas \cup leaked = {}
      BY DEF EpollHas, TimerHas
    <2> QED
      BY <2>1, <2>2, AllPlaces
  <1>7. Fresh
    BY <1>6 DEF Fresh
  <1>8. Apart
    BY DEF Apart, EpollHas, TimerHas, WorkerHas
  <1>9. Counted
    BY <1>6, FS_EmptySet DEF Counted, Of
  <1>10. OneHome
    BY DEF OneHome, Gathered, Loaded, Home, Here
  <1> QED
    BY <1>1, <1>2, <1>3, <1>4, <1>5, <1>7, <1>8, <1>9, <1>10 DEF IInv, CInv, TypeOK

(* A message that a worker is about to uncount has been counted. *)
LEMMA CountedAtLeastOnce ==
  ASSUME CInv, ~crashed, NEW w \in Indexes, wpc[w] = "subNum"
  PROVE  /\ wmsg[w] \in Message /\ wmsg[w].client \in Clients
         /\ wmsg[w] \in Of(wmsg[w].client, All)
         /\ num[wmsg[w].client] >= 1
  <1>1. wmsg[w] \in Message /\ wmsg[w].client \in Clients
    BY DEF CInv, InHand, Message
  <1>2. wmsg[w] \in All
    BY AllPlaces DEF WorkerHas
  <1> DEFINE S == Of(wmsg[w].client, All)
  <1>3. wmsg[w] \in S
    BY <1>2 DEF Of
  <1>4. IsFiniteSet(S) /\ num[wmsg[w].client] = Cardinality(S)
    BY <1>1 DEF CInv, Counted
  <1>5. Cardinality(S) \in Nat /\ Cardinality(S) # 0
    BY <1>3, <1>4, FS_EmptySet, FS_CardinalityType
  <1> QED
    BY <1>1, <1>3, <1>4, <1>5

(* The indexes are indexes a client may have, and -1 is none. *)
LEMMA IndexTypes == /\ Indexes \subseteq -1..(ListCount - 1) /\ -1 \in -1..(ListCount - 1)
                    /\ -1 \notin Indexes /\ -1..(ListCount - 1) = {-1} \cup Indexes
  BY DispatchAssumption DEF Indexes

LEMMA KeepsTypes ==
  ASSUME CInv, Next
  PROVE  TypeOK'
  <1>a. /\ Indexes \subseteq -1..(ListCount - 1) /\ -1 \in -1..(ListCount - 1)
        /\ \A m \in Message : m.client \in Clients
        /\ NoClient \notin Clients
    BY IndexTypes, DispatchAssumption DEF Message
  <1>b. ~crashed
    BY DEF Next
  <1> USE DEF Next, CInv, TypeOK, CountTypes, ListTypes, EpollTypes, TimerTypes, WorkerTypes,
              HistoryTypes, InHand, Scanned, Labels, Goto, Put, counts, epoll, timer, workers
  <1>1. CASE Scan
    BY <1>1, <1>a DEF Scan
  <1>2. ASSUME NEW c \in Clients, ReadEvent(c) PROVE TypeOK'
    <2>1. ebatch' \subseteq Message
      BY <1>2, BatchShape DEF ReadEvent
    <2>2. reads' \in 0..MaxReads
      BY <1>2, DispatchAssumption DEF ReadEvent
    <2> QED
      BY <1>2, <1>a, <2>1, <2>2 DEF ReadEvent
  <1>3. CASE LoadNum
    BY <1>3, <1>a DEF LoadNum
  <1>4. CASE AddNum
    <2>1. Cardinality(ebatch) \in Nat
      BY FS_CardinalityType
    <2>2. num' \in [Clients -> Nat]
      BY <1>4, <2>1 DEF AddNum
    <2> QED
      BY <1>4, <2>2 DEF AddNum
  <1>5. CASE SetIdx
    BY <1>5, <1>a DEF SetIdx
  <1>6. CASE PutLimited
    BY <1>6, <1>a DEF PutLimited
  <1>7. CASE Flush
    BY <1>7, <1>a DEF Flush
  <1>8. ASSUME NEW c \in Clients, Fire(c) PROVE TypeOK'
    <2>1. [client |-> c, kind |-> "request", event |-> 0, i |-> fires + 1] \in Message
      BY <1>8, DispatchAssumption DEF Message, Kinds
    <2>2. fires' \in 0..MaxFires
      BY <1>8, DispatchAssumption DEF Fire
    <2>3. minIdx \in Indexes
      BY <1>8 DEF Fire
    <2> QED
      BY <1>8, <1>a, <2>1, <2>2, <2>3 DEF Fire
  <1>9. CASE FireLoadNum
    BY <1>9, <1>a DEF FireLoadNum
  <1>10. CASE FireSetIdx
    BY <1>10, <1>a DEF FireSetIdx
  <1>11. CASE FireLoadIdx
    BY <1>11, <1>a DEF FireLoadIdx
  <1>12. CASE FireAddNum
    <2>1. num[tmsg.client] + 1 \in Nat
      BY <1>12, <1>a DEF FireAddNum
    <2>2. num' \in [Clients -> Nat]
      BY <1>12, <2>1 DEF FireAddNum
    <2> QED
      BY <1>12, <2>2 DEF FireAddNum
  <1>13. CASE FirePut
    BY <1>13, <1>a DEF FirePut
  <1>14. ASSUME NEW w \in Indexes, Take(w) PROVE TypeOK'
    <2>1. PICK m \in inbox[w] : /\ wmsg' = [wmsg EXCEPT ![w] = m]
                                /\ inbox' = [inbox EXCEPT ![w] = @ \ {m}]
      BY <1>14 DEF Take
    <2>2. m \in Message
      OBVIOUS
    <2>3. inbox' \in [Indexes -> SUBSET Message]
      BY <2>1
    <2>4. wmsg' \in [Indexes -> Message \cup {NoMessage}]
      BY <2>1, <2>2
    <2>5. wpc' \in [Indexes -> Labels]
      BY <1>14 DEF Take
    <2> QED
      BY <1>14, <2>3, <2>4, <2>5 DEF Take
  <1>15. ASSUME NEW w \in Indexes, Run(w) PROVE TypeOK'
    <2>1. wmsg[w] \in Message /\ wmsg[w].client \in Clients
      BY <1>15, <1>a DEF Run
    <2>2. online' \subseteq Clients
      BY <1>15, <2>1 DEF Run
    <2>3. uid' \in [Indexes -> Clients \cup {NoClient}]
      BY <1>15, <2>1 DEF Run
    <2>4. wpc' \in [Indexes -> Labels]
      BY <1>15 DEF Run
    <2>5. wmsg' \in [Indexes -> Message \cup {NoMessage}] /\ leaked' \subseteq Message
      BY <1>15, <2>1 DEF Run
    <2>6. UNCHANGED <<counts, inbox, minIdx, epoll, timer, crashed, reads, fires>>
      BY <1>15 DEF Run
    <2> QED
      BY <2>2, <2>3, <2>4, <2>5, <2>6
  <1>16. ASSUME NEW w \in Indexes, SubNum(w) PROVE TypeOK'
    <2>1. num[wmsg[w].client] - 1 \in Nat
      BY <1>16, <1>b, CountedAtLeastOnce DEF SubNum
    <2>2. num' \in [Clients -> Nat]
      BY <1>16, <2>1 DEF SubNum
    <2>3. wpc' \in [Indexes -> Labels]
      BY <1>16 DEF SubNum
    <2> QED
      BY <1>16, <2>2, <2>3 DEF SubNum
  <1>17. ASSUME NEW w \in Indexes, WorkerLoadNum(w) PROVE TypeOK'
    BY <1>17, <1>a DEF WorkerLoadNum
  <1>18. ASSUME NEW w \in Indexes, ResetIdx(w) PROVE TypeOK'
    BY <1>18, <1>a DEF ResetIdx
  <1>19. ASSUME NEW w \in Indexes, Gc(w) PROVE TypeOK'
    BY <1>19, <1>a DEF Gc
  <1> QED
    BY <1>1, <1>2, <1>3, <1>4, <1>5, <1>6, <1>7, <1>8, <1>9, <1>10, <1>11,
       <1>12, <1>13, <1>14, <1>15, <1>16, <1>17, <1>18, <1>19 DEF Next,
       EpollStep, TimerStep, WorkerStep

(* The threads keep to the messages they have in hand. *)
LEMMA KeepsInHand ==
  ASSUME CInv, Next
  PROVE  InHand' /\ Scanned'
  <1>a. -1 \notin Indexes /\ NoClient \notin Clients /\ \A m \in Message : m.client \in Clients
    BY IndexTypes, DispatchAssumption DEF Message
  <1> USE DEF Next, CInv, TypeOK, ListTypes, EpollTypes, TimerTypes, WorkerTypes,
              HistoryTypes, InHand, Scanned, Goto, Put, counts, epoll, timer, workers
  <1>1. CASE Scan
    BY <1>1, <1>a DEF Scan
  <1>2. ASSUME NEW c \in Clients, ReadEvent(c) PROVE InHand' /\ Scanned'
    <2>1. /\ IsFiniteSet(ebatch') /\ \A m \in ebatch' : m.client = c /\ m.event = reads + 1
      BY <1>2, BatchShape DEF ReadEvent
    <2> QED
      BY <1>2, <2>1 DEF ReadEvent
  <1>3. CASE LoadNum
    BY <1>3, <1>a DEF LoadNum
  <1>4. CASE AddNum
    BY <1>4, <1>a DEF AddNum
  <1>5. CASE SetIdx
    <2>1. IsFiniteSet({})
      BY FS_EmptySet
    <2> QED
      BY <1>5, <2>1 DEF SetIdx
  <1>6. CASE PutLimited
    <2>1. IsFiniteSet({})
      BY FS_EmptySet
    <2> QED
      BY <1>6, <2>1 DEF PutLimited
  <1>7. CASE Flush
    BY <1>7, <1>a DEF Flush
  <1>8. ASSUME NEW c \in Clients, Fire(c) PROVE InHand' /\ Scanned'
    <2>1. [client |-> c, kind |-> "request", event |-> 0, i |-> fires + 1] \in Message
      BY <1>8, DispatchAssumption DEF Message, Kinds
    <2> QED
      BY <1>8, <2>1 DEF Fire
  <1>9. CASE FireLoadNum
    BY <1>9, <1>a DEF FireLoadNum
  <1>10. CASE FireSetIdx
    BY <1>10, <1>a DEF FireSetIdx
  <1>11. CASE FireLoadIdx
    BY <1>11, <1>a DEF FireLoadIdx
  <1>12. CASE FireAddNum
    BY <1>12, <1>a DEF FireAddNum
  <1>13. CASE FirePut
    BY <1>13, <1>a DEF FirePut
  <1>14. ASSUME NEW w \in Indexes, Take(w) PROVE InHand' /\ Scanned'
    BY <1>14, <1>a DEF Take
  <1>15. ASSUME NEW w \in Indexes, Run(w) PROVE InHand' /\ Scanned'
    BY <1>15, <1>a DEF Run
  <1>16. ASSUME NEW w \in Indexes, SubNum(w) PROVE InHand' /\ Scanned'
    BY <1>16, <1>a DEF SubNum
  <1>17. ASSUME NEW w \in Indexes, WorkerLoadNum(w) PROVE InHand' /\ Scanned'
    BY <1>17, <1>a DEF WorkerLoadNum
  <1>18. ASSUME NEW w \in Indexes, ResetIdx(w) PROVE InHand' /\ Scanned'
    BY <1>18, <1>a DEF ResetIdx
  <1>19. ASSUME NEW w \in Indexes, Gc(w) PROVE InHand' /\ Scanned'
    BY <1>19, <1>a DEF Gc
  <1> QED
    BY <1>1, <1>2, <1>3, <1>4, <1>5, <1>6, <1>7, <1>8, <1>9, <1>10, <1>11,
       <1>12, <1>13, <1>14, <1>15, <1>16, <1>17, <1>18, <1>19 DEF Next,
       EpollStep, TimerStep, WorkerStep

(* A step that moves no message. *)
Still == /\ UNCHANGED <<inbox, noLimit, leaked>> /\ EpollHas' = EpollHas /\ TimerHas' = TimerHas
         /\ \A k \in Indexes : WorkerHas(k)' = WorkerHas(k)

LEMMA StillPlaces ==
  ASSUME Apart, Still
  PROVE  All' = All /\ Apart'
  <1>1. All' = All
    <2>1. \A m : m \in All' <=> m \in All
      BY AllPlaces DEF Still
    <2> QED
      BY <2>1
  <1>2. Apart'
    BY DEF Still, Apart
  <1> QED
    BY <1>1, <1>2

(* Most steps move nothing. *)
LEMMA Moving ==
  ASSUME CInv, Next
  PROVE  \/ Still /\ num' = num
         \/ AddNum \/ SetIdx \/ PutLimited \/ Flush \/ FireAddNum \/ FirePut
         \/ \E w \in Indexes : Take(w) \/ Run(w) \/ SubNum(w)
  <1> USE DEF CInv, TypeOK, WorkerTypes, Still, EpollHas, TimerHas, WorkerHas, Goto, counts,
              epoll, timer, workers
  <1>1. CASE Scan
    BY <1>1 DEF Scan
  <1>2. ASSUME NEW c \in Clients, ReadEvent(c) PROVE Still /\ num' = num
    BY <1>2 DEF ReadEvent
  <1>3. CASE LoadNum
    BY <1>3 DEF LoadNum
  <1>8. ASSUME NEW c \in Clients, Fire(c) PROVE Still /\ num' = num
    BY <1>8 DEF Fire
  <1>9. CASE FireLoadNum
    BY <1>9 DEF FireLoadNum
  <1>10. CASE FireSetIdx
    BY <1>10 DEF FireSetIdx
  <1>11. CASE FireLoadIdx
    BY <1>11 DEF FireLoadIdx
  <1>17. ASSUME NEW w \in Indexes, WorkerLoadNum(w) PROVE Still /\ num' = num
    BY <1>17 DEF WorkerLoadNum
  <1>18. ASSUME NEW w \in Indexes, ResetIdx(w) PROVE Still /\ num' = num
    BY <1>18 DEF ResetIdx
  <1>19. ASSUME NEW w \in Indexes, Gc(w) PROVE Still /\ num' = num
    BY <1>19 DEF Gc
  <1> QED
    BY <1>1, <1>2, <1>3, <1>8, <1>9, <1>10, <1>11, <1>17, <1>18, <1>19 DEF Next,
       EpollStep, TimerStep, WorkerStep

(* The steps that do move messages: each keeps them apart, and all but the *)
(* counting steps keep their number.                                       *)
LEMMA AddNumPlaces ==
  ASSUME CInv, ~crashed, AddNum
  PROVE  All' = All \cup ebatch /\ ebatch \cap All = {} /\ Apart'
  <1>1. /\ UNCHANGED <<inbox, noLimit, leaked>> /\ TimerHas' = TimerHas
        /\ EpollHas' = ebatch /\ EpollHas = {}
        /\ \A k \in Indexes : WorkerHas(k)' = WorkerHas(k)
    BY DEF AddNum, EpollHas, TimerHas, WorkerHas, timer, workers
  <1>2. ebatch \cap All = {}
    BY DEF AddNum, CInv, InHand, Fresh, FreshOne
  <1>3. \A m \in noLimit \cup TimerHas \cup leaked : m \notin ebatch
    BY <1>2, AllPlaces
  <1>4. \A k \in Indexes : \A m \in inbox[k] \cup WorkerHas(k) : m \notin ebatch
    BY <1>2, AllPlaces
  <1>5. Apart'
    BY <1>1, <1>3, <1>4 DEF CInv, Apart
  <1>6. \A m : m \in All' <=> m \in All \cup ebatch
    BY <1>1, AllPlaces
  <1> QED
    BY <1>2, <1>5, <1>6

LEMMA SetIdxPlaces ==
  ASSUME CInv, ~crashed, SetIdx
  PROVE  All' = All /\ Apart'
  <1>1. /\ UNCHANGED <<inbox, leaked>> /\ TimerHas' = TimerHas
        /\ EpollHas' = {} /\ EpollHas = ebatch /\ noLimit' = noLimit \cup ebatch
        /\ \A k \in Indexes : WorkerHas(k)' = WorkerHas(k)
    BY DEF SetIdx, EpollHas, TimerHas, WorkerHas, timer, workers
  <1>2. Apart'
    BY <1>1 DEF CInv, Apart
  <1>3. \A m : m \in All' <=> m \in All
    BY <1>1, AllPlaces
  <1> QED
    BY <1>2, <1>3

(* What is put on a list was in one of the places that feed the lists.     *)
LEMMA PutPlaces ==
  ASSUME CInv, ~crashed, NEW l \in Indexes, NEW S, Put(l, S),
         leaked' = leaked, \A k \in Indexes : WorkerHas(k)' = WorkerHas(k),
         noLimit' \cup EpollHas' \cup TimerHas' \cup S = noLimit \cup EpollHas \cup TimerHas,
         noLimit' \subseteq noLimit, EpollHas' \subseteq EpollHas, TimerHas' \subseteq TimerHas,
         S \cap (noLimit' \cup EpollHas' \cup TimerHas') = {}
  PROVE  All' = All /\ Apart'
  <1>1. /\ inbox'[l] = inbox[l] \cup S
        /\ \A k \in Indexes \ {l} : inbox'[k] = inbox[k]
    BY DEF Put, CInv, TypeOK, ListTypes
  <1>2. /\ \A k \in Indexes : S \cap inbox[k] = {} /\ S \cap WorkerHas(k) = {}
        /\ S \cap leaked = {}
    BY DEF CInv, Apart
  <1>3. \A k \in Indexes :
           /\ inbox'[k] \cap (noLimit' \cup EpollHas' \cup TimerHas' \cup leaked') = {}
           /\ WorkerHas(k)' \cap (noLimit' \cup EpollHas' \cup TimerHas' \cup leaked') = {}
    BY <1>1, <1>2 DEF CInv, Apart
  <1>4. \A k, j \in Indexes :
           /\ WorkerHas(k)' \cap inbox'[j] = {}
           /\ j # k => inbox'[k] \cap inbox'[j] = {} /\ WorkerHas(k)' \cap WorkerHas(j)' = {}
    BY <1>1, <1>2 DEF CInv, Apart
  <1>5. Apart'
    BY <1>3, <1>4 DEF CInv, Apart
  <1>6. \A m : m \in All' <=> m \in All
    <2>1. \A m : (\E k \in Indexes : m \in inbox'[k]) 
               <=> m \in S \/ \E k \in Indexes : m \in inbox[k]
      BY <1>1
    <2> QED
      BY <2>1, AllPlaces
  <1> QED
    BY <1>5, <1>6

LEMMA PutLimitedPlaces ==
  ASSUME CInv, ~crashed, ~crashed', PutLimited
  PROVE  All' = All /\ Apart'
  <1>1. eidx \in Indexes /\ Put(eidx, ebatch)
    BY DEF PutLimited, Put
  <1>2. /\ EpollHas = ebatch /\ EpollHas' = {} /\ noLimit' = noLimit /\ TimerHas' = TimerHas
        /\ leaked' = leaked /\ \A k \in Indexes : WorkerHas(k)' = WorkerHas(k)
    BY DEF PutLimited, EpollHas, TimerHas, WorkerHas, timer, workers
  <1>3. ebatch \cap (noLimit \cup TimerHas) = {}
    BY <1>2 DEF CInv, Apart
  <1> QED
    BY <1>1, <1>2, <1>3, PutPlaces

LEMMA FlushPlaces ==
  ASSUME CInv, ~crashed, ~crashed', Flush
  PROVE  All' = All /\ Apart'
  <1>1. minIdx \in Indexes /\ Put(minIdx, noLimit)
    BY DEF Flush, Put
  <1>2. /\ EpollHas' = EpollHas /\ noLimit' = {} /\ TimerHas' = TimerHas
        /\ leaked' = leaked /\ \A k \in Indexes : WorkerHas(k)' = WorkerHas(k)
    BY DEF Flush, EpollHas, TimerHas, WorkerHas, timer, workers
  <1>3. noLimit \cap (EpollHas \cup TimerHas) = {}
    BY DEF CInv, Apart
  <1> QED
    BY <1>1, <1>2, <1>3, PutPlaces

LEMMA FireAddNumPlaces ==
  ASSUME CInv, ~crashed, FireAddNum
  PROVE  All' = All \cup {tmsg} /\ tmsg \notin All /\ Apart'
  <1>1. /\ UNCHANGED <<inbox, noLimit, leaked>> /\ EpollHas' = EpollHas
        /\ TimerHas' = {tmsg} /\ TimerHas = {}
        /\ \A k \in Indexes : WorkerHas(k)' = WorkerHas(k)
    BY DEF FireAddNum, EpollHas, TimerHas, WorkerHas, epoll, workers
  <1>2. tmsg \notin All
    BY DEF FireAddNum, CInv, InHand, Fresh, FreshOne
  <1>3. /\ tmsg \notin noLimit \cup EpollHas \cup leaked
        /\ \A k \in Indexes : tmsg \notin inbox[k] \cup WorkerHas(k)
    BY <1>2, AllPlaces
  <1>4. Apart'
    BY <1>1, <1>3 DEF CInv, Apart
  <1>5. \A m : m \in All' <=> m \in All \cup {tmsg}
    BY <1>1, AllPlaces
  <1> QED
    BY <1>2, <1>4, <1>5

LEMMA FirePutPlaces ==
  ASSUME CInv, ~crashed, ~crashed', FirePut
  PROVE  All' = All /\ Apart'
  <1>1. tidx \in Indexes /\ Put(tidx, {tmsg})
    BY DEF FirePut, Put
  <1>2. /\ EpollHas' = EpollHas /\ noLimit' = noLimit /\ TimerHas = {tmsg} /\ TimerHas' = {}
        /\ leaked' = leaked /\ \A k \in Indexes : WorkerHas(k)' = WorkerHas(k)
    BY DEF FirePut, EpollHas, TimerHas, WorkerHas, epoll, workers
  <1>3. {tmsg} \cap (noLimit \cup EpollHas) = {}
    BY <1>2 DEF CInv, Apart
  <1> QED
    BY <1>1, <1>2, <1>3, PutPlaces

LEMMA TakePlaces ==
  ASSUME CInv, ~crashed, NEW w \in Indexes, Take(w)
  PROVE  All' = All /\ Apart'
  <1>1. PICK m \in inbox[w] : /\ wmsg' = [wmsg EXCEPT ![w] = m]
                              /\ inbox' = [inbox EXCEPT ![w] = @ \ {m}]
    BY DEF Take
  <1>2. /\ wpc[w] = "idle" /\ wpc' = [wpc EXCEPT ![w] = "run"]
        /\ EpollHas' = EpollHas /\ noLimit' = noLimit /\ TimerHas' = TimerHas /\ leaked' = leaked
    BY DEF Take, Goto, EpollHas, TimerHas, epoll, timer
  <1>3. /\ WorkerHas(w) = {} /\ WorkerHas(w)' = {m} /\ inbox'[w] = inbox[w] \ {m}
        /\ \A k \in Indexes \ {w} : WorkerHas(k)' = WorkerHas(k) /\ inbox'[k] = inbox[k]
    BY <1>1, <1>2 DEF WorkerHas, CInv, TypeOK, ListTypes, WorkerTypes
  <1>4. /\ m \notin noLimit \cup EpollHas \cup TimerHas \cup leaked
        /\ \A k \in Indexes \ {w} : m \notin inbox[k]
        /\ \A k \in Indexes : m \notin WorkerHas(k)
    BY DEF CInv, Apart
  <1>5. Apart'
    BY <1>2, <1>3, <1>4 DEF CInv, Apart
  <1>6. \A n : n \in All' <=> n \in All
    <2>1. \A n : (\E k \in Indexes : n \in inbox'[k] \/ n \in WorkerHas(k)')
                    <=> (\E k \in Indexes : n \in inbox[k] \/ n \in WorkerHas(k))
      BY <1>3
    <2> QED
      BY <1>2, <2>1, AllPlaces
  <1> QED
    BY <1>5, <1>6

(* The message that a worker ends with is uncounted or leaked.             *)
LEMMA DropPlaces ==
  ASSUME CInv, ~crashed, NEW w \in Indexes, wpc[w] \in {"run", "subNum"},
         UNCHANGED <<inbox, noLimit>>, EpollHas' = EpollHas, TimerHas' = TimerHas,
         WorkerHas(w)' = {}, \A k \in Indexes \ {w} : WorkerHas(k)' = WorkerHas(k),
         leaked' \in {leaked, leaked \cup {wmsg[w]}}
  PROVE  /\ Apart'
         /\ leaked' = leaked \cup {wmsg[w]} => All' = All
         /\ leaked' = leaked => All' = All \ {wmsg[w]}
  <1>1. WorkerHas(w) = {wmsg[w]}
    BY DEF WorkerHas
  <1>2. /\ wmsg[w] \notin noLimit \cup EpollHas \cup TimerHas \cup leaked
        /\ \A k \in Indexes : wmsg[w] \notin inbox[k]
        /\ \A k \in Indexes \ {w} : wmsg[w] \notin WorkerHas(k)
    BY <1>1 DEF CInv, Apart
  <1>3. Apart'
    BY <1>2 DEF CInv, Apart
  <1>4. \A m : (\E k \in Indexes : m \in inbox[k] \/ m \in WorkerHas(k))
                  <=> m = wmsg[w] \/ (\E k \in Indexes : m \in inbox'[k] \/ m \in WorkerHas(k)')
    BY <1>1
  <1>5. ~\E k \in Indexes : wmsg[w] \in inbox'[k] \/ wmsg[w] \in WorkerHas(k)'
    BY <1>2
  <1>6. ASSUME leaked' = leaked \cup {wmsg[w]} PROVE All' = All
    <2>1. \A m : m \in All' <=> m \in All
      BY <1>4, <1>6, AllPlaces
    <2> QED
      BY <2>1
  <1>7. ASSUME leaked' = leaked PROVE All' = All \ {wmsg[w]}
    <2>1. \A m : m \in All' <=> m \in All \ {wmsg[w]}
      BY <1>2, <1>4, <1>5, <1>7, AllPlaces
    <2> QED
      BY <2>1
  <1> QED
    BY <1>3, <1>6, <1>7

LEMMA RunPlaces ==
  ASSUME CInv, ~crashed, NEW w \in Indexes, Run(w)
  PROVE  All' = All /\ Apart'
  <1>1. /\ wpc[w] = "run" /\ UNCHANGED <<inbox, noLimit>>
        /\ EpollHas' = EpollHas /\ TimerHas' = TimerHas
    BY DEF Run, EpollHas, TimerHas, epoll, timer
  <1>2. \/ wpc' = [wpc EXCEPT ![w] = "subNum"] /\ UNCHANGED <<wmsg, leaked>>
        \/ /\ wpc' = [wpc EXCEPT ![w] = "idle"]
           /\ wmsg' = [wmsg EXCEPT ![w] = NoMessage]
           /\ leaked' = leaked \cup {wmsg[w]}
    BY DEF Run, Goto
  <1>3. CASE wpc' = [wpc EXCEPT ![w] = "subNum"] /\ UNCHANGED <<wmsg, leaked>>
    <2>1. \A k \in Indexes : WorkerHas(k)' = WorkerHas(k)
      BY <1>1, <1>3 DEF WorkerHas, CInv, TypeOK, WorkerTypes
    <2> QED
      BY <1>1, <1>3, <2>1, StillPlaces DEF Still, CInv
  <1>4. CASE /\ wpc' = [wpc EXCEPT ![w] = "idle"]
             /\ wmsg' = [wmsg EXCEPT ![w] = NoMessage]
             /\ leaked' = leaked \cup {wmsg[w]}
    <2>1. WorkerHas(w)' = {} /\ \A k \in Indexes \ {w} : WorkerHas(k)' = WorkerHas(k)
      BY <1>4 DEF WorkerHas, CInv, TypeOK, WorkerTypes
    <2> QED
      BY <1>1, <1>4, <2>1, DropPlaces
  <1> QED
    BY <1>2, <1>3, <1>4

LEMMA SubNumPlaces ==
  ASSUME CInv, ~crashed, NEW w \in Indexes, SubNum(w)
  PROVE  All' = All \ {wmsg[w]} /\ Apart'
  <1>1. /\ wpc[w] = "subNum" /\ wpc' = [wpc EXCEPT ![w] = "loadNum"]
        /\ UNCHANGED <<inbox, noLimit, wmsg, leaked>>
        /\ EpollHas' = EpollHas /\ TimerHas' = TimerHas
    BY DEF SubNum, Goto, EpollHas, TimerHas, epoll, timer
  <1>2. WorkerHas(w)' = {} /\ \A k \in Indexes \ {w} : WorkerHas(k)' = WorkerHas(k)
    BY <1>1 DEF WorkerHas, CInv, TypeOK, WorkerTypes
  <1> QED
    BY <1>1, <1>2, DropPlaces

(* The count after each step that counts. *)
LEMMA AddNumCounts ==
  ASSUME CInv, ~crashed, AddNum
  PROVE  Counted'
  <1>1. All' = All \cup ebatch /\ ebatch \cap All = {}
    BY AddNumPlaces
  <1>2. IsFiniteSet(ebatch) /\ ecl \in Clients /\ \A m \in ebatch : m.client = ecl
    BY DEF AddNum, CInv, InHand
  <1>3. num' = [num EXCEPT ![ecl] = @ + Cardinality(ebatch)]
    BY DEF AddNum
  <1> SUFFICES ASSUME NEW c \in Clients
               PROVE  IsFiniteSet(Of(c, All')) /\ num'[c] = Cardinality(Of(c, All'))
    BY DEF Counted, Of
  <1>4. IsFiniteSet(Of(c, All)) /\ num[c] = Cardinality(Of(c, All))
    BY DEF CInv, Counted
  <1>5. CASE c = ecl
    <2>1. Of(c, All') = Of(c, All) \cup ebatch
      BY <1>1, <1>2, <1>5 DEF Of
    <2>2. Of(c, All) \cap ebatch = {}
      BY <1>1 DEF Of
    <2>3. /\ IsFiniteSet(Of(c, All) \cup ebatch)
          /\ Cardinality(Of(c, All) \cup ebatch) = Cardinality(Of(c, All)) + Cardinality(ebatch)
      <3>1. Cardinality({}) = 0
        BY FS_EmptySet
      <3>2. /\ IsFiniteSet(Of(c, All) \cup ebatch)
            /\ Cardinality(Of(c, All) \cup ebatch)
                  = Cardinality(Of(c, All)) + Cardinality(ebatch)
                       - Cardinality(Of(c, All) \cap ebatch)
        BY <1>2, <1>4, FS_Union
      <3>3. Cardinality(Of(c, All)) \in Nat /\ Cardinality(ebatch) \in Nat
        BY <1>2, <1>4, FS_CardinalityType
      <3>4. Cardinality(Of(c, All) \cap ebatch) = 0
        BY <2>2, <3>1
      <3>5. ASSUME NEW a \in Nat, NEW b \in Nat, NEW d, NEW u, d = 0, u = a + b - d
            PROVE  u = a + b
        BY <3>5
      <3> QED
        BY <3>2, <3>3, <3>4, <3>5
    <2>4. num'[c] = num[c] + Cardinality(ebatch)
      BY <1>2, <1>3, <1>5 DEF CInv, TypeOK, CountTypes
    <2> QED
      BY <1>4, <2>1, <2>3, <2>4
  <1>6. CASE c # ecl
    <2>1. Of(c, All') = Of(c, All)
      BY <1>1, <1>2, <1>6 DEF Of
    <2>2. num'[c] = num[c]
      BY <1>3, <1>6 DEF CInv, TypeOK, CountTypes
    <2> QED
      BY <1>4, <2>1, <2>2
  <1> QED
    BY <1>5, <1>6

LEMMA FireAddNumCounts ==
  ASSUME CInv, ~crashed, FireAddNum
  PROVE  Counted'
  <1>1. All' = All \cup {tmsg} /\ tmsg \notin All
    BY FireAddNumPlaces
  <1>2. tmsg \in Message /\ tmsg.client \in Clients
    BY DEF FireAddNum, CInv, InHand, Message
  <1>3. num' = [num EXCEPT ![tmsg.client] = @ + 1]
    BY DEF FireAddNum
  <1> SUFFICES ASSUME NEW c \in Clients
               PROVE  IsFiniteSet(Of(c, All')) /\ num'[c] = Cardinality(Of(c, All'))
    BY DEF Counted, Of
  <1>4. IsFiniteSet(Of(c, All)) /\ num[c] = Cardinality(Of(c, All))
    BY DEF CInv, Counted
  <1>5. CASE c = tmsg.client
    <2>1. Of(c, All') = Of(c, All) \cup {tmsg} /\ tmsg \notin Of(c, All)
      BY <1>1, <1>5 DEF Of
    <2>2. /\ IsFiniteSet(Of(c, All) \cup {tmsg})
          /\ Cardinality(Of(c, All) \cup {tmsg}) = Cardinality(Of(c, All)) + 1
      BY <1>4, <2>1, FS_AddElement
    <2>3. num'[c] = num[c] + 1
      BY <1>2, <1>3, <1>5 DEF CInv, TypeOK, CountTypes
    <2> QED
      BY <1>4, <2>1, <2>2, <2>3
  <1>6. CASE c # tmsg.client
    <2>1. Of(c, All') = Of(c, All)
      BY <1>1, <1>6 DEF Of
    <2>2. num'[c] = num[c]
      BY <1>3, <1>6 DEF CInv, TypeOK, CountTypes
    <2> QED
      BY <1>4, <2>1, <2>2
  <1> QED
    BY <1>5, <1>6

LEMMA SubNumCounts ==
  ASSUME CInv, ~crashed, NEW w \in Indexes, SubNum(w)
  PROVE  Counted'
  <1> DEFINE m == wmsg[w]
  <1>1. All' = All \ {m}
    BY SubNumPlaces
  <1>2. m.client \in Clients /\ m \in Of(m.client, All)
    BY CountedAtLeastOnce DEF SubNum
  <1>3. num' = [num EXCEPT ![m.client] = @ - 1]
    BY DEF SubNum
  <1> SUFFICES ASSUME NEW c \in Clients
               PROVE  IsFiniteSet(Of(c, All')) /\ num'[c] = Cardinality(Of(c, All'))
    BY DEF Counted, Of
  <1>4. IsFiniteSet(Of(c, All)) /\ num[c] = Cardinality(Of(c, All))
    BY DEF CInv, Counted
  <1>5. CASE c = m.client
    <2>1. Of(c, All') = Of(c, All) \ {m} /\ m \in Of(c, All)
      BY <1>1, <1>2, <1>5 DEF Of
    <2>2. /\ IsFiniteSet(Of(c, All) \ {m})
          /\ Cardinality(Of(c, All) \ {m}) = Cardinality(Of(c, All)) - 1
      BY <1>4, <2>1, FS_RemoveElement
    <2>3. num'[c] = num[c] - 1
      BY <1>2, <1>3, <1>5 DEF CInv, TypeOK, CountTypes
    <2> QED
      BY <1>4, <2>1, <2>2, <2>3
  <1>6. CASE c # m.client
    <2>1. Of(c, All') = Of(c, All)
      BY <1>1, <1>6 DEF Of
    <2>2. num'[c] = num[c]
      BY <1>3, <1>6 DEF CInv, TypeOK, CountTypes
    <2> QED
      BY <1>4, <2>1, <2>2
  <1> QED
    BY <1>5, <1>6

LEMMA OthersCount ==
  ASSUME CInv, ~crashed, All' = All, num' = num
  PROVE  Counted'
  BY DEF CInv, Counted, Of

LEMMA KeepsCounted ==
  ASSUME CInv, Next, ~crashed'
  PROVE  /\ Apart' /\ Counted'
         /\ AddNum \/ FireAddNum \/ All' \subseteq All
  <1>0. ~crashed
    BY DEF Next
  <1>1. CASE Still /\ num' = num
    BY <1>0, <1>1, StillPlaces, OthersCount DEF CInv
  <1>2. CASE AddNum
    BY <1>0, <1>2, AddNumPlaces, AddNumCounts
  <1>3. CASE SetIdx
    BY <1>0, <1>3, SetIdxPlaces, OthersCount DEF SetIdx
  <1>4. CASE PutLimited
    BY <1>0, <1>4, PutLimitedPlaces, OthersCount DEF PutLimited, counts
  <1>5. CASE Flush
    BY <1>0, <1>5, FlushPlaces, OthersCount DEF Flush, counts
  <1>6. CASE FireAddNum
    BY <1>0, <1>6, FireAddNumPlaces, FireAddNumCounts
  <1>7. CASE FirePut
    BY <1>0, <1>7, FirePutPlaces, OthersCount DEF FirePut, counts
  <1>8. ASSUME NEW w \in Indexes, Take(w)
        PROVE  Apart' /\ Counted' /\ All' \subseteq All
    BY <1>0, <1>8, TakePlaces, OthersCount DEF Take, counts
  <1>9. ASSUME NEW w \in Indexes, Run(w)
        PROVE  Apart' /\ Counted' /\ All' \subseteq All
    BY <1>0, <1>9, RunPlaces, OthersCount DEF Run, counts
  <1>10. ASSUME NEW w \in Indexes, SubNum(w)
         PROVE  Apart' /\ Counted' /\ All' \subseteq All
    BY <1>0, <1>10, SubNumPlaces, SubNumCounts
  <1> QED
    BY <1>1, <1>2, <1>3, <1>4, <1>5, <1>6, <1>7, <1>8, <1>9, <1>10, Moving

(* What is next to be read or fired stays new.                             *)
LEMMA StaysFresh ==
  ASSUME CInv, Next, NEW m, m.event \in Nat, m.i \in Nat, FreshOne(m)
  PROVE  FreshOne(m)'
  <1>a. reads \in Nat /\ fires \in Nat
    BY DispatchAssumption DEF CInv, TypeOK, HistoryTypes
  <1> USE DEF FreshOne, epoll, timer, workers
  <1>1. CASE Scan
    BY <1>1, <1>a DEF Scan
  <1>2. ASSUME NEW c \in Clients, ReadEvent(c) PROVE FreshOne(m)'
    BY <1>2, <1>a DEF ReadEvent
  <1>3. CASE LoadNum
    BY <1>3, <1>a DEF LoadNum
  <1>4. CASE AddNum
    BY <1>4, <1>a DEF AddNum
  <1>5. CASE SetIdx
    BY <1>5, <1>a DEF SetIdx
  <1>6. CASE PutLimited
    BY <1>6, <1>a DEF PutLimited
  <1>7. CASE Flush
    BY <1>7, <1>a DEF Flush
  <1>8. ASSUME NEW c \in Clients, Fire(c) PROVE FreshOne(m)'
    BY <1>8, <1>a DEF Fire
  <1>9. CASE FireLoadNum
    BY <1>9, <1>a DEF FireLoadNum
  <1>10. CASE FireSetIdx
    BY <1>10, <1>a DEF FireSetIdx
  <1>11. CASE FireLoadIdx
    BY <1>11, <1>a DEF FireLoadIdx
  <1>12. CASE FireAddNum
    BY <1>12, <1>a DEF FireAddNum
  <1>13. CASE FirePut
    BY <1>13, <1>a DEF FirePut
  <1>14. ASSUME NEW w \in Indexes, Take(w) PROVE FreshOne(m)'
    BY <1>14, <1>a DEF Take
  <1>15. ASSUME NEW w \in Indexes, Run(w) PROVE FreshOne(m)'
    BY <1>15, <1>a DEF Run
  <1>16. ASSUME NEW w \in Indexes, SubNum(w) PROVE FreshOne(m)'
    BY <1>16, <1>a DEF SubNum
  <1>17. ASSUME NEW w \in Indexes, WorkerLoadNum(w) PROVE FreshOne(m)'
    BY <1>17, <1>a DEF WorkerLoadNum
  <1>18. ASSUME NEW w \in Indexes, ResetIdx(w) PROVE FreshOne(m)'
    BY <1>18, <1>a DEF ResetIdx
  <1>19. ASSUME NEW w \in Indexes, Gc(w) PROVE FreshOne(m)'
    BY <1>19, <1>a DEF Gc
  <1> QED
    BY <1>1, <1>2, <1>3, <1>4, <1>5, <1>6, <1>7, <1>8, <1>9, <1>10, <1>11,
       <1>12, <1>13, <1>14, <1>15, <1>16, <1>17, <1>18, <1>19 DEF Next,
       EpollStep, TimerStep, WorkerStep

LEMMA KeepsFresh ==
  ASSUME CInv, Next, ~crashed'
  PROVE  Fresh'
  <1> SUFFICES ASSUME NEW m \in All' PROVE FreshOne(m)'
    BY DEF Fresh, FreshOne
  <1>1. CASE m \in All
    <2>1. m.event \in Nat /\ m.i \in Nat
      BY <1>1, DispatchAssumption, AllPlaces
         DEF Message, WorkerHas, EpollHas, TimerHas, CInv, TypeOK, ListTypes, EpollTypes,
             InHand, HistoryTypes
    <2>2. FreshOne(m)
      BY <1>1 DEF Next, CInv, Fresh
    <2> QED
      BY <2>1, <2>2, StaysFresh
  <1>2. CASE m \notin All /\ AddNum
    <2>1. m \in ebatch
      BY <1>2, AddNumPlaces DEF Next
    <2> QED
      BY <1>2, <2>1, DispatchAssumption
         DEF AddNum, FreshOne, timer, CInv, InHand, TypeOK, HistoryTypes
  <1>3. CASE m \notin All /\ FireAddNum
    <2>1. m = tmsg
      BY <1>3, FireAddNumPlaces DEF Next
    <2> QED
      BY <1>3, <2>1, DispatchAssumption
         DEF FireAddNum, FreshOne, epoll, CInv, InHand, TypeOK, HistoryTypes
  <1> QED
    BY <1>1, <1>2, <1>3, KeepsCounted

(* The counting invariant holds in every state.                            *)
LEMMA NextCInv ==
  ASSUME CInv, [Next]_vars
  PROVE  CInv'
  <1>1. CASE Next
    <2>1. TypeOK' /\ InHand' /\ Scanned'
      BY <1>1, KeepsTypes, KeepsInHand
    <2>2. ASSUME ~crashed' PROVE Fresh' /\ Apart' /\ Counted'
      BY <1>1, <2>2, KeepsFresh, KeepsCounted
    <2> QED
      BY <2>1, <2>2 DEF CInv
  <1>2. CASE UNCHANGED vars
    <2> USE <1>2 DEF vars, counts, epoll, timer, workers
    <2>1. TypeOK'
      BY DEF CInv, TypeOK, CountTypes, ListTypes, EpollTypes, TimerTypes, WorkerTypes,
             HistoryTypes
    <2>2. InHand' /\ Scanned'
      BY DEF CInv, InHand, Scanned
    <2>3. Still /\ num' = num /\ crashed' = crashed
      BY DEF Still, EpollHas, TimerHas, WorkerHas
    <2>4. ASSUME ~crashed PROVE Apart' /\ All' = All
      BY <2>3, <2>4, StillPlaces DEF CInv
    <2>5. ASSUME ~crashed PROVE Fresh' /\ Counted'
      BY <2>3, <2>4, <2>5, OthersCount DEF CInv, Fresh, FreshOne
    <2> QED
      BY <2>1, <2>2, <2>3, <2>4, <2>5 DEF CInv
  <1> QED
    BY <1>1, <1>2

(* Every variable has its type in every behaviour: no client's number of   *)
(* tasks is ever negative (ClassPthreadMgr.cpp:367-377).                   *)
THEOREM DispatchTypeOK == Spec => []TypeOK
  <1>1. Init => CInv
    BY InitInv DEF IInv
  <1>2. CInv /\ [Next]_vars => CInv'
    BY NextCInv
  <1>3. CInv => TypeOK
    BY DEF CInv
  <1> QED
    BY <1>1, <1>2, <1>3, PTL DEF Spec

(* Until a thread uses task list -1, every client's number is the count of *)
(* its messages that are counted and not uncounted.                        *)
THEOREM CountIsExact == Spec => []CountIsPendingOrLeaked
  <1>1. Init => CInv
    BY InitInv DEF IInv
  <1>2. CInv /\ [Next]_vars => CInv'
    BY NextCInv
  <1>3. CInv => CountIsPendingOrLeaked
    BY DEF CInv, CountIsPendingOrLeaked, Counted, All
  <1> QED
    BY <1>1, <1>2, <1>3, PTL DEF Spec

(* As long as the timer has put nothing, it takes no step.                 *)
LEMMA NoTimer ==
  ASSUME CInv, OneHome, Next, fires' = 0
  PROVE  fires = 0 /\ tpc = "idle" /\ ~TimerStep /\ tpc' = "idle"
  <1>1. fires = 0 /\ ~\E c \in Clients : Fire(c)
    BY DispatchAssumption
       DEF Next, EpollStep, TimerStep, WorkerStep, CInv, TypeOK, HistoryTypes, Scan, ReadEvent,
           LoadNum, AddNum, SetIdx, PutLimited, Flush, Fire, FireLoadNum, FireSetIdx,
           FireLoadIdx, FireAddNum, FirePut, Take, Run, SubNum, WorkerLoadNum, ResetIdx, Gc
  <1>2. tpc = "idle"
    BY <1>1 DEF OneHome
  <1>3. ~TimerStep
    BY <1>1, <1>2 DEF TimerStep, FireLoadNum, FireSetIdx, FireLoadIdx, FireAddNum, FirePut
  <1>4. tpc' = tpc
    BY <1>3 DEF Next, EpollStep, WorkerStep, Scan, ReadEvent, LoadNum, AddNum, SetIdx,
                PutLimited, Flush, Take, Run, SubNum, WorkerLoadNum, ResetIdx, Gc, timer
  <1> QED
    BY <1>1, <1>2, <1>3, <1>4

(* Without the timer only a put of the epoll thread brings a worker a      *)
(* message of a client of which it has none.                               *)
LEMMA OnlyPutsBring ==
  ASSUME CInv, Next, ~TimerStep, ~PutLimited, ~Flush, NEW c, NEW k \in Indexes, Here(c, k)'
  PROVE  Here(c, k)
  <1> USE DEF Here, CInv, TypeOK, ListTypes, WorkerTypes, Goto, workers
  <1>1. CASE Scan
    BY <1>1 DEF Scan
  <1>2. ASSUME NEW d \in Clients, ReadEvent(d) PROVE Here(c, k)
    BY <1>2 DEF ReadEvent
  <1>3. CASE LoadNum
    BY <1>3 DEF LoadNum
  <1>4. CASE AddNum
    BY <1>4 DEF AddNum
  <1>5. CASE SetIdx
    BY <1>5 DEF SetIdx
  <1>14. ASSUME NEW w \in Indexes, Take(w) PROVE Here(c, k)
    BY <1>14 DEF Take
  <1>15. ASSUME NEW w \in Indexes, Run(w) PROVE Here(c, k)
    BY <1>15 DEF Run
  <1>16. ASSUME NEW w \in Indexes, SubNum(w) PROVE Here(c, k)
    BY <1>16 DEF SubNum
  <1>17. ASSUME NEW w \in Indexes, WorkerLoadNum(w) PROVE Here(c, k)
    BY <1>17 DEF WorkerLoadNum
  <1>18. ASSUME NEW w \in Indexes, ResetIdx(w) PROVE Here(c, k)
    BY <1>18 DEF ResetIdx
  <1>19. ASSUME NEW w \in Indexes, Gc(w) PROVE Here(c, k)
    BY <1>19 DEF Gc
  <1> QED
    BY <1>1, <1>2, <1>3, <1>4, <1>5, <1>14, <1>15, <1>16, <1>17, <1>18, <1>19
       DEF Next, EpollStep, TimerStep, WorkerStep

LEMMA PutLimitedBrings ==
  ASSUME CInv, OneHome, fires = 0, PutLimited, NEW c \in Clients, NEW k \in Indexes, Here(c, k)'
  PROVE  Here(c, k) \/ (c = ecl /\ k = eidx)
  BY DEF PutLimited, Put, Here, CInv, TypeOK, ListTypes, InHand, workers

LEMMA FlushBrings ==
  ASSUME CInv, OneHome, fires = 0, Flush, NEW c \in Clients, NEW k \in Indexes, Here(c, k)'
  PROVE  Here(c, k) \/ (k = minIdx /\ \E m \in noLimit : m.client = c)
  BY DEF Flush, Put, Here, CInv, TypeOK, ListTypes, workers

(* A number of zero says that no worker has a message of the client.       *)
LEMMA ZeroIsNowhere ==
  ASSUME CInv, ~crashed, NEW c \in Clients, num[c] <= 0, NEW k \in Indexes
  PROVE  ~Here(c, k)
  <1>1. IsFiniteSet(Of(c, All)) /\ num[c] = Cardinality(Of(c, All)) /\ num[c] \in Nat
    BY DEF CInv, Counted, TypeOK, CountTypes
  <1>2. num[c] = 0
    BY <1>1
  <1>3. Of(c, All) = {}
    BY <1>1, <1>2, FS_EmptySet
  <1>4. \A m \in inbox[k] \cup WorkerHas(k) : m \in All
    BY AllPlaces
  <1> QED
    BY <1>3, <1>4 DEF Of, Here, WorkerHas

LEMMA KeepsGathered ==
  ASSUME CInv, OneHome, Next, fires' = 0, NEW c \in Clients
  PROVE  Gathered(c)'
  <1>a. fires = 0 /\ ~TimerStep
    BY NoTimer
  <1>b. Gathered(c) /\ Loaded
    BY <1>a DEF OneHome
  <1>c. /\ idx \in [Clients -> -1..(ListCount - 1)]
        /\ epc = "scan" => noLimit = {}
        /\ \A w \in Indexes : wpc[w] # "idle" => wmsg[w].client \in Clients
        /\ epc \notin {"scan", "events"} => ecl \in Clients
        /\ \A m \in ebatch : m.client = ecl
    BY DEF CInv, TypeOK, CountTypes, InHand, Scanned, Message
  <1>d. ~PutLimited /\ ~Flush => \A j \in Indexes : Here(c, j)' => Here(c, j)
    BY <1>a, OnlyPutsBring
  <1> USE DEF Home, Gathered, counts, epoll
  <1>1. CASE Scan
    BY <1>1, <1>b, <1>c, <1>d DEF Scan, Flush, PutLimited
  <1>2. ASSUME NEW d \in Clients, ReadEvent(d) PROVE Gathered(c)'
    BY <1>2, <1>b, <1>c, <1>d DEF ReadEvent, Flush, PutLimited
  <1>3. CASE LoadNum
    BY <1>3, <1>b, <1>c, <1>d DEF LoadNum, Flush, PutLimited
  <1>4. CASE AddNum
    BY <1>4, <1>b, <1>c, <1>d DEF AddNum, Flush, PutLimited
  <1>5. CASE SetIdx
    BY <1>5, <1>b, <1>c, <1>d DEF SetIdx, Flush, PutLimited, Loaded
  <1>6. CASE PutLimited
    <2>1. \A j \in Indexes : Here(c, j)' => Here(c, j) \/ (c = ecl /\ j = eidx)
      BY <1>6, <1>a, PutLimitedBrings
    <2>2. UNCHANGED <<idx, minIdx, noLimit, handled>>
      BY <1>6 DEF PutLimited
    <2>3. CASE c = ecl /\ eidx # -1
      <3>1. /\ idx[c] \in {-1, eidx} /\ \A j \in Indexes \ {eidx} : ~Here(c, j)
            /\ \A m \in noLimit : m.client # c
        BY <1>6, <1>b, <2>3 DEF PutLimited, Loaded
      <3>2. \A j \in Indexes \ {eidx} : ~Here(c, j)'
        BY <2>1, <3>1
      <3>3. eidx \in Indexes
        BY <2>3, IndexTypes DEF CInv, TypeOK, EpollTypes
      <3> QED
        BY <2>2, <3>1, <3>2, <3>3
    <2>4. CASE c # ecl \/ eidx = -1
      <3>1. \A j \in Indexes : Here(c, j)' => Here(c, j)
        BY <2>1, <2>4, IndexTypes
      <3> QED
        BY <1>b, <2>2, <3>1
    <2> QED
      BY <2>3, <2>4
  <1>7. CASE Flush
    <2>1. \A j \in Indexes : Here(c, j)' =>
             Here(c, j) \/ (j = minIdx /\ \E m \in noLimit : m.client = c)
      BY <1>7, <1>a, FlushBrings
    <2>2. UNCHANGED <<idx, minIdx>> /\ noLimit' = {}
      BY <1>7 DEF Flush
    <2>3. minIdx \in Indexes
      BY <1>7 DEF Flush, CInv, Scanned
    <2> QED
      BY <1>b, <1>c, <2>1, <2>2, <2>3
  <1>14. ASSUME NEW w \in Indexes, Take(w) PROVE Gathered(c)'
    BY <1>14, <1>b, <1>c, <1>d DEF Take, Flush, PutLimited
  <1>15. ASSUME NEW w \in Indexes, Run(w) PROVE Gathered(c)'
    BY <1>15, <1>b, <1>c, <1>d DEF Run, Flush, PutLimited
  <1>16. ASSUME NEW w \in Indexes, SubNum(w) PROVE Gathered(c)'
    BY <1>16, <1>b, <1>c, <1>d DEF SubNum, Flush, PutLimited
  <1>17. ASSUME NEW w \in Indexes, WorkerLoadNum(w) PROVE Gathered(c)'
    BY <1>17, <1>b, <1>c, <1>d DEF WorkerLoadNum, Flush, PutLimited
  <1>18. ASSUME NEW w \in Indexes, ResetIdx(w) PROVE Gathered(c)'
    BY <1>18, <1>b, <1>c, <1>d DEF ResetIdx, Flush, PutLimited
  <1>19. ASSUME NEW w \in Indexes, Gc(w) PROVE Gathered(c)'
    BY <1>19, <1>b, <1>c, <1>d DEF Gc, Flush, PutLimited
  <1> QED
    BY <1>a, <1>1, <1>2, <1>3, <1>4, <1>5, <1>6, <1>7, <1>14, <1>15, <1>16, <1>17,
       <1>18, <1>19 DEF Next, EpollStep, TimerStep, WorkerStep

LEMMA KeepsLoaded ==
  ASSUME CInv, OneHome, Next, fires' = 0
  PROVE  Loaded'
  <1>a. fires = 0 /\ ~TimerStep
    BY NoTimer
  <1>b. Loaded
    BY <1>a DEF OneHome
  <1>c. /\ idx \in [Clients -> -1..(ListCount - 1)]
        /\ \A w \in Indexes : wpc[w] # "idle" => wmsg[w].client \in Clients
        /\ epc \notin {"scan", "events"} => ecl \in Clients
    BY DEF CInv, TypeOK, CountTypes, InHand, Message
  <1>d. ~PutLimited /\ ~Flush => \A d, j : j \in Indexes /\ Here(d, j)' => Here(d, j)
    BY <1>a, OnlyPutsBring
  <1> USE DEF Home, Loaded, counts, epoll
  <1>1. CASE Scan
    BY <1>1 DEF Scan
  <1>2. ASSUME NEW d \in Clients, ReadEvent(d) PROVE Loaded'
    <2>1. Gathered(d)
      BY <1>a DEF OneHome
    <2>2. \A j \in Indexes : Here(d, j)' => Here(d, j)
      BY <1>2, <1>d DEF ReadEvent, Flush, PutLimited
    <2> QED
      BY <1>2, <1>b, <2>1, <2>2 DEF ReadEvent, Gathered
  <1>3. CASE LoadNum
    <2>1. num[ecl] <= 0 => \A j \in Indexes : ~Here(ecl, j)
      BY <1>3, <1>c, ZeroIsNowhere DEF LoadNum, Next
    <2>2. \A j \in Indexes : Here(ecl, j)' => Here(ecl, j)
      BY <1>3, <1>d DEF LoadNum, Flush, PutLimited
    <2> QED
      BY <1>3, <1>b, <2>1, <2>2 DEF LoadNum
  <1>4. CASE AddNum
    BY <1>4, <1>b, <1>c, <1>d DEF AddNum, Flush, PutLimited
  <1>5. CASE SetIdx
    BY <1>5 DEF SetIdx
  <1>6. CASE PutLimited
    BY <1>6 DEF PutLimited
  <1>7. CASE Flush
    BY <1>7 DEF Flush
  <1>14. ASSUME NEW w \in Indexes, Take(w) PROVE Loaded'
    BY <1>14, <1>b, <1>c, <1>d DEF Take, Flush, PutLimited
  <1>15. ASSUME NEW w \in Indexes, Run(w) PROVE Loaded'
    BY <1>15, <1>b, <1>c, <1>d DEF Run, Flush, PutLimited
  <1>16. ASSUME NEW w \in Indexes, SubNum(w) PROVE Loaded'
    BY <1>16, <1>b, <1>c, <1>d DEF SubNum, Flush, PutLimited
  <1>17. ASSUME NEW w \in Indexes, WorkerLoadNum(w) PROVE Loaded'
    BY <1>17, <1>b, <1>c, <1>d DEF WorkerLoadNum, Flush, PutLimited
  <1>18. ASSUME NEW w \in Indexes, ResetIdx(w) PROVE Loaded'
    BY <1>18, <1>b, <1>c, <1>d DEF ResetIdx, Flush, PutLimited
  <1>19. ASSUME NEW w \in Indexes, Gc(w) PROVE Loaded'
    BY <1>19, <1>b, <1>c, <1>d DEF Gc, Flush, PutLimited
  <1> QED
    BY <1>a, <1>1, <1>2, <1>3, <1>4, <1>5, <1>6, <1>7, <1>14, <1>15, <1>16, <1>17,
       <1>18, <1>19 DEF Next, EpollStep, TimerStep, WorkerStep

LEMMA NextInv ==
  ASSUME IInv, [Next]_vars
  PROVE  IInv'
  <1>1. CInv'
    BY NextCInv DEF IInv
  <1>2. CASE Next
    <2>1. ASSUME fires' = 0 PROVE tpc' = "idle" /\ (\A c \in Clients : Gathered(c)') /\ Loaded'
      BY <1>2, <2>1, NoTimer, KeepsGathered, KeepsLoaded DEF IInv
    <2> QED
      BY <1>1, <2>1 DEF IInv, OneHome
  <1>3. CASE UNCHANGED vars
    BY <1>1, <1>3 DEF vars, counts, epoll, timer, workers, IInv, OneHome, Gathered, Loaded,
                      Home, Here
  <1> QED
    BY <1>2, <1>3

(* With any clients and any task lists: as long as epoll is the only       *)
(* producer, one client's messages are carried out by one worker at a time *)
(* (Client.h:16, ClassTcpNet.cpp:342-358, ClassPthreadMgr.cpp:372-377).    *)
THEOREM OneThreadWithoutTimer == Spec => []OneThreadUntilTimer
  <1>1. IInv => OneThreadUntilTimer
    <2> SUFFICES ASSUME IInv, fires = 0, NEW w \in Indexes, NEW v \in Indexes, w # v,
                        wpc[w] = "run", wpc[v] = "run", wmsg[w].client = wmsg[v].client
                 PROVE  FALSE
      BY DEF OneThreadUntilTimer, OneThreadPerClient
    <2>1. wmsg[w].client \in Clients
      BY DEF IInv, CInv, InHand, Message
    <2>2. PICK k \in Indexes : Home(wmsg[w].client, k)
      BY <2>1 DEF IInv, OneHome, Gathered
    <2> QED
      BY <2>2 DEF Home, Here
  <1> QED
    BY <1>1, InitInv, NextInv, PTL DEF Spec
==============================================================================
