--------------------------- MODULE SessionsProofs ----------------------------
(***************************************************************************)
(* Sessions, for any clients, descriptors, users, workers and bounds:      *)
(* types and WatchedIsMapped; NeverOvercounted; OnlineClientsLive; and     *)
(* MapsAgree.                                                              *)
(***************************************************************************)
EXTENDS Sessions, FiniteSetTheorems, TLAPS

(* The epoll thread puts or closes after a read that completed messages. *)
BatchInHand == epc # "events" => reads > 0 /\ batch # <<>>

(* A busy worker has a message; logging a user in or out it has the user   *)
(* and a message that asks for it.                                         *)
MsgInHand ==
    \A w \in Workers :
        /\ pc[w] # "idle" => msg[w] \in Message
        /\ pc[w] \in {"login"} \cup LoggingIn => msg[w].kind = "login"
        /\ pc[w] \in LoggingOut => msg[w].kind = "logout"
        /\ pc[w] \in LoggingIn \cup LoggingOut => user[w] \in Users

(* The clients online and the clients to be replaced have had an object. *)
Born == /\ \A u \in Users : byUid[u] # None => heap[byUid[u]] # "none"
        /\ \A w \in Workers : old[w] # None => heap[old[w]] # "none"

TInv == TypeOK /\ BatchInHand /\ MsgInHand /\ Born /\ WatchedIsMapped

------------------------------------------------------------------------------
(* What one read completes: messages of the client, no more logins than it *)
(* may still ask for.                                                      *)
LEMMA SendsAreMessages ==
  ASSUME HistoryTypes, NEW c \in Clients, NEW s \in Sends(c)
  PROVE  /\ s \in Seq(Message) /\ Logins(s) \in Nat
         /\ \A i \in DOMAIN s : s[i].client = c
         /\ logins[c] + Logins(s) \in 0..MaxLogins
  <1> USE SessionsAssumption
  <1>1. PICK n \in 0..MaxBatch : s \in [1..n -> {m \in Message : m.client = c}]
    BY DEF Sends
  <1>2. s \in Seq(Message) /\ Len(s) = n /\ n \in Nat
    BY <1>1
  <1>3. Logins(s) \in Nat
    <2>1. IsFiniteSet(1..n)
      BY <1>2, FS_Interval
    <2>2. {i \in DOMAIN s : s[i].kind = "login"} \subseteq 1..n
      BY <1>1
    <2> QED
      BY <2>1, <2>2, FS_Subset, FS_CardinalityType DEF Logins
  <1>4. logins[c] + Logins(s) <= MaxLogins
    BY DEF Sends
  <1>5. logins[c] \in Nat
    BY DEF HistoryTypes
  <1> QED
    BY <1>1, <1>2, <1>3, <1>4, <1>5

(* The batch a worker goes on with or begins is not empty. *)
LEMMA BatchToTake ==
  ASSUME ListTypes, NEW w \in Workers,
         NEW b \in (IF rest[w] = <<>> THEN queue[w] ELSE {<<0, rest[w]>>})
  PROVE  /\ b[2] \in Seq(Message) /\ b[2] # <<>>
         /\ Head(b[2]) \in Message /\ Tail(b[2]) \in Seq(Message)
  <1>1. b[2] \in Seq(Message) /\ b[2] # <<>>
    <2>1. CASE rest[w] = <<>>
      BY <2>1 DEF ListTypes
    <2>2. CASE rest[w] # <<>>
      BY <2>2 DEF ListTypes
    <2> QED
      BY <2>1, <2>2
  <1> QED
    BY <1>1

LEMMA InitTypes == Init => TInv
  <1> SUFFICES ASSUME Init PROVE TInv
    OBVIOUS
  <1> USE SessionsAssumption DEF Init
  <1>1. KernelTypes /\ TableTypes /\ HeapTypes
    BY DEF KernelTypes, TableTypes, HeapTypes
  <1>2. EpollTypes /\ ListTypes /\ WorkerTypes /\ HistoryTypes
    <2>1. EpollTypes
      BY DEF EpollTypes
    <2>2. ListTypes
      BY DEF ListTypes
    <2>3. WorkerTypes
      BY DEF WorkerTypes, Labels
    <2>4. HistoryTypes
      <3>1. reads \in 0..MaxReads /\ logins \in [Clients -> 0..MaxLogins]
        OBVIOUS
      <3>2. fault \in BOOLEAN
        OBVIOUS
      <3> QED
        BY <3>1, <3>2 DEF HistoryTypes
    <2> QED
      BY <2>1, <2>2, <2>3, <2>4
  <1>3. BatchInHand /\ MsgInHand /\ Born /\ WatchedIsMapped
    BY DEF BatchInHand, MsgInHand, LoggingIn, LoggingOut, Born, WatchedIsMapped
  <1> QED
    BY <1>1, <1>2, <1>3 DEF TInv, TypeOK

(* A worker's step keeps the types. *)
LEMMA WorkerKeepsTypes ==
  ASSUME TInv, NEW w \in Workers, WorkerStep(w)
  PROVE  TypeOK'
  <1> USE SessionsAssumption
          DEF TInv, TypeOK, KernelTypes, TableTypes, HeapTypes, EpollTypes, ListTypes,
              WorkerTypes, HistoryTypes, Labels, MsgInHand, LoggingIn, LoggingOut,
              Message, NoMessage, Goto, Alive, kernelSide, maps, objects, epoll,
              lists, workers, history, past, elsewhere
  <1>1. CASE Take(w)
    <2>1. PICK b \in (IF rest[w] = <<>> THEN queue[w] ELSE {<<0, rest[w]>>}) :
             /\ queue' = [queue EXCEPT ![w] = @ \ {b}]
             /\ rest' = [rest EXCEPT ![w] = Tail(b[2])]
             /\ msg' = [msg EXCEPT ![w] = Head(b[2])]
      BY <1>1 DEF Take
    <2>2. Head(b[2]) \in Message /\ Tail(b[2]) \in Seq(Message)
      BY BatchToTake
    <2>3. ListTypes' /\ msg' \in [Workers -> Message \cup {NoMessage}]
      BY <2>1, <2>2
    <2>4. pc' \in [Workers -> Labels]
      <3>1. PICK l \in {"login", "readUid"} : pc' = [pc EXCEPT ![w] = l]
        BY <1>1 DEF Take
      <3> QED
        BY <3>1
    <2>5. UNCHANGED <<elsewhere, user, old, again, crossed>>
      BY <1>1 DEF Take
    <2>6. HistoryTypes'
      BY <2>5
    <2>7. KernelTypes' /\ TableTypes' /\ HeapTypes' /\ EpollTypes'
      BY <2>5
    <2>8. WorkerTypes'
      BY <2>3, <2>4, <2>5
    <2> QED
      BY <2>3, <2>6, <2>7, <2>8
  <1>2. CASE Login(w)
    <2>1. UNCHANGED <<elsewhere, lists, msg, old>> /\ pc' \in [Workers -> Labels]
      BY <1>2 DEF Login
    <2>2. user' \in [Workers -> Users \cup {None}] /\ crossed' \subseteq Users
      BY <1>2 DEF Login, Begin
    <2>3. again' = again \/ again' = again \cup (entered \cap {msg[w].client})
      BY <1>2 DEF Login
    <2>4. HistoryTypes'
      BY <2>1, <2>2, <2>3
    <2>5. KernelTypes' /\ TableTypes' /\ HeapTypes' /\ EpollTypes' /\ ListTypes'
      BY <2>1
    <2>6. WorkerTypes'
      BY <2>1, <2>2
    <2> QED
      BY <2>4, <2>5, <2>6
  <1>3. CASE GetOld(w)
    BY <1>3 DEF GetOld
  <1>4. CASE EraseOld(w)
    BY <1>4 DEF EraseOld
  <1>5. CASE DeleteOldVm(w)
    BY <1>5 DEF DeleteOldVm
  <1>6. CASE CloseOld(w)
    BY <1>6 DEF CloseOld
  <1>7. CASE ForgetOld(w)
    BY <1>7 DEF ForgetOld
  <1>8. CASE UncountOld(w)
    BY <1>8 DEF UncountOld
  <1>9. CASE DropOld(w)
    BY <1>9 DEF DropOld
  <1>10. CASE FreeOld(w)
    BY <1>10 DEF FreeOld
  <1>11. CASE SetUid(w)
    BY <1>11 DEF SetUid
  <1>12. CASE AddVm(w)
    BY <1>12 DEF AddVm
  <1>13. CASE Load(w)
    BY <1>13 DEF Load
  <1>14. CASE AddUid(w)
    <2>1. entered \subseteq entered' /\ entered' \subseteq Clients
      BY <1>14 DEF AddUid
    <2>2. UNCHANGED <<fault, reads, logins, again, crossed>>
      BY <1>14 DEF AddUid
    <2>3. HistoryTypes'
      BY <2>1, <2>2
    <2>4. KernelTypes' /\ HeapTypes' /\ EpollTypes' /\ ListTypes' /\ WorkerTypes'
      BY <1>14 DEF AddUid
    <2>5. TableTypes'
      BY <1>14 DEF AddUid
    <2> QED
      BY <2>3, <2>4, <2>5
  <1>15. CASE AddSocket(w)
    BY <1>15 DEF AddSocket
  <1>16. CASE ReadUid(w)
    <2>1. crossed' \subseteq Users
      BY <1>16 DEF ReadUid, Begin
    <2>2. UNCHANGED <<elsewhere, again>>
      BY <1>16 DEF ReadUid
    <2>3. HistoryTypes'
      BY <2>1, <2>2
    <2>4. KernelTypes' /\ TableTypes' /\ HeapTypes' /\ EpollTypes'
      BY <2>2
    <2>5. ListTypes' /\ WorkerTypes'
      BY <1>16 DEF ReadUid
    <2> QED
      BY <2>3, <2>4, <2>5
  <1>17. CASE Run(w)
    BY <1>17 DEF Run
  <1>18. CASE FindOut(w)
    BY <1>18 DEF FindOut
  <1>19. CASE EraseOut(w)
    BY <1>19 DEF EraseOut
  <1>20. CASE FreeOut(w)
    BY <1>20 DEF FreeOut
  <1>21. CASE DeleteVm(w)
    BY <1>21 DEF DeleteVm
  <1>22. CASE Drop(w)
    BY <1>22 DEF Drop
  <1>23. CASE Finish(w)
    BY <1>23 DEF Finish
  <1> QED
    BY <1>1, <1>2, <1>3, <1>4, <1>5, <1>6, <1>7, <1>8, <1>9, <1>10, <1>11,
       <1>12, <1>13, <1>14, <1>15, <1>16, <1>17, <1>18, <1>19, <1>20, <1>21,
       <1>22, <1>23 DEF WorkerStep

(* A worker's step keeps what the workers have in hand. *)
LEMMA WorkerKeepsMsg ==
  ASSUME TInv, NEW w \in Workers, WorkerStep(w)
  PROVE  BatchInHand' /\ MsgInHand'
  <1> USE SessionsAssumption
          DEF TInv, TypeOK, WorkerTypes, HeapTypes, MsgInHand, BatchInHand, LoggingIn,
              LoggingOut, Message, NoMessage, Goto, Alive, kernelSide, maps, objects,
              epoll, lists, workers, history, past, elsewhere
  <1>1. CASE Take(w)
    <2>1. PICK b \in (IF rest[w] = <<>> THEN queue[w] ELSE {<<0, rest[w]>>}) :
             /\ msg' = [msg EXCEPT ![w] = Head(b[2])]
             /\ pc' = [pc EXCEPT ![w] = IF Head(b[2]).kind = "login" THEN "login"
                                       ELSE "readUid"]
      BY <1>1 DEF Take
    <2>2. Head(b[2]) \in Message
      BY BatchToTake
    <2>3. UNCHANGED <<epc, reads, batch, user>>
      BY <1>1 DEF Take
    <2> QED
      BY <2>1, <2>2, <2>3
  <1>2. CASE Login(w)
    BY <1>2 DEF Login
  <1>3. CASE GetOld(w)
    BY <1>3 DEF GetOld
  <1>4. CASE EraseOld(w)
    BY <1>4 DEF EraseOld
  <1>5. CASE DeleteOldVm(w)
    BY <1>5 DEF DeleteOldVm
  <1>6. CASE CloseOld(w)
    BY <1>6 DEF CloseOld
  <1>7. CASE ForgetOld(w)
    BY <1>7 DEF ForgetOld
  <1>8. CASE UncountOld(w)
    BY <1>8 DEF UncountOld
  <1>9. CASE DropOld(w)
    BY <1>9 DEF DropOld
  <1>10. CASE FreeOld(w)
    BY <1>10 DEF FreeOld
  <1>11. CASE SetUid(w)
    BY <1>11 DEF SetUid
  <1>12. CASE AddVm(w)
    BY <1>12 DEF AddVm
  <1>13. CASE Load(w)
    BY <1>13 DEF Load
  <1>14. CASE AddUid(w)
    BY <1>14 DEF AddUid
  <1>15. CASE AddSocket(w)
    BY <1>15 DEF AddSocket
  <1>16. CASE ReadUid(w)
    BY <1>16 DEF ReadUid
  <1>17. CASE Run(w)
    BY <1>17 DEF Run
  <1>18. CASE FindOut(w)
    BY <1>18 DEF FindOut
  <1>19. CASE EraseOut(w)
    BY <1>19 DEF EraseOut
  <1>20. CASE FreeOut(w)
    BY <1>20 DEF FreeOut
  <1>21. CASE DeleteVm(w)
    BY <1>21 DEF DeleteVm
  <1>22. CASE Drop(w)
    BY <1>22 DEF Drop
  <1>23. CASE Finish(w)
    BY <1>23 DEF Finish
  <1> QED
    BY <1>1, <1>2, <1>3, <1>4, <1>5, <1>6, <1>7, <1>8, <1>9, <1>10, <1>11,
       <1>12, <1>13, <1>14, <1>15, <1>16, <1>17, <1>18, <1>19, <1>20, <1>21,
       <1>22, <1>23 DEF WorkerStep

(* A worker's step keeps the watched descriptors mapped. *)
LEMMA WorkerKeepsWatched ==
  ASSUME TInv, NEW w \in Workers, WorkerStep(w)
  PROVE  Born' /\ WatchedIsMapped'
  <1> USE SessionsAssumption
          DEF TInv, TypeOK, KernelTypes, TableTypes, HeapTypes, WorkerTypes, Born,
              WatchedIsMapped, MsgInHand, LoggingIn, LoggingOut, Goto, Alive,
              kernelSide, maps, objects, epoll, lists, workers, history, past, elsewhere
  <1>1. CASE Take(w)
    BY <1>1 DEF Take
  <1>2. CASE Login(w)
    BY <1>2 DEF Login
  <1>3. CASE GetOld(w)
    BY <1>3 DEF GetOld
  <1>4. CASE EraseOld(w)
    BY <1>4 DEF EraseOld
  <1>5. CASE DeleteOldVm(w)
    BY <1>5 DEF DeleteOldVm
  <1>6. CASE CloseOld(w)
    BY <1>6 DEF CloseOld
  <1>7. CASE ForgetOld(w)
    BY <1>7 DEF ForgetOld
  <1>8. CASE UncountOld(w)
    BY <1>8 DEF UncountOld
  <1>9. CASE DropOld(w)
    BY <1>9 DEF DropOld
  <1>10. CASE FreeOld(w)
    BY <1>10 DEF FreeOld
  <1>11. CASE SetUid(w)
    BY <1>11 DEF SetUid
  <1>12. CASE AddVm(w)
    BY <1>12 DEF AddVm
  <1>13. CASE Load(w)
    BY <1>13 DEF Load
  <1>14. CASE AddUid(w)
    BY <1>14 DEF AddUid
  <1>15. CASE AddSocket(w)
    BY <1>15 DEF AddSocket
  <1>16. CASE ReadUid(w)
    BY <1>16 DEF ReadUid
  <1>17. CASE Run(w)
    BY <1>17 DEF Run
  <1>18. CASE FindOut(w)
    BY <1>18 DEF FindOut
  <1>19. CASE EraseOut(w)
    BY <1>19 DEF EraseOut
  <1>20. CASE FreeOut(w)
    BY <1>20 DEF FreeOut
  <1>21. CASE DeleteVm(w)
    BY <1>21 DEF DeleteVm
  <1>22. CASE Drop(w)
    BY <1>22 DEF Drop
  <1>23. CASE Finish(w)
    BY <1>23 DEF Finish
  <1> QED
    BY <1>1, <1>2, <1>3, <1>4, <1>5, <1>6, <1>7, <1>8, <1>9, <1>10, <1>11,
       <1>12, <1>13, <1>14, <1>15, <1>16, <1>17, <1>18, <1>19, <1>20, <1>21,
       <1>22, <1>23 DEF WorkerStep

LEMMA EpollWaitTypes ==
  ASSUME TInv, EpollWait
  PROVE  TInv'
  <1> USE DEF TInv, EpollWait, kernelSide, maps, objects, lists, workers, history, past
  <1>1. TypeOK'
    BY DEF TypeOK, KernelTypes, TableTypes, HeapTypes, EpollTypes, ListTypes,
           WorkerTypes, HistoryTypes
  <1> QED
    BY <1>1 DEF BatchInHand, MsgInHand, Born, WatchedIsMapped

LEMMA AcceptTypes ==
  ASSUME TInv, NEW c \in Clients, NEW f \in Fds, Accept(c, f)
  PROVE  TInv'
  <1> USE SessionsAssumption DEF TInv, Accept, epoll, lists, workers, history, past
  <1>1. TypeOK'
    BY DEF TypeOK, KernelTypes, TableTypes, HeapTypes, EpollTypes, ListTypes,
           WorkerTypes, HistoryTypes
  <1>2. BatchInHand' /\ MsgInHand'
    BY DEF BatchInHand, MsgInHand
  <1>3. Born' /\ WatchedIsMapped'
    BY DEF Born, WatchedIsMapped, TypeOK, KernelTypes, TableTypes, HeapTypes, WorkerTypes
  <1> QED
    BY <1>1, <1>2, <1>3

LEMMA ReadTypes ==
  ASSUME TInv, NEW f \in Fds, Read(f)
  PROVE  TInv'
  <1> USE SessionsAssumption DEF TInv
  <1> DEFINE c == byFd[f]
  <1>1. c \in Clients
    BY DEF Read, Alive, TypeOK, TableTypes
  <1>2. /\ ready' \subseteq Fds /\ reads' \in 1..MaxReads
        /\ watched' \subseteq watched
        /\ UNCHANGED <<kernel, maps, amount, objects, lists, workers, fault, past>>
    BY DEF Read, TypeOK, EpollTypes, HistoryTypes
  <1>3. /\ efd' \in Fds \cup {None} /\ ecl' \in Clients \cup {None}
        /\ epc' \in {"events", "put", "close"}
        /\ batch' \in Seq(Message) /\ (epc' # "events" => batch' # <<>>)
        /\ logins' \in [Clients -> 0..MaxLogins]
    <2>1. CASE UNCHANGED <<epc, efd, ecl, batch, logins>>
      BY <2>1 DEF Read, TypeOK, EpollTypes, HistoryTypes
    <2>2. CASE ~UNCHANGED <<epc, efd, ecl, batch, logins>>
      <3>1. PICK s \in Sends(c) :
               /\ efd' = f /\ ecl' = c
               /\ logins' = [logins EXCEPT ![c] = @ + Logins(s)]
               /\ \/ s # <<>> /\ batch' = s /\ epc' = "put"
                  \/ /\ batch' = Append(s, [client |-> c, kind |-> "logout", user |-> None])
                     /\ epc' = "close"
        BY <2>2 DEF Read
      <3>2. s \in Seq(Message) /\ logins[c] + Logins(s) \in 0..MaxLogins
        BY <1>1, SendsAreMessages DEF TypeOK
      <3>3. [client |-> c, kind |-> "logout", user |-> None] \in Message
        BY <1>1 DEF Message
      <3>4. logins' \in [Clients -> 0..MaxLogins]
        BY <3>1, <3>2 DEF TypeOK, HistoryTypes
      <3>5. batch' \in Seq(Message) /\ batch' # <<>>
        <4>1. CASE s # <<>> /\ batch' = s
          BY <3>2, <4>1
        <4>2. CASE batch' = Append(s, [client |-> c, kind |-> "logout", user |-> None])
          BY <3>2, <3>3, <4>2
        <4> QED
          BY <3>1, <4>1, <4>2
      <3> QED
        BY <1>1, <3>1, <3>4, <3>5
    <2> QED
      BY <2>1, <2>2
  <1>4. TypeOK'
    BY <1>2, <1>3 DEF TypeOK, KernelTypes, TableTypes, HeapTypes, EpollTypes, ListTypes,
                      WorkerTypes, HistoryTypes, maps, objects, lists, workers, past
  <1>5. BatchInHand' /\ MsgInHand' /\ Born' /\ WatchedIsMapped'
    BY <1>2, <1>3 DEF BatchInHand, MsgInHand, Born, WatchedIsMapped, maps, objects, workers
  <1> QED
    BY <1>4, <1>5

LEMMA CloseTypes ==
  ASSUME TInv, Close
  PROVE  TInv'
  <1> USE SessionsAssumption DEF TInv, Close, objects, lists, workers, history, past
  <1>1. TypeOK'
    <2>1. KernelTypes'
      BY DEF TypeOK, KernelTypes
    <2>2. byFd' \in [Fds -> Clients \cup {None}] /\ amount' \in Int
      <3>1. byFd \in [Fds -> Clients \cup {None}] /\ amount \in Int
        BY DEF TypeOK, TableTypes
      <3>2. byFd' = [byFd EXCEPT ![efd] = None] /\ amount' = amount - 1
        OBVIOUS
      <3> HIDE DEF TInv, Close
      <3>3. byFd' \in [Fds -> Clients \cup {None}]
        BY <3>1, <3>2
      <3>4. amount' \in Int
        BY <3>1, <3>2
      <3> QED
        BY <3>3, <3>4
    <2>3. TableTypes'
      BY <2>2 DEF TypeOK, TableTypes
    <2> QED
      BY <2>1, <2>3 DEF TypeOK, HeapTypes, EpollTypes, ListTypes, WorkerTypes, HistoryTypes
  <1>2. BatchInHand' /\ MsgInHand'
    BY DEF BatchInHand, MsgInHand
  <1>3. Born' /\ WatchedIsMapped'
    BY DEF Born, WatchedIsMapped, TypeOK, KernelTypes, TableTypes
  <1> QED
    BY <1>1, <1>2, <1>3

LEMMA PutBatchTypes ==
  ASSUME TInv, PutBatch
  PROVE  TInv'
  <1> USE SessionsAssumption DEF TInv, PutBatch, kernelSide, maps, objects, workers, history, past
  <1>1. ListTypes'
    <2>1. <<reads, batch>> \in (1..MaxReads) \X (Seq(Message) \ {<<>>})
      BY DEF TypeOK, EpollTypes, HistoryTypes, BatchInHand
    <2> QED
      BY <2>1 DEF TypeOK, ListTypes
  <1>2. TypeOK'
    BY <1>1 DEF TypeOK, KernelTypes, TableTypes, HeapTypes, EpollTypes, WorkerTypes,
                HistoryTypes
  <1> QED
    BY <1>2 DEF BatchInHand, MsgInHand, Born, WatchedIsMapped

LEMMA NextTypes == TInv /\ [Next]_vars => TInv'
  <1> SUFFICES ASSUME TInv, [Next]_vars PROVE TInv'
    OBVIOUS
  <1>1. CASE EpollStep
    BY <1>1, EpollWaitTypes, AcceptTypes, ReadTypes, CloseTypes, PutBatchTypes DEF EpollStep
  <1>2. ASSUME NEW w \in Workers, WorkerStep(w) PROVE TInv'
    BY <1>2, WorkerKeepsTypes, WorkerKeepsMsg, WorkerKeepsWatched DEF TInv
  <1>3. CASE Fault \/ UNCHANGED vars
    <2>1. UNCHANGED <<kernelSide, maps, amount, objects, epoll, lists, workers, history>>
          /\ fault' \in BOOLEAN
      BY <1>3 DEF Fault, vars, TInv, TypeOK, HistoryTypes
    <2> USE DEF kernelSide, maps, objects, epoll, lists, workers, history, past
    <2>2. TypeOK'
      BY <2>1 DEF TInv, TypeOK, KernelTypes, TableTypes, HeapTypes, EpollTypes,
                  ListTypes, WorkerTypes, HistoryTypes
    <2> QED
      BY <2>1, <2>2 DEF TInv, BatchInHand, MsgInHand, Born, WatchedIsMapped
  <1> QED
    BY <1>1, <1>2, <1>3 DEF Next

LEMMA Typed == Spec => []TInv
  BY InitTypes, NextTypes, PTL DEF Spec

(* TypeOK is an invariant: every table, object and list keeps its type. *)
THEOREM SessionsTypeOK == Spec => []TypeOK
  BY Typed, PTL DEF TInv

(* WatchedIsMapped is an invariant: whatever connections close, descriptors *)
(* are given out again and relogins close from other threads, epoll can     *)
(* look up what it watches (ClassTcpNet.cpp, CloseOldClient in Gate.cpp).   *)
THEOREM WatchedCanBeLookedUp == Spec => []WatchedIsMapped
  BY Typed, PTL DEF TInv

------------------------------------------------------------------------------
(* The connections that are open, and the workers that have closed one and *)
(* have still to uncount it.                                               *)
Open == {f \in Fds : kernel[f] # None}

Closing == {w \in Workers : pc[w] \in {"forgetOld", "uncountOld"}}

Counted == IsFiniteSet(Open) /\ IsFiniteSet(Closing) /\ NeverOvercounted

(* Without one element a set has at most one element less. *)
LEMMA WithoutOne ==
  ASSUME NEW S, IsFiniteSet(S), NEW x
  PROVE  IsFiniteSet(S \ {x}) /\ Cardinality(S \ {x}) >= Cardinality(S) - 1
  <1>1. Cardinality(S) \in Nat
    BY FS_CardinalityType
  <1>2. /\ IsFiniteSet(S \ {x})
        /\ Cardinality(S \ {x}) = IF x \in S THEN Cardinality(S) - 1 ELSE Cardinality(S)
    BY FS_RemoveElement
  <1> QED
    BY <1>1, <1>2

(* A step that opens and closes nothing and does not count. *)
LEMMA NotCounting ==
  ASSUME Counted, UNCHANGED <<kernel, amount>>, Closing' = Closing
  PROVE  Counted'
  BY DEF Counted, NeverOvercounted, Open, Closing

LEMMA AcceptCounts ==
  ASSUME TInv, Counted, NEW c \in Clients, NEW f \in Fds, Accept(c, f)
  PROVE  Counted'
  <1>1. Open' = Open \cup {f} /\ f \notin Open
    BY SessionsAssumption DEF Accept, Open, TInv, TypeOK, KernelTypes
  <1>2. Closing' = Closing /\ amount' = amount + 1
    BY DEF Accept, workers, Closing
  <1>3. /\ IsFiniteSet(Open') /\ Cardinality(Open') = Cardinality(Open) + 1
    BY <1>1, FS_AddElement DEF Counted
  <1>4. Cardinality(Open) \in Nat /\ Cardinality(Closing) \in Nat /\ amount \in Int
    BY FS_CardinalityType DEF Counted, TInv, TypeOK, TableTypes
  <1>5. amount <= Cardinality(Open) + Cardinality(Closing)
    BY DEF Counted, NeverOvercounted, Open, Closing
  <1>6. amount' <= Cardinality(Open') + Cardinality(Closing')
    BY <1>2, <1>3, <1>4, <1>5
  <1> QED
    BY <1>2, <1>3, <1>6 DEF Counted, NeverOvercounted, Open, Closing

LEMMA CloseCounts ==
  ASSUME TInv, Counted, Close
  PROVE  Counted'
  <1>1. Open' = Open \ {efd}
    BY DEF Close, Open, TInv, TypeOK, KernelTypes
  <1>2. Closing' = Closing /\ amount' = amount - 1
    BY DEF Close, workers, Closing
  <1>3. IsFiniteSet(Open') /\ Cardinality(Open') >= Cardinality(Open) - 1
    BY <1>1, WithoutOne DEF Counted
  <1>4. /\ Cardinality(Open) \in Nat /\ Cardinality(Open') \in Nat
        /\ Cardinality(Closing) \in Nat /\ amount \in Int
    BY <1>3, FS_CardinalityType DEF Counted, TInv, TypeOK, TableTypes
  <1>5. amount <= Cardinality(Open) + Cardinality(Closing)
    BY DEF Counted, NeverOvercounted, Open, Closing
  <1>6. amount' <= Cardinality(Open') + Cardinality(Closing')
    BY <1>2, <1>3, <1>4, <1>5
  <1> QED
    BY <1>2, <1>3, <1>6 DEF Counted, NeverOvercounted, Open, Closing

LEMMA CloseOldCounts ==
  ASSUME TInv, Counted, NEW w \in Workers, CloseOld(w)
  PROVE  Counted'
  <1>1. Open' = Open \ {fd[old[w]]}
    BY DEF CloseOld, Open, TInv, TypeOK, KernelTypes
  <1>2. Closing' = Closing \cup {w} /\ w \notin Closing /\ amount' = amount
    BY DEF CloseOld, Goto, Closing, TInv, TypeOK, WorkerTypes
  <1>3. IsFiniteSet(Open') /\ Cardinality(Open') >= Cardinality(Open) - 1
    BY <1>1, WithoutOne DEF Counted
  <1>4. IsFiniteSet(Closing') /\ Cardinality(Closing') = Cardinality(Closing) + 1
    BY <1>2, FS_AddElement DEF Counted
  <1>5. /\ Cardinality(Open) \in Nat /\ Cardinality(Open') \in Nat
        /\ Cardinality(Closing) \in Nat /\ amount \in Int
    BY <1>3, FS_CardinalityType DEF Counted, TInv, TypeOK, TableTypes
  <1>6. amount <= Cardinality(Open) + Cardinality(Closing)
    BY DEF Counted, NeverOvercounted, Open, Closing
  <1>7. amount' <= Cardinality(Open') + Cardinality(Closing')
    BY <1>2, <1>3, <1>4, <1>5, <1>6
  <1> QED
    BY <1>3, <1>4, <1>7 DEF Counted, NeverOvercounted, Open, Closing

LEMMA UncountOldCounts ==
  ASSUME TInv, Counted, NEW w \in Workers, UncountOld(w)
  PROVE  Counted'
  <1>1. Open' = Open /\ amount' = amount - 1
    BY DEF UncountOld, Open
  <1>2. Closing' = Closing \ {w} /\ w \in Closing
    BY DEF UncountOld, Goto, Closing, TInv, TypeOK, WorkerTypes
  <1>3. IsFiniteSet(Closing') /\ Cardinality(Closing') = Cardinality(Closing) - 1
    BY <1>2, FS_RemoveElement DEF Counted
  <1>4. Cardinality(Open) \in Nat /\ Cardinality(Closing) \in Nat /\ amount \in Int
    BY FS_CardinalityType DEF Counted, TInv, TypeOK, TableTypes
  <1>5. amount <= Cardinality(Open) + Cardinality(Closing)
    BY DEF Counted, NeverOvercounted, Open, Closing
  <1>6. amount' <= Cardinality(Open') + Cardinality(Closing')
    BY <1>1, <1>3, <1>4, <1>5
  <1> QED
    BY <1>1, <1>3, <1>6 DEF Counted, NeverOvercounted, Open, Closing

(* Of the worker's steps only CloseOld and UncountOld count. *)
LEMMA WorkerCounts ==
  ASSUME TInv, Counted, NEW w \in Workers, WorkerStep(w)
  PROVE  Counted'
  <1> USE DEF kernelSide, elsewhere, Goto, Closing, TInv, TypeOK, WorkerTypes
  <1>1. CASE Take(w)
    BY <1>1, NotCounting DEF Take
  <1>2. CASE Login(w)
    BY <1>2, NotCounting DEF Login
  <1>3. CASE GetOld(w)
    BY <1>3, NotCounting DEF GetOld
  <1>4. CASE EraseOld(w)
    BY <1>4, NotCounting DEF EraseOld
  <1>5. CASE DeleteOldVm(w)
    BY <1>5, NotCounting DEF DeleteOldVm
  <1>6. CASE CloseOld(w)
    BY <1>6, CloseOldCounts
  <1>7. CASE ForgetOld(w)
    BY <1>7, NotCounting DEF ForgetOld
  <1>8. CASE UncountOld(w)
    BY <1>8, UncountOldCounts
  <1>9. CASE DropOld(w)
    BY <1>9, NotCounting DEF DropOld
  <1>10. CASE FreeOld(w)
    BY <1>10, NotCounting DEF FreeOld
  <1>11. CASE SetUid(w)
    BY <1>11, NotCounting DEF SetUid
  <1>12. CASE AddVm(w)
    BY <1>12, NotCounting DEF AddVm
  <1>13. CASE Load(w)
    BY <1>13, NotCounting DEF Load
  <1>14. CASE AddUid(w)
    BY <1>14, NotCounting DEF AddUid
  <1>15. CASE AddSocket(w)
    BY <1>15, NotCounting DEF AddSocket
  <1>16. CASE ReadUid(w)
    BY <1>16, NotCounting DEF ReadUid
  <1>17. CASE Run(w)
    BY <1>17, NotCounting DEF Run
  <1>18. CASE FindOut(w)
    BY <1>18, NotCounting DEF FindOut
  <1>19. CASE EraseOut(w)
    BY <1>19, NotCounting DEF EraseOut
  <1>20. CASE FreeOut(w)
    BY <1>20, NotCounting DEF FreeOut
  <1>21. CASE DeleteVm(w)
    BY <1>21, NotCounting DEF DeleteVm
  <1>22. CASE Drop(w)
    BY <1>22, NotCounting DEF Drop
  <1>23. CASE Finish(w)
    BY <1>23, NotCounting DEF Finish
  <1> QED
    BY <1>1, <1>2, <1>3, <1>4, <1>5, <1>6, <1>7, <1>8, <1>9, <1>10, <1>11,
       <1>12, <1>13, <1>14, <1>15, <1>16, <1>17, <1>18, <1>19, <1>20, <1>21,
       <1>22, <1>23 DEF WorkerStep

LEMMA InitCounts == Init => Counted
  <1> SUFFICES ASSUME Init PROVE Counted
    OBVIOUS
  <1>1. Open = {} /\ Closing = {} /\ amount = 0
    BY DEF Init, Open, Closing
  <1>2. IsFiniteSet(Open) /\ IsFiniteSet(Closing)
    BY <1>1, FS_EmptySet
  <1>3. Cardinality(Open) = 0 /\ Cardinality(Closing) = 0
    BY <1>1, FS_EmptySet
  <1>4. amount <= Cardinality(Open) + Cardinality(Closing)
    BY <1>1, <1>3
  <1> QED
    BY <1>2, <1>4 DEF Counted, NeverOvercounted, Open, Closing

LEMMA NextCounts == TInv /\ Counted /\ [Next]_vars => Counted'
  <1> SUFFICES ASSUME TInv, Counted, [Next]_vars PROVE Counted'
    OBVIOUS
  <1>1. CASE EpollWait \/ (\E f \in Fds : Read(f)) \/ PutBatch \/ Fault \/ UNCHANGED vars
    <2>1. UNCHANGED <<kernel, amount, pc>>
      BY <1>1 DEF EpollWait, Read, PutBatch, Fault, vars, kernelSide, workers
    <2> QED
      BY <2>1, NotCounting DEF Closing
  <1>2. ASSUME NEW w \in Workers, WorkerStep(w) PROVE Counted'
    BY <1>2, WorkerCounts
  <1> QED
    BY <1>1, <1>2, AcceptCounts, CloseCounts DEF Next, EpollStep

(* NeverOvercounted is an invariant: on every path that closes a connection *)
(* it is uncounted, by the epoll thread or by the relogin that closes it    *)
(* (CloseClientByFd, CloseOldClient).                                       *)
THEOREM CountNeverRunsAhead == Spec => []NeverOvercounted
  <1>1. TInv /\ Counted /\ [Next]_vars => (TInv /\ Counted)'
    BY NextTypes, NextCounts
  <1>2. Spec => [](TInv /\ Counted)
    BY InitTypes, InitCounts, <1>1, PTL DEF Spec
  <1> QED
    BY <1>2, PTL DEF Counted

------------------------------------------------------------------------------
(* The messages of a client are with one worker. *)
OneHandler ==
    \A c \in Clients : \A w, v \in Workers : w # v => ~(Handles(w, c) /\ Handles(v, c))

(* The batch that the epoll thread has is all of one client. *)
BatchOfOne == epc # "events" => \A i \in DOMAIN batch : batch[i].client = ecl

Handled == OneHandler /\ BatchOfOne

(* A worker's step leaves the other workers as they are, and unless it is  *)
(* Take leaves the messages where they are.                                *)
LEMMA WorkerFrame ==
  ASSUME TInv, NEW w \in Workers, WorkerStep(w)
  PROVE  /\ \A v \in Workers \ {w} : /\ pc'[v] = pc[v] /\ msg'[v] = msg[v]
                                     /\ user'[v] = user[v] /\ old'[v] = old[v]
         /\ UNCHANGED <<epc, ecl, batch>>
         /\ Take(w) \/ /\ UNCHANGED <<queue, rest>>
                       /\ pc[w] # "idle" /\ (pc'[w] = "idle" \/ msg'[w] = msg[w])
  <1> USE DEF TInv, TypeOK, WorkerTypes, Goto, kernelSide, maps, objects, epoll, lists,
              workers, history, past, elsewhere
  <1>1. CASE Take(w)
    BY <1>1 DEF Take
  <1>2. CASE Login(w)
    BY <1>2 DEF Login
  <1>3. CASE GetOld(w)
    BY <1>3 DEF GetOld
  <1>4. CASE EraseOld(w)
    BY <1>4 DEF EraseOld
  <1>5. CASE DeleteOldVm(w)
    BY <1>5 DEF DeleteOldVm
  <1>6. CASE CloseOld(w)
    BY <1>6 DEF CloseOld
  <1>7. CASE ForgetOld(w)
    BY <1>7 DEF ForgetOld
  <1>8. CASE UncountOld(w)
    BY <1>8 DEF UncountOld
  <1>9. CASE DropOld(w)
    BY <1>9 DEF DropOld
  <1>10. CASE FreeOld(w)
    BY <1>10 DEF FreeOld
  <1>11. CASE SetUid(w)
    BY <1>11 DEF SetUid
  <1>12. CASE AddVm(w)
    BY <1>12 DEF AddVm
  <1>13. CASE Load(w)
    BY <1>13 DEF Load
  <1>14. CASE AddUid(w)
    BY <1>14 DEF AddUid
  <1>15. CASE AddSocket(w)
    BY <1>15 DEF AddSocket
  <1>16. CASE ReadUid(w)
    BY <1>16 DEF ReadUid
  <1>17. CASE Run(w)
    BY <1>17 DEF Run
  <1>18. CASE FindOut(w)
    BY <1>18 DEF FindOut
  <1>19. CASE EraseOut(w)
    BY <1>19 DEF EraseOut
  <1>20. CASE FreeOut(w)
    BY <1>20 DEF FreeOut
  <1>21. CASE DeleteVm(w)
    BY <1>21 DEF DeleteVm
  <1>22. CASE Drop(w)
    BY <1>22 DEF Drop
  <1>23. CASE Finish(w)
    BY <1>23 DEF Finish
  <1> QED
    BY <1>1, <1>2, <1>3, <1>4, <1>5, <1>6, <1>7, <1>8, <1>9, <1>10, <1>11,
       <1>12, <1>13, <1>14, <1>15, <1>16, <1>17, <1>18, <1>19, <1>20, <1>21,
       <1>22, <1>23 DEF WorkerStep

(* What has happened stays. *)
LEMMA PastGrows ==
  ASSUME NEW w \in Workers, WorkerStep(w)
  PROVE  entered \subseteq entered' /\ again \subseteq again' /\ crossed \subseteq crossed'
  <1> USE DEF elsewhere, history, past, Begin
  <1>1. CASE Take(w)
    BY <1>1 DEF Take
  <1>2. CASE Login(w)
    BY <1>2 DEF Login
  <1>3. CASE GetOld(w)
    BY <1>3 DEF GetOld
  <1>4. CASE EraseOld(w)
    BY <1>4 DEF EraseOld
  <1>5. CASE DeleteOldVm(w)
    BY <1>5 DEF DeleteOldVm
  <1>6. CASE CloseOld(w)
    BY <1>6 DEF CloseOld
  <1>7. CASE ForgetOld(w)
    BY <1>7 DEF ForgetOld
  <1>8. CASE UncountOld(w)
    BY <1>8 DEF UncountOld
  <1>9. CASE DropOld(w)
    BY <1>9 DEF DropOld
  <1>10. CASE FreeOld(w)
    BY <1>10 DEF FreeOld
  <1>11. CASE SetUid(w)
    BY <1>11 DEF SetUid
  <1>12. CASE AddVm(w)
    BY <1>12 DEF AddVm
  <1>13. CASE Load(w)
    BY <1>13 DEF Load
  <1>14. CASE AddUid(w)
    BY <1>14 DEF AddUid
  <1>15. CASE AddSocket(w)
    BY <1>15 DEF AddSocket
  <1>16. CASE ReadUid(w)
    BY <1>16 DEF ReadUid
  <1>17. CASE Run(w)
    BY <1>17 DEF Run
  <1>18. CASE FindOut(w)
    BY <1>18 DEF FindOut
  <1>19. CASE EraseOut(w)
    BY <1>19 DEF EraseOut
  <1>20. CASE FreeOut(w)
    BY <1>20 DEF FreeOut
  <1>21. CASE DeleteVm(w)
    BY <1>21 DEF DeleteVm
  <1>22. CASE Drop(w)
    BY <1>22 DEF Drop
  <1>23. CASE Finish(w)
    BY <1>23 DEF Finish
  <1> QED
    BY <1>1, <1>2, <1>3, <1>4, <1>5, <1>6, <1>7, <1>8, <1>9, <1>10, <1>11,
       <1>12, <1>13, <1>14, <1>15, <1>16, <1>17, <1>18, <1>19, <1>20, <1>21,
       <1>22, <1>23 DEF WorkerStep

(* A worker's step gives no worker a message that was not its own. *)
LEMMA WorkerHandled ==
  ASSUME TInv, Handled, NEW w \in Workers, WorkerStep(w)
  PROVE  Handled'
  <1>1. /\ UNCHANGED <<epc, ecl, batch>>
        /\ \A v \in Workers \ {w} : pc'[v] = pc[v] /\ msg'[v] = msg[v]
    BY WorkerFrame
  <1>2. ASSUME Take(w), NEW v \in Workers, NEW c \in Clients, Handles(v, c)'
        PROVE  Handles(v, c)
    <2>1. PICK b \in (IF rest[w] = <<>> THEN queue[w] ELSE {<<0, rest[w]>>}) :
             /\ queue' = [queue EXCEPT ![w] = @ \ {b}]
             /\ rest' = [rest EXCEPT ![w] = Tail(b[2])]
             /\ msg' = [msg EXCEPT ![w] = Head(b[2])]
      BY <1>2 DEF Take
    <2>2. b[2] \in Seq(Message) /\ b[2] # <<>>
      BY BatchToTake DEF TInv, TypeOK
    <2>3. /\ queue'[w] = queue[w] \ {b} /\ rest'[w] = Tail(b[2]) /\ msg'[w] = Head(b[2])
          /\ \A x \in Workers \ {w} : queue'[x] = queue[x] /\ rest'[x] = rest[x]
      BY <2>1 DEF TInv, TypeOK, ListTypes, WorkerTypes
    <2>4. CASE v # w
      BY <1>1, <1>2, <2>3, <2>4 DEF Handles
    <2>5. CASE v = w
      <3>1. ASSUME NEW i \in DOMAIN b[2], b[2][i].client = c PROVE Handles(w, c)
        <4>1. CASE b \in queue[w]
          BY <3>1, <4>1 DEF Handles
        <4>2. CASE b[2] = rest[w]
          BY <3>1, <4>2 DEF Handles
        <4> QED
          BY <2>1, <4>1, <4>2
      <3>2. /\ 1 \in DOMAIN b[2] /\ Head(b[2]) = b[2][1]
            /\ \A i \in DOMAIN Tail(b[2]) : i + 1 \in DOMAIN b[2] /\ Tail(b[2])[i] = b[2][i + 1]
        BY <2>2
      <3>3. CASE msg'[w].client = c
        BY <2>3, <2>5, <3>1, <3>2, <3>3
      <3>4. CASE \E i \in DOMAIN rest'[w] : rest'[w][i].client = c
        BY <2>3, <2>5, <3>1, <3>2, <3>4
      <3>5. CASE \E d \in queue'[w] : \E i \in DOMAIN d[2] : d[2][i].client = c
        BY <2>3, <2>5, <3>5 DEF Handles
      <3> QED
        BY <1>2, <2>5, <3>3, <3>4, <3>5 DEF Handles
    <2> QED
      BY <2>4, <2>5
  <1>3. ASSUME ~Take(w), NEW v \in Workers, NEW c \in Clients, Handles(v, c)'
        PROVE  Handles(v, c)
    <2>1. UNCHANGED <<queue, rest>> /\ pc[w] # "idle" /\ (pc'[w] = "idle" \/ msg'[w] = msg[w])
      BY <1>3, WorkerFrame
    <2>2. pc'[v] = "idle" \/ (pc[v] # "idle" /\ msg'[v] = msg[v])
      BY <1>1, <2>1
    <2> QED
      BY <1>3, <2>1, <2>2 DEF Handles
  <1> QED
    BY <1>1, <1>2, <1>3 DEF Handled, OneHandler, BatchOfOne

LEMMA ReadHandled ==
  ASSUME TInv, Handled, NEW f \in Fds, Read(f)
  PROVE  Handled'
  <1> DEFINE c == byFd[f]
             out == [client |-> c, kind |-> "logout", user |-> None]
  <1>1. c \in Clients /\ UNCHANGED <<queue, rest, pc, msg>>
    BY DEF Read, Alive, TInv, TypeOK, TableTypes, lists, workers
  <1>2. OneHandler'
    BY <1>1 DEF Handled, OneHandler, Handles
  <1>3. CASE UNCHANGED <<epc, efd, ecl, batch, logins>>
    BY <1>2, <1>3 DEF Handled, BatchOfOne
  <1>4. ASSUME NEW s \in Sends(c), ecl' = c, batch' = s \/ batch' = Append(s, out)
        PROVE  BatchOfOne'
    <2>1. s \in Seq(Message) /\ \A i \in DOMAIN s : s[i].client = c
      BY <1>1, SendsAreMessages DEF TInv, TypeOK
    <2>2. \A i \in DOMAIN batch' : batch'[i].client = c
      <3>1. CASE batch' = s
        BY <2>1, <3>1
      <3>2. CASE batch' = Append(s, out)
        <4>1. out \in Message /\ out.client = c
          BY <1>1 DEF Message
        <4> QED
          BY <2>1, <3>2, <4>1
      <3> QED
        BY <1>4, <3>1, <3>2
    <2> QED
      BY <1>4, <2>2 DEF BatchOfOne
  <1>5. CASE ~UNCHANGED <<epc, efd, ecl, batch, logins>>
    <2>1. PICK s \in Sends(c) : ecl' = c /\ (batch' = s \/ batch' = Append(s, out))
      BY <1>5 DEF Read
    <2> QED
      BY <1>2, <1>4, <2>1 DEF Handled
  <1> QED
    BY <1>3, <1>5

(* PutBatch gives the batch to the only worker that may have messages of   *)
(* the client.                                                             *)
LEMMA PutBatchHandled ==
  ASSUME TInv, Handled, PutBatch
  PROVE  Handled'
  <1>1. PICK w \in Workers :
           /\ \A v \in Workers \ {w} : ~Handles(v, ecl)
           /\ queue' = [queue EXCEPT ![w] = @ \cup {<<reads, batch>>}]
    BY DEF PutBatch
  <1>2. /\ queue'[w] = queue[w] \cup {<<reads, batch>>}
        /\ \A v \in Workers \ {w} : queue'[v] = queue[v]
    BY <1>1 DEF TInv, TypeOK, ListTypes
  <1>3. epc = "put" /\ epc' = "events" /\ UNCHANGED <<rest, pc, msg>>
    BY DEF PutBatch, workers
  <1>4. \A i \in DOMAIN batch : batch[i].client = ecl
    BY <1>3 DEF Handled, BatchOfOne
  <1>5. \A v \in Workers, c \in Clients :
           Handles(v, c)' => Handles(v, c) \/ (v = w /\ c = ecl)
    BY <1>2, <1>3, <1>4 DEF Handles
  <1> QED
    BY <1>1, <1>3, <1>5 DEF Handled, OneHandler, BatchOfOne

LEMMA NextHandled == TInv /\ Handled /\ [Next]_vars => Handled'
  <1> SUFFICES ASSUME TInv, Handled, [Next]_vars PROVE Handled'
    OBVIOUS
  <1>1. CASE \/ EpollWait \/ (\E c \in Clients, f \in Fds : Accept(c, f))
             \/ Close \/ Fault \/ UNCHANGED vars
    <2>1. UNCHANGED <<ecl, batch, queue, rest, pc, msg>> /\ (epc' # "events" => epc # "events")
      BY <1>1 DEF EpollWait, Accept, Close, Fault, vars, epoll, lists, workers
    <2> QED
      BY <2>1 DEF Handled, OneHandler, BatchOfOne, Handles
  <1> QED
    BY <1>1, WorkerHandled, ReadHandled, PutBatchHandled DEF Next, EpollStep

LEMMA InitHandled == Init => Handled
  BY DEF Init, Handled, OneHandler, BatchOfOne, Handles

(* No other worker has the client whose message a worker carries out. *)
LEMMA ClientOfOne ==
  ASSUME TInv, Handled, NEW w \in Workers, NEW v \in Workers \ {w},
         pc[w] # "idle", pc[v] # "idle"
  PROVE  /\ msg[w].client \in Clients /\ msg[v].client \in Clients
         /\ msg[v].client # msg[w].client
  <1>1. msg[w].client \in Clients /\ msg[v].client \in Clients
    BY DEF TInv, MsgInHand, Message
  <1> QED
    BY <1>1 DEF Handled, OneHandler, Handles

------------------------------------------------------------------------------
(* The tables agree on a user. *)
Agrees(u) == /\ byUid[u] # None <=> u \in vms
             /\ u \in vms <=> u \in redis
             /\ u \in redis <=> u \in sockets

(* What the tables have of the user whom a worker at l logs in or out. *)
HalfWay(l, u) ==
    /\ l \in {"getOld", "eraseOld", "findOut", "eraseOut"} => Agrees(u)
    /\ l \in {"deleteOldVm", "freeOut", "deleteVm"} =>
          byUid[u] = None /\ (u \in vms <=> u \in redis) /\ (u \in redis <=> u \in sockets)
    /\ l \in {"closeOld", "forgetOld", "uncountOld", "dropOld", "drop"} =>
          byUid[u] = None /\ u \notin vms /\ (u \in redis <=> u \in sockets)
    /\ l \in {"freeOld", "setUid", "addVm"} =>
          byUid[u] = None /\ u \notin vms \cup redis \cup sockets
    /\ l = "load" => byUid[u] = None /\ u \in vms /\ u \notin redis \cup sockets
    /\ l = "addUid" => byUid[u] = None /\ u \in vms \cap redis /\ u \notin sockets
    /\ l = "addSocket" => byUid[u] # None /\ u \in vms \cap redis /\ u \notin sockets

(* A user for whom two workers never were at work at once is served by one *)
(* worker, and the tables have of it what that worker has done so far; or  *)
(* by none, and the tables agree.                                          *)
Agreeing ==
    \A u \in Users \ crossed :
        /\ (\A w \in Workers : ~Serves(w, u)) => Agrees(u)
        /\ \A w \in Workers : Serves(w, u) =>
              HalfWay(pc[w], u) /\ \A v \in Workers : Serves(v, u) => v = w

(* The client that a login is about to enter has the uid it is entered by. *)
OwnUid ==
    \A w \in Workers : pc[w] \in {"addVm", "load", "addUid"} => uid[msg[w].client] = user[w]

(* What the step of a worker does to a user for whom no two workers were   *)
(* at work: it goes on with the user, ends or begins to serve it, or leaves *)
(* it alone.                                                               *)
Moves(w, u) ==
    /\ Serves(w, u) => IF Serves(w, u)' THEN HalfWay(pc[w], u)' ELSE Agrees(u)'
    /\ ~Serves(w, u) /\ Serves(w, u)' =>
          /\ \A v \in Workers \ {w} : ~Serves(v, u)
          /\ Agrees(u) => HalfWay(pc[w], u)'
    /\ ~Serves(w, u) /\ ~Serves(w, u)' =>
          /\ byUid'[u] = byUid[u] /\ (u \in vms' <=> u \in vms)
          /\ u \in redis' <=> u \in redis
          /\ u \in sockets' <=> u \in sockets

LEMMA WorkerMoves ==
  ASSUME TInv, Agreeing, OwnUid, NEW w \in Workers, WorkerStep(w), NEW u \in Users \ crossed'
  PROVE  u \notin crossed /\ Moves(w, u)
  <1>a. u \notin crossed
    BY PastGrows
  <1>b. Serves(w, u) => HalfWay(pc[w], u)
    BY <1>a DEF Agreeing
  <1> SUFFICES Moves(w, u)
    BY <1>a
  <1> USE SessionsAssumption
          DEF Moves, Serves, Agrees, HalfWay, OwnUid, TInv, TypeOK, TableTypes, HeapTypes,
              WorkerTypes, MsgInHand, LoggingIn, LoggingOut, Message, Goto, Alive,
              kernelSide, maps, objects, history, past, elsewhere
  <1>1. CASE Take(w)
    BY <1>1, <1>b DEF Take
  <1>2. CASE Login(w)
    BY <1>2, <1>b DEF Login, Begin
  <1>3. CASE GetOld(w)
    BY <1>3, <1>b DEF GetOld
  <1>4. CASE EraseOld(w)
    BY <1>4, <1>b DEF EraseOld
  <1>5. CASE DeleteOldVm(w)
    BY <1>5, <1>b DEF DeleteOldVm
  <1>6. CASE CloseOld(w)
    BY <1>6, <1>b DEF CloseOld
  <1>7. CASE ForgetOld(w)
    BY <1>7, <1>b DEF ForgetOld
  <1>8. CASE UncountOld(w)
    BY <1>8, <1>b DEF UncountOld
  <1>9. CASE DropOld(w)
    BY <1>9, <1>b DEF DropOld
  <1>10. CASE FreeOld(w)
    BY <1>10, <1>b DEF FreeOld
  <1>11. CASE SetUid(w)
    BY <1>11, <1>b DEF SetUid
  <1>12. CASE AddVm(w)
    BY <1>12, <1>b DEF AddVm
  <1>13. CASE Load(w)
    BY <1>13, <1>b DEF Load
  <1>14. CASE AddUid(w)
    BY <1>14, <1>b DEF AddUid
  <1>15. CASE AddSocket(w)
    BY <1>15, <1>b DEF AddSocket
  <1>16. CASE ReadUid(w)
    BY <1>16, <1>b DEF ReadUid, Begin
  <1>17. CASE Run(w)
    BY <1>17, <1>b DEF Run
  <1>18. CASE FindOut(w)
    BY <1>18, <1>b DEF FindOut
  <1>19. CASE EraseOut(w)
    BY <1>19, <1>b DEF EraseOut
  <1>20. CASE FreeOut(w)
    BY <1>20, <1>b DEF FreeOut
  <1>21. CASE DeleteVm(w)
    BY <1>21, <1>b DEF DeleteVm
  <1>22. CASE Drop(w)
    BY <1>22, <1>b DEF Drop
  <1>23. CASE Finish(w)
    BY <1>23, <1>b DEF Finish
  <1> HIDE DEF Moves, TInv
  <1> QED
    BY <1>1, <1>2, <1>3, <1>4, <1>5, <1>6, <1>7, <1>8, <1>9, <1>10, <1>11,
       <1>12, <1>13, <1>14, <1>15, <1>16, <1>17, <1>18, <1>19, <1>20, <1>21,
       <1>22, <1>23 DEF WorkerStep

LEMMA WorkerAgrees ==
  ASSUME TInv, Agreeing, OwnUid, NEW w \in Workers, WorkerStep(w)
  PROVE  Agreeing'
  <1> SUFFICES ASSUME NEW u \in Users \ crossed'
               PROVE  /\ (\A v \in Workers : ~Serves(v, u)') => Agrees(u)'
                      /\ \A v \in Workers : Serves(v, u)' =>
                            /\ HalfWay(pc[v], u)'
                            /\ \A x \in Workers : Serves(x, u)' => x = v
    BY DEF Agreeing
  <1>1. u \notin crossed /\ Moves(w, u)
    BY WorkerMoves
  <1>2. \A v \in Workers \ {w} : pc'[v] = pc[v] /\ (Serves(v, u)' <=> Serves(v, u))
    BY WorkerFrame DEF Serves
  <1>3. /\ (\A v \in Workers : ~Serves(v, u)) => Agrees(u)
        /\ \A v \in Workers : Serves(v, u) =>
              HalfWay(pc[v], u) /\ \A x \in Workers : Serves(x, u) => x = v
    BY <1>1 DEF Agreeing
  <1>4. CASE Serves(w, u)
    BY <1>1, <1>2, <1>3, <1>4 DEF Moves
  <1>5. CASE ~Serves(w, u) /\ Serves(w, u)'
    BY <1>1, <1>2, <1>3, <1>5 DEF Moves
  <1>6. CASE ~Serves(w, u) /\ ~Serves(w, u)'
    <2>1. /\ byUid'[u] = byUid[u] /\ (u \in vms' <=> u \in vms)
          /\ (u \in redis' <=> u \in redis) /\ (u \in sockets' <=> u \in sockets)
      BY <1>1, <1>6 DEF Moves
    <2>2. Agrees(u) => Agrees(u)'
      BY <2>1 DEF Agrees
    <2>3. \A v \in Workers \ {w} : HalfWay(pc[v], u) => HalfWay(pc[v], u)'
      BY <1>2, <2>1, <2>2 DEF HalfWay
    <2> QED
      BY <1>2, <1>3, <1>6, <2>2, <2>3
  <1> QED
    BY <1>4, <1>5, <1>6

LEMMA WorkerOwnUid ==
  ASSUME TInv, Handled, OwnUid, NEW w \in Workers, WorkerStep(w)
  PROVE  OwnUid'
  <1>a. \A v \in Workers \ {w} : pc'[v] = pc[v] /\ msg'[v] = msg[v] /\ user'[v] = user[v]
    BY WorkerFrame
  <1>b. ASSUME NEW v \in Workers \ {w}, pc[v] \in {"addVm", "load", "addUid"}
        PROVE  uid'[msg[v].client] = uid[msg[v].client]
    <2>1. CASE SetUid(w)
      <3>1. pc[w] # "idle" /\ uid' = [uid EXCEPT ![msg[w].client] = user[w]]
        BY <2>1 DEF SetUid
      <3>2. msg[v].client \in Clients /\ msg[v].client # msg[w].client
        BY <1>b, <3>1, ClientOfOne
      <3> QED
        BY <3>1, <3>2 DEF TInv, TypeOK, HeapTypes
    <2>2. CASE ~SetUid(w)
      BY <2>2 DEF WorkerStep, Take, Login, GetOld, EraseOld, DeleteOldVm, CloseOld, ForgetOld,
                  UncountOld, DropOld, FreeOld, AddVm, Load, AddUid, AddSocket, ReadUid, Run,
                  FindOut, EraseOut, FreeOut, DeleteVm, Drop, Finish, elsewhere, objects
    <2> QED
      BY <2>1, <2>2
  <1>c. pc'[w] \in {"addVm", "load", "addUid"} => uid'[msg'[w].client] = user'[w]
    <2> SUFFICES ASSUME pc'[w] \in {"addVm", "load", "addUid"}
                 PROVE  uid'[msg'[w].client] = user'[w]
      OBVIOUS
    <2> USE DEF Goto, elsewhere, objects, TInv, TypeOK, WorkerTypes
    <2>1. CASE SetUid(w)
      <3>1. pc[w] # "idle" /\ uid' = [uid EXCEPT ![msg[w].client] = user[w]]
            /\ UNCHANGED <<msg, user>>
        BY <2>1 DEF SetUid
      <3>2. msg[w].client \in Clients
        BY <3>1 DEF MsgInHand, Message
      <3> QED
        BY <3>1, <3>2 DEF HeapTypes
    <2>2. CASE AddVm(w) \/ Load(w)
      BY <2>2 DEF AddVm, Load, OwnUid
    <2> QED
      BY <2>1, <2>2 DEF WorkerStep, Take, Login, GetOld, EraseOld, DeleteOldVm, CloseOld,
         ForgetOld, UncountOld, DropOld, FreeOld, AddUid, AddSocket, ReadUid, Run,
         FindOut, EraseOut, FreeOut, DeleteVm, Drop, Finish
  <1> QED
    BY <1>a, <1>b, <1>c DEF OwnUid

AInv == Handled /\ OwnUid /\ Agreeing

LEMMA InitAgrees == Init => AInv
  <1> SUFFICES ASSUME Init PROVE OwnUid /\ Agreeing
    BY InitHandled DEF AInv
  <1>1. \A w \in Workers : pc[w] = "idle"
    BY DEF Init
  <1>2. \A w \in Workers, u \in Users : ~Serves(w, u)
    BY <1>1 DEF Serves, LoggingIn, LoggingOut
  <1>3. \A u \in Users : Agrees(u)
    BY DEF Init, Agrees
  <1> QED
    BY <1>1, <1>2, <1>3 DEF OwnUid, Agreeing

LEMMA NextAgrees == TInv /\ AInv /\ [Next]_vars => AInv'
  <1> SUFFICES ASSUME TInv, AInv, [Next]_vars PROVE AInv'
    OBVIOUS
  <1>1. CASE EpollStep \/ Fault \/ UNCHANGED vars
    <2>1. UNCHANGED <<byUid, vms, redis, sockets, uid, pc, msg, user, crossed>>
      BY <1>1 DEF EpollStep, EpollWait, Accept, Read, Close, PutBatch, Fault, vars,
                  maps, objects, workers, history, past
    <2>2. OwnUid' /\ Agreeing'
      BY <2>1 DEF AInv, OwnUid, Agreeing, Agrees, HalfWay, Serves
    <2> QED
      BY <2>2, NextHandled DEF AInv
  <1>2. ASSUME NEW w \in Workers, WorkerStep(w) PROVE AInv'
    BY <1>2, NextHandled, WorkerOwnUid, WorkerAgrees DEF AInv
  <1> QED
    BY <1>1, <1>2 DEF Next

(* MapsAgree is an invariant, for any number of workers: a user whom none  *)
(* of them logs in or out is in all four tables or in none, as long as two *)
(* were never at work for it at once (Gate.cpp, DataHandler).              *)
THEOREM TablesAgree == Spec => []MapsAgree
  <1>1. TInv /\ AInv /\ [Next]_vars => (TInv /\ AInv)'
    BY NextTypes, NextAgrees
  <1>2. Spec => [](TInv /\ AInv)
    BY InitTypes, InitAgrees, <1>1, PTL DEF Spec
  <1>3. AInv => MapsAgree
    BY DEF AInv, Agreeing, Agrees, MapsAgree
  <1> QED
    BY <1>2, <1>3, PTL

------------------------------------------------------------------------------
(* Of a client whose password was not right once more after it had been    *)
(* entered in pSockidMap, the login that enters it is the first, ...       *)
EnteringIsNew ==
    \A w \in Workers :
        pc[w] \in LoggingIn \ {"addSocket"} /\ msg[w].client \in entered =>
            msg[w].client \in again

(* ... its entry has the uid it has for good, ...                          *)
OnlineEntered ==
    \A u \in Users : byUid[u] # None =>
        byUid[u] \in entered /\ (byUid[u] \notin again => uid[byUid[u]] = u)

Replacing == {"eraseOld", "deleteOldVm", "closeOld", "forgetOld", "uncountOld", "dropOld",
              "freeOld"}

(* ... and a relogin or a logout that is about to delete it has taken it   *)
(* out of the map.                                                         *)
OldTakenOut ==
    \A w \in Workers : old[w] # None =>
        /\ pc[w] \in Replacing /\ old[w] \in entered
        /\ old[w] \notin again =>
              /\ uid[old[w]] = user[w]
              /\ pc[w] # "eraseOld" => \A u \in Users : byUid[u] # old[w]

LeaverTakenOut ==
    \A w \in Workers :
        /\ pc[w] \in {"findOut", "eraseOut"} => uid[msg[w].client] = user[w]
        /\ pc[w] = "freeOut" /\ msg[w].client \notin again =>
              \A u \in Users : byUid[u] # msg[w].client

TakenOut == EnteringIsNew /\ OnlineEntered /\ OldTakenOut /\ LeaverTakenOut /\ OnlineClientsLive

OInv == Handled /\ TakenOut

(* A worker's step keeps who is online from being deleted. *)
LEMMA WorkerKeepsTakenOut ==
  ASSUME TInv, OInv, NEW w \in Workers, WorkerStep(w)
  PROVE  TakenOut'
  <1>a. /\ entered \subseteq entered' /\ again \subseteq again' /\ entered \subseteq Clients
        /\ None \notin Clients
    BY PastGrows, SessionsAssumption DEF TInv, TypeOK, HistoryTypes
  <1>b. \A v \in Workers \ {w} : /\ pc'[v] = pc[v] /\ msg'[v] = msg[v]
                                 /\ user'[v] = user[v] /\ old'[v] = old[v]
    BY WorkerFrame
  <1>c. ASSUME NEW v \in Workers \ {w}, pc[w] # "idle", pc[v] # "idle"
        PROVE  /\ msg[w].client \in Clients /\ msg[v].client \in Clients
               /\ msg[v].client # msg[w].client
    BY <1>c, ClientOfOne DEF OInv
  <1> USE DEF OInv, TakenOut, EnteringIsNew, OnlineEntered, OldTakenOut, LeaverTakenOut,
              OnlineClientsLive, Replacing, TInv, TypeOK, TableTypes, HeapTypes, WorkerTypes,
              MsgInHand, LoggingIn, LoggingOut, Goto, Alive, kernelSide, maps, objects,
              history, past, elsewhere
  <1>1. CASE Take(w)
    BY <1>1, <1>a, <1>b, <1>c DEF Take
  <1>2. CASE Login(w)
    BY <1>2, <1>a, <1>b, <1>c DEF Login
  <1>3. CASE GetOld(w)
    BY <1>3, <1>a, <1>b, <1>c DEF GetOld
  <1>4. CASE EraseOld(w)
    <2>1. /\ byUid' = [byUid EXCEPT ![user[w]] = None] /\ pc[w] = "eraseOld"
          /\ pc' = [pc EXCEPT ![w] = "deleteOldVm"]
          /\ UNCHANGED <<heap, uid, msg, user, old, entered, again>>
      BY <1>4 DEF EraseOld
    <2>2. \A u \in Users : byUid'[u] # None => byUid'[u] = byUid[u] /\ u # user[w]
      BY <2>1
    <2>3. old[w] # None /\ old[w] \notin again => \A u \in Users : byUid'[u] # old[w]
      BY <2>1, <2>2
    <2>4. EnteringIsNew' /\ OnlineEntered' /\ OnlineClientsLive'
      BY <1>a, <1>b, <2>1, <2>2
    <2>5. OldTakenOut'
      BY <1>a, <1>b, <2>1, <2>2, <2>3
    <2>6. LeaverTakenOut'
      <3>1. \A v \in Workers : pc[v] = "freeOut" => msg[v].client \in Clients
        BY DEF Message
      <3> QED
        BY <1>a, <1>b, <2>1, <2>2, <3>1
    <2> QED
      BY <2>4, <2>5, <2>6
  <1>5. CASE DeleteOldVm(w)
    BY <1>5, <1>a, <1>b, <1>c DEF DeleteOldVm
  <1>6. CASE CloseOld(w)
    BY <1>6, <1>a, <1>b, <1>c DEF CloseOld
  <1>7. CASE ForgetOld(w)
    BY <1>7, <1>a, <1>b, <1>c DEF ForgetOld
  <1>8. CASE UncountOld(w)
    BY <1>8, <1>a, <1>b, <1>c DEF UncountOld
  <1>9. CASE DropOld(w)
    BY <1>9, <1>a, <1>b, <1>c DEF DropOld
  <1>10. CASE FreeOld(w)
    BY <1>10, <1>a, <1>b, <1>c DEF FreeOld
  <1>11. CASE SetUid(w)
    <2> DEFINE c == msg[w].client
    <2>1. /\ uid' = [uid EXCEPT ![c] = user[w]] /\ pc[w] = "setUid"
          /\ pc'[w] \in {"readUid", "addVm"}
          /\ UNCHANGED <<byUid, heap, msg, user, old, entered, again>>
      BY <1>11 DEF SetUid
    <2>2. c \in Clients /\ (c \in entered => c \in again)
      BY <2>1 DEF Message
    <2>3. \A d \in Clients : d # c => uid'[d] = uid[d]
      BY <2>1
    <2>4. EnteringIsNew' /\ OnlineEntered' /\ OnlineClientsLive'
      BY <1>a, <1>b, <2>1, <2>2, <2>3
    <2>5. OldTakenOut'
      BY <1>a, <1>b, <2>1, <2>2, <2>3
    <2>6. LeaverTakenOut'
      <3>1. \A v \in Workers \ {w} : pc[v] \in {"findOut", "eraseOut"} =>
               msg[v].client \in Clients /\ msg[v].client # c
        BY <1>c, <2>1
      <3>2. \A v \in Workers \ {w} :
               pc'[v] \in {"findOut", "eraseOut"} => uid'[msg'[v].client] = user'[v]
        BY <1>b, <2>1, <2>3, <3>1
      <3> QED
        BY <1>b, <2>1, <3>2
    <2> QED
      BY <2>4, <2>5, <2>6
  <1>12. CASE AddVm(w)
    BY <1>12, <1>a, <1>b, <1>c DEF AddVm
  <1>13. CASE Load(w)
    BY <1>13, <1>a, <1>b, <1>c DEF Load
  <1>14. CASE AddUid(w)
    <2> DEFINE c == msg[w].client
    <2>1. /\ \/ /\ byUid[uid[c]] = None /\ byUid' = [byUid EXCEPT ![uid[c]] = c]
                /\ entered' = entered \cup {c}
             \/ UNCHANGED <<byUid, entered>>
          /\ pc[w] = "addUid" /\ pc' = [pc EXCEPT ![w] = "addSocket"]
          /\ heap[c] = "live" /\ UNCHANGED <<heap, uid, msg, user, old, again>>
      BY <1>14 DEF AddUid
    <2>2. c \in Clients /\ (c \in entered => c \in again)
      BY <2>1 DEF Message
    <2>3. \A u \in Users : byUid'[u] # None =>
             byUid'[u] = byUid[u] \/ (byUid'[u] = c /\ u = uid[c] /\ c \in entered')
      BY <2>1
    <2>4. \A v \in Workers \ {w} : pc[v] # "idle" => msg[v].client # c
      BY <1>c, <2>1
    <2>5. \A d : d \in entered' /\ d # c => d \in entered
      BY <2>1
    <2>6. EnteringIsNew'
      BY <1>b, <2>1, <2>4, <2>5
    <2>7. OnlineEntered' /\ OnlineClientsLive'
      BY <1>a, <2>1, <2>3
    <2>8. OldTakenOut'
      <3>1. \A v \in Workers : old[v] # None /\ old[v] \notin again => old[v] # c
        BY <2>2
      <3> QED
        BY <1>a, <1>b, <2>1, <2>3, <3>1
    <2>9. LeaverTakenOut'
      <3>1. \A v \in Workers \ {w} : pc[v] = "freeOut" =>
               msg[v].client \in Clients /\ msg[v].client # c
        BY <1>c, <2>1
      <3>2. \A v \in Workers \ {w} : pc'[v] = "freeOut" /\ msg'[v].client \notin again' =>
               \A u \in Users : byUid'[u] # msg'[v].client
        BY <1>a, <1>b, <2>1, <2>3, <3>1
      <3> QED
        BY <1>b, <2>1, <3>2
    <2> QED
      BY <2>6, <2>7, <2>8, <2>9
  <1>15. CASE AddSocket(w)
    BY <1>15, <1>a, <1>b, <1>c DEF AddSocket
  <1>16. CASE ReadUid(w)
    BY <1>16, <1>a, <1>b, <1>c DEF ReadUid
  <1>17. CASE Run(w)
    BY <1>17, <1>a, <1>b, <1>c DEF Run
  <1>18. CASE FindOut(w)
    BY <1>18, <1>a, <1>b, <1>c DEF FindOut
  <1>19. CASE EraseOut(w)
    <2> DEFINE c == msg[w].client
    <2>1. /\ byUid' = [byUid EXCEPT ![user[w]] = None] /\ pc[w] = "eraseOut"
          /\ pc' = [pc EXCEPT ![w] = "freeOut"]
          /\ UNCHANGED <<heap, uid, msg, user, old, entered, again>>
      BY <1>19 DEF EraseOut
    <2>2. c \in Clients /\ uid[c] = user[w]
      BY <2>1 DEF Message
    <2>3. \A u \in Users : byUid'[u] # None => byUid'[u] = byUid[u] /\ u # user[w]
      BY <2>1
    <2>4. c \notin again => \A u \in Users : byUid'[u] # c
      BY <1>a, <2>2, <2>3
    <2>5. EnteringIsNew' /\ OnlineEntered' /\ OnlineClientsLive'
      BY <1>a, <1>b, <2>1, <2>3
    <2>6. OldTakenOut'
      BY <1>a, <1>b, <2>1, <2>3
    <2>7. LeaverTakenOut'
      <3>1. \A v \in Workers \ {w} : pc[v] = "freeOut" => msg[v].client \in Clients
        BY DEF Message
      <3> QED
        BY <1>a, <1>b, <2>1, <2>3, <2>4, <3>1
    <2> QED
      BY <2>5, <2>6, <2>7
  <1>20. CASE FreeOut(w)
    BY <1>20, <1>a, <1>b, <1>c DEF FreeOut
  <1>21. CASE DeleteVm(w)
    BY <1>21, <1>a, <1>b, <1>c DEF DeleteVm
  <1>22. CASE Drop(w)
    BY <1>22, <1>a, <1>b, <1>c DEF Drop
  <1>23. CASE Finish(w)
    BY <1>23, <1>a, <1>b, <1>c DEF Finish
  <1> HIDE DEF TakenOut, TInv, OInv
  <1> QED
    BY <1>1, <1>2, <1>3, <1>4, <1>5, <1>6, <1>7, <1>8, <1>9, <1>10, <1>11,
       <1>12, <1>13, <1>14, <1>15, <1>16, <1>17, <1>18, <1>19, <1>20, <1>21,
       <1>22, <1>23 DEF WorkerStep

(* So do the steps of the epoll thread. *)
LEMMA EpollKeepsTakenOut ==
  ASSUME TInv, OInv, EpollStep \/ Fault \/ UNCHANGED vars
  PROVE  TakenOut'
  <1>1. /\ UNCHANGED <<byUid, uid, pc, msg, user, old, entered, again>>
        /\ \A c \in Clients : heap[c] = "live" => heap'[c] = "live"
    BY DEF EpollStep, EpollWait, Accept, Read, Close, PutBatch, Fault, vars, maps, objects,
           workers, history, past, TInv, TypeOK, HeapTypes
  <1>2. entered \subseteq Clients
    BY DEF TInv, TypeOK, HistoryTypes
  <1> QED
    BY <1>1, <1>2 DEF OInv, TakenOut, EnteringIsNew, OnlineEntered, OldTakenOut,
                      LeaverTakenOut, OnlineClientsLive, Alive

LEMMA InitOnline == Init => OInv
  <1> SUFFICES ASSUME Init PROVE TakenOut
    BY InitHandled DEF OInv
  <1> QED
    BY DEF Init, TakenOut, EnteringIsNew, OnlineEntered, OldTakenOut, LeaverTakenOut,
           OnlineClientsLive, LoggingIn

LEMMA NextOnline == TInv /\ OInv /\ [Next]_vars => OInv'
  <1> SUFFICES ASSUME TInv, OInv, [Next]_vars PROVE OInv'
    OBVIOUS
  <1>1. Handled'
    BY NextHandled DEF OInv
  <1> QED
    BY <1>1, WorkerKeepsTakenOut, EpollKeepsTakenOut DEF OInv, Next

(* OnlineClientsLive is an invariant: whoever deletes a Client has taken it *)
(* out of pSockidMap, and neither the message it carries out nor a refused  *)
(* or failed login puts it back; only of a client that gave the right       *)
(* password again after it was entered there is nothing said                *)
(* (RemoveFromSockIdMap, CheckoutReLogin, AddIntoSockIdMap).                *)
THEOREM OnlineAreNeverDeleted == Spec => []OnlineClientsLive
  <1>1. TInv /\ OInv /\ [Next]_vars => (TInv /\ OInv)'
    BY NextTypes, NextOnline
  <1>2. Spec => [](TInv /\ OInv)
    BY InitTypes, InitOnline, <1>1, PTL DEF Spec
  <1> QED
    BY <1>2, PTL DEF OInv, TakenOut
==============================================================================
