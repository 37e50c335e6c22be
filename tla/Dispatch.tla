------------------------------ MODULE Dispatch -------------------------------
(***************************************************************************)
(* How messages find their worker.  Each client carries two atomics: the   *)
(* index of the task list its messages go to (-1: none) and the number of  *)
(* its messages not yet dealt with.  The epoll thread and the timer thread *)
(* read and write both, in different orders, before they put a message;    *)
(* a worker lowers the number after each message and gives the index up    *)
(* when the number it then reads is zero.                                  *)
(*                                                                         *)
(* The task lists themselves are the mailboxes TaskList implements: a put  *)
(* adds to a set, a worker takes any element of its own list.  A client is *)
(* one connection of one player; connections do not end here.              *)
(*                                                                         *)
(* Calling GetTaskListByID(-1) dereferences a null pointer: crashed.       *)
(***************************************************************************)
EXTENDS Integers, FiniteSets

CONSTANTS Clients,
          NoClient,     \* no client
          ListCount,    \* Config::pollingPthreadNum
          MaxBatch,     \* bound: messages completed by one read
          MaxReads,     \* bound: readable events a behaviour has
          MaxFires      \* bound: timer events a behaviour has

ASSUME DispatchAssumption ==
    /\ NoClient \notin Clients
    /\ ListCount \in Nat \ {0}
    /\ MaxBatch \in Nat /\ MaxReads \in Nat /\ MaxFires \in Nat

VARIABLES
    idx,        \* Client::workPthreadIndex
    num,        \* Client::workPthreadSameClientTaskNum
    online,     \* the clients whose uid is in pSockidMap
    inbox,      \* inbox[k]: the messages on task list k
    minIdx,     \* ClassServer::minTaskListIndex
    epc,        \* where the epoll thread is
    ecl,        \* the client whose event it handles
    ebatch,     \* limitDataList: the messages that read completed
    eidx,       \* local workPthreadIndex
    enum,       \* local taskNum
    noLimit,    \* noLimitDataList
    handled,    \* the clients whose event of this epoll_wait is behind
    tpc,        \* where the timer thread is
    tmsg,       \* the event it puts
    tidx,       \* local taskListIndex
    wpc,        \* where each worker is
    wmsg,       \* the message each worker has taken
    uid,        \* the client each worker's local uid names, if it is online
    crashed,    \* a thread has used task list -1
    reads,      \* history: how many events epoll has handled
    fires,      \* history: how many events the timer has put
    leaked      \* history: messages finished without lowering num

epoll   == <<epc, ecl, ebatch, eidx, enum, noLimit, handled>>
timer   == <<tpc, tmsg, tidx>>
workers == <<wpc, wmsg, uid, leaked>>
counts  == <<idx, num>>
vars == <<idx, num, online, inbox, minIdx, epoll, timer, workers,
          crashed, reads, fires>>

Indexes == 0..(ListCount - 1)

Kinds == {"login", "request", "malformed"}

(* The i-th message of the b-th event of epoll, or (b = 0) of the timer. *)
Message == [client : Clients, kind : Kinds, event : 0..MaxReads, i : Nat]

NoMessage == [client |-> NoClient]

Of(c, S) == {m \in S : m.client = c}

------------------------------------------------------------------------------
Init ==
    /\ idx = [c \in Clients |-> -1]
    /\ num = [c \in Clients |-> 0]
    /\ online = {}
    /\ inbox = [k \in Indexes |-> {}]
    /\ minIdx = 1
    /\ epc = "scan" /\ ecl = NoClient /\ ebatch = {} /\ eidx = -1 /\ enum = 0
    /\ noLimit = {} /\ handled = {}
    /\ tpc = "idle" /\ tmsg = NoMessage /\ tidx = -1
    /\ wpc = [w \in Indexes |-> "idle"]
    /\ wmsg = [w \in Indexes |-> NoMessage]
    /\ uid = [w \in Indexes |-> NoClient]
    /\ crashed = FALSE
    /\ reads = 0 /\ fires = 0 /\ leaked = {}

(* AddMsgIntoTaskPool of a list that exists; list -1 is a null pointer. *)
Put(k, S) ==
    /\ inbox' = IF k \in Indexes THEN [inbox EXCEPT ![k] = @ \cup S] ELSE inbox
    /\ crashed' = (k \notin Indexes)

------------------------------------------------------------------------------
(* The epoll thread. *)

(* CheckMinTaskList: the first of the shortest lists. *)
Shortest(k) ==
    /\ \A j \in Indexes : Cardinality(inbox[k]) <= Cardinality(inbox[j])
    /\ \A j \in 0..(k - 1) : Cardinality(inbox[k]) < Cardinality(inbox[j])

Scan ==
    /\ epc = "scan"
    /\ \E k \in Indexes : Shortest(k) /\ minIdx' = k
    /\ epc' = "events"
    /\ UNCHANGED <<counts, online, inbox, ecl, ebatch, eidx, enum, noLimit, handled,
                   timer, workers, crashed, reads, fires>>

(* What one readable event of c may complete: at most MaxBatch messages,   *)
(* none if the last one is cut short.  A client that is not yet a player   *)
(* may ask to be one.                                                      *)
Batches(c) ==
    {{[client |-> c, kind |-> f[i], event |-> reads + 1, i |-> i] : i \in DOMAIN f} :
        f \in UNION {[1..n -> IF c \in online THEN Kinds \ {"login"} ELSE Kinds] :
                        n \in 0..MaxBatch}}

(* The socket is read dry, and the index is loaded before the number. *)
ReadEvent(c) ==
    /\ epc = "events"
    /\ reads < MaxReads
    /\ c \notin handled
    /\ handled' = handled \cup {c}
    /\ ebatch' \in Batches(c)
    /\ ecl' = c
    /\ eidx' = idx[c]
    /\ reads' = reads + 1
    /\ epc' = "loadNum"
    /\ UNCHANGED <<counts, online, inbox, minIdx, enum, noLimit, timer, workers,
                   crashed, fires>>

LoadNum ==
    /\ epc = "loadNum"
    /\ enum' = num[ecl]
    /\ epc' = "addNum"
    /\ UNCHANGED <<counts, online, inbox, minIdx, ecl, ebatch, eidx, noLimit, handled,
                   timer, workers, crashed, reads, fires>>

(* A faulty AddNum: one is added, whatever the read completed. *)
AddNumOne ==
    /\ epc = "addNum"
    /\ num' = [num EXCEPT ![ecl] = @ + 1]
    /\ epc' = IF enum <= 0 THEN "setIdx" ELSE "put"
    /\ UNCHANGED <<idx, online, inbox, minIdx, ecl, ebatch, eidx, enum, noLimit, handled,
                   timer, workers, crashed, reads, fires>>

(* A faulty AddNum: outstanding tasks are not looked at. *)
AddNumAlwaysNew ==
    /\ epc = "addNum"
    /\ num' = [num EXCEPT ![ecl] = @ + Cardinality(ebatch)]
    /\ epc' = "setIdx"
    /\ UNCHANGED <<idx, online, inbox, minIdx, ecl, ebatch, eidx, enum, noLimit, handled,
                   timer, workers, crashed, reads, fires>>

AddNum ==
    /\ epc = "addNum"
    /\ num' = [num EXCEPT ![ecl] = @ + Cardinality(ebatch)]
    /\ epc' = IF enum <= 0 THEN "setIdx" ELSE "put"
    /\ UNCHANGED <<idx, online, inbox, minIdx, ecl, ebatch, eidx, enum, noLimit, handled,
                   timer, workers, crashed, reads, fires>>

(* No task outstanding: the messages wait for the end of the events. *)
SetIdx ==
    /\ epc = "setIdx"
    /\ idx' = [idx EXCEPT ![ecl] = minIdx]
    /\ noLimit' = noLimit \cup ebatch
    /\ ebatch' = {}
    /\ epc' = "events"
    /\ UNCHANGED <<num, online, inbox, minIdx, ecl, eidx, enum, handled, timer, workers,
                   crashed, reads, fires>>

(* A task outstanding: the messages go to the list loaded at first. *)
PutLimited ==
    /\ epc = "put"
    /\ Put(eidx, ebatch)
    /\ ebatch' = {}
    /\ epc' = "events"
    /\ UNCHANGED <<counts, online, minIdx, ecl, eidx, enum, noLimit, handled, timer,
                   workers, reads, fires>>

(* All events are handled: noLimitDataList goes to the shortest list. *)
Flush ==
    /\ epc = "events"
    /\ Put(minIdx, noLimit)
    /\ noLimit' = {} /\ handled' = {}
    /\ epc' = "scan"
    /\ UNCHANGED <<counts, online, minIdx, ecl, ebatch, eidx, enum, timer, workers,
                   reads, fires>>

------------------------------------------------------------------------------
(* The timer thread: AddMsgIntoTaskPool for an event of a player. *)

Fire(c) ==
    /\ tpc = "idle"
    /\ fires < MaxFires
    /\ c \in online
    /\ tmsg' = [client |-> c, kind |-> "request", event |-> 0, i |-> fires + 1]
    /\ tidx' = minIdx
    /\ fires' = fires + 1
    /\ tpc' = "loadNum"
    /\ UNCHANGED <<counts, online, inbox, minIdx, epoll, workers, crashed, reads>>

FireLoadNum ==
    /\ tpc = "loadNum"
    /\ tpc' = IF num[tmsg.client] <= 0 THEN "setIdx" ELSE "loadIdx"
    /\ UNCHANGED <<counts, online, inbox, minIdx, epoll, tmsg, tidx, workers, crashed,
                   reads, fires>>

(* A faulty FireSetIdx: the event is put without being counted. *)
FireSetIdxOnly ==
    /\ tpc = "setIdx"
    /\ idx' = [idx EXCEPT ![tmsg.client] = tidx]
    /\ tpc' = "put"
    /\ UNCHANGED <<num, online, inbox, minIdx, epoll, tmsg, tidx, workers, crashed,
                   reads, fires>>

FireSetIdx ==
    /\ tpc = "setIdx"
    /\ idx' = [idx EXCEPT ![tmsg.client] = tidx]
    /\ tpc' = "addNum"
    /\ UNCHANGED <<num, online, inbox, minIdx, epoll, tmsg, tidx, workers, crashed,
                   reads, fires>>

FireLoadIdx ==
    /\ tpc = "loadIdx"
    /\ tidx' = idx[tmsg.client]
    /\ tpc' = "addNum"
    /\ UNCHANGED <<counts, online, inbox, minIdx, epoll, tmsg, workers, crashed,
                   reads, fires>>

FireAddNum ==
    /\ tpc = "addNum"
    /\ num' = [num EXCEPT ![tmsg.client] = @ + 1]
    /\ tpc' = "put"
    /\ UNCHANGED <<idx, online, inbox, minIdx, epoll, tmsg, tidx, workers, crashed,
                   reads, fires>>

FirePut ==
    /\ tpc = "put"
    /\ Put(tidx, {tmsg})
    /\ tmsg' = NoMessage
    /\ tpc' = "idle"
    /\ UNCHANGED <<counts, online, minIdx, epoll, tidx, workers, reads, fires>>

------------------------------------------------------------------------------
(* Worker w, which serves task list w. *)

Goto(w, label) == wpc' = [wpc EXCEPT ![w] = label]

Take(w) ==
    /\ wpc[w] = "idle"
    /\ \E m \in inbox[w] :
          /\ wmsg' = [wmsg EXCEPT ![w] = m]
          /\ inbox' = [inbox EXCEPT ![w] = @ \ {m}]
    /\ Goto(w, "run")
    /\ UNCHANGED <<counts, online, minIdx, epoll, timer, uid, leaked, crashed, reads, fires>>

(* The message is carried out.  A login may fail, or make its client a     *)
(* player; a player's second login, if it succeeds, ends the client, which *)
(* is out of this module's scope.  Only a well-formed message sets the     *)
(* local uid; an id that is still the socket's number is in no map.        *)
(* Without a uid that is in pSockidMap the number is not lowered.          *)
Run(w) ==
    LET c == wmsg[w].client IN
    /\ wpc[w] = "run"
    /\ \/ online' = online
       \/ wmsg[w].kind = "login" /\ online' = online \cup {c}
    /\ uid' = IF wmsg[w].kind = "malformed" THEN uid
              ELSE [uid EXCEPT ![w] = IF c \in online' THEN c ELSE NoClient]
    /\ \/ uid'[w] # NoClient /\ Goto(w, "subNum") /\ UNCHANGED <<wmsg, leaked>>
       \/ /\ uid'[w] = NoClient
          /\ Goto(w, "idle")
          /\ wmsg' = [wmsg EXCEPT ![w] = NoMessage]
          /\ leaked' = leaked \cup {wmsg[w]}
    /\ UNCHANGED <<counts, inbox, minIdx, epoll, timer, crashed, reads, fires>>

SubNum(w) ==
    /\ wpc[w] = "subNum"
    /\ num' = [num EXCEPT ![wmsg[w].client] = @ - 1]
    /\ Goto(w, "loadNum")
    /\ UNCHANGED <<idx, online, inbox, minIdx, epoll, timer, wmsg, uid, leaked, crashed,
                   reads, fires>>

WorkerLoadNum(w) ==
    /\ wpc[w] = "loadNum"
    /\ \/ num[wmsg[w].client] <= 0 /\ Goto(w, "resetIdx") /\ UNCHANGED wmsg
       \/ /\ num[wmsg[w].client] > 0
          /\ Goto(w, "idle")
          /\ wmsg' = [wmsg EXCEPT ![w] = NoMessage]
    /\ UNCHANGED <<counts, online, inbox, minIdx, epoll, timer, uid, leaked, crashed,
                   reads, fires>>

ResetIdx(w) ==
    /\ wpc[w] = "resetIdx"
    /\ idx' = [idx EXCEPT ![wmsg[w].client] = -1]
    /\ Goto(w, "gc")
    /\ UNCHANGED <<num, online, inbox, minIdx, epoll, timer, wmsg, uid, leaked, crashed,
                   reads, fires>>

(* The virtual machine of uid is collected. *)
Gc(w) ==
    /\ wpc[w] = "gc"
    /\ Goto(w, "idle")
    /\ wmsg' = [wmsg EXCEPT ![w] = NoMessage]
    /\ UNCHANGED <<counts, online, inbox, minIdx, epoll, timer, uid, leaked, crashed,
                   reads, fires>>

EpollStep == Scan \/ (\E c \in Clients : ReadEvent(c)) \/ LoadNum \/ AddNum
               \/ SetIdx \/ PutLimited \/ Flush

TimerStep == (\E c \in Clients : Fire(c)) \/ FireLoadNum \/ FireSetIdx
               \/ FireLoadIdx \/ FireAddNum \/ FirePut

WorkerStep(w) == Take(w) \/ Run(w) \/ SubNum(w) \/ WorkerLoadNum(w)
                   \/ ResetIdx(w) \/ Gc(w)

Next ==
    /\ ~crashed
    /\ EpollStep \/ TimerStep \/ \E w \in Indexes : WorkerStep(w)

Spec == Init /\ [][Next]_vars

------------------------------------------------------------------------------
Labels == {"idle", "run", "subNum", "loadNum", "resetIdx", "gc"}

CountTypes ==
    /\ idx \in [Clients -> -1..(ListCount - 1)] /\ num \in [Clients -> Nat]
    /\ online \subseteq Clients

ListTypes == inbox \in [Indexes -> SUBSET Message] /\ minIdx \in Indexes \cup {1}

EpollTypes ==
    /\ epc \in {"scan", "events", "loadNum", "addNum", "setIdx", "put"}
    /\ ecl \in Clients \cup {NoClient} /\ handled \subseteq Clients
    /\ ebatch \subseteq Message /\ noLimit \subseteq Message
    /\ eidx \in -1..(ListCount - 1) /\ enum \in Nat

TimerTypes ==
    /\ tpc \in {"idle", "loadNum", "setIdx", "loadIdx", "addNum", "put"}
    /\ tmsg \in Message \cup {NoMessage} /\ tidx \in -1..(ListCount - 1)

WorkerTypes ==
    /\ wpc \in [Indexes -> Labels] /\ wmsg \in [Indexes -> Message \cup {NoMessage}]
    /\ uid \in [Indexes -> Clients \cup {NoClient}]

HistoryTypes ==
    /\ reads \in 0..MaxReads /\ fires \in 0..MaxFires /\ leaked \subseteq Message
    /\ crashed \in BOOLEAN

(* Every variable has its type; the number of tasks is never negative, so  *)
(* the code's `taskNum <= 0' means `taskNum = 0'.                          *)
TypeOK ==
    /\ CountTypes /\ ListTypes /\ EpollTypes /\ TimerTypes /\ WorkerTypes /\ HistoryTypes

(* The messages a thread has counted, and no worker has yet uncounted. *)
EpollHas == IF epc \in {"setIdx", "put"} THEN ebatch ELSE {}

TimerHas == IF tpc = "put" THEN {tmsg} ELSE {}

WorkerHas(w) == IF wpc[w] \in {"run", "subNum"} THEN {wmsg[w]} ELSE {}

Given == UNION {inbox[k] \cup WorkerHas(k) : k \in Indexes}

Pending == Given \cup noLimit \cup EpollHas \cup TimerHas

(* A client's number is the count of its messages that are somewhere       *)
(* between the first thread that counted them and the worker, and of those *)
(* finished for nobody online; so a thread that reads zero knows nothing   *)
(* of the client is queued (ClassTcpNet.cpp:346-347, ClassTimer.cpp:214).  *)
CountIsPendingOrLeaked ==
    ~crashed => \A c \in Clients : num[c] = Cardinality(Of(c, Pending \cup leaked))

(* Client.h:16 says the two atomics keep one player from being operated on *)
(* by different threads.                                                   *)
OneThreadPerClient ==
    \A w, v \in Indexes :
        (w # v /\ wpc[w] = "run" /\ wpc[v] = "run") => wmsg[w].client # wmsg[v].client

(* ClassPthreadMgr.cpp:379 says that a virtual machine is collected when   *)
(* its user's number of tasks is zero and the interval is up: no other     *)
(* worker is then running a request in it, for it has no lock.  (After a   *)
(* login the interval is not up, the machine being new.)                   *)
GcWhenIdle ==
    \A w, v \in Indexes :
        wpc[w] = "gc" /\ wpc[v] = "run"
            /\ wmsg[w].kind = "request" /\ wmsg[v].kind = "request" =>
                wmsg[v].client # wmsg[w].client

(* As long as epoll is the only producer, no two workers carry out         *)
(* messages of one client at once, whatever order index and number are     *)
(* read and reset in (Client.h:16, ClassTcpNet.cpp:342-358,                *)
(* ClassPthreadMgr.cpp:372-377).                                           *)
OneThreadUntilTimer == fires = 0 => OneThreadPerClient
==============================================================================
