------------------------------ MODULE Sessions -------------------------------
(***************************************************************************)
(* Connections, Client objects and logged-in sessions: who creates, finds, *)
(* closes and deletes what.  The epoll thread accepts, reads and closes    *)
(* connections; the workers log users in and out.  They share five tables, *)
(* the epoll set and the heap, and no lock holds more than one of them.    *)
(*                                                                         *)
(* A client is a connection together with the Client object made for it.   *)
(* Task lists are as TaskList has them: a batch keeps its order and is not *)
(* broken up, batches may overtake each other; and a client whose messages *)
(* are pending keeps its worker.                                           *)
(*                                                                         *)
(* Using a deleted Client, or no Client, or the overlap of two accesses to *)
(* one object that nothing orders, is undefined: a fault.  After a fault   *)
(* nothing is claimed and nothing moves.                                   *)
(***************************************************************************)
EXTENDS Integers, Sequences, FiniteSets

CONSTANTS Clients,
          Fds,          \* descriptors the kernel may give out
          Users,        \* accounts, each with its uid
          Workers,
          None,         \* no client, no user, no descriptor
          MaxBatch,     \* bound: messages completed by one read
          MaxReads,     \* bound: readable events a behaviour has
          MaxLogins     \* bound: login requests a client sends

ASSUME SessionsAssumption ==
    /\ None \notin Clients \cup Fds \cup Users
    /\ MaxBatch \in Nat /\ MaxReads \in Nat /\ MaxLogins \in Nat

VARIABLES
    kernel,     \* kernel[f]: the connection descriptor f is open for
    watched,    \* the descriptors in the epoll set
    byFd,       \* pSockfdMap
    byUid,      \* pSockidMap
    vms,        \* the users in luaVmMap
    sockets,    \* the users in GLOBAL_UID_SOCKET_MAP
    redis,      \* the users in GLOBAL_UID_REDISOBJECT_MAP
    amount,     \* ClassServer::clientAmount
    heap,       \* whether each Client object is not yet made, live or freed
    fd,         \* Client::fd
    uid,        \* Client::uid; None while it is the descriptor's number
    epc,        \* where the epoll thread is
    ready,      \* the events of this epoll_wait still to be handled
    efd,        \* the descriptor whose event it handles
    ecl,        \* pClient
    batch,      \* limitDataList
    queue,      \* queue[w]: the batches <<event, messages>> on w's task list
    rest,       \* rest[w]: what is left of the batch w has begun
    pc,         \* where each worker is
    msg,        \* the message it carries out
    user,       \* the uid it carries it out for
    old,        \* the client a relogin replaces
    fault,      \* something undefined has happened
    reads,      \* history: how many events have been read
    logins,     \* history: how many logins each client has asked for
    entered,    \* history: the clients that were entered in pSockidMap
    again,      \* history: those of them whose password was right once more
    crossed     \* history: the users for whom two workers were at work at once

kernelSide == <<kernel, watched>>
maps    == <<byFd, byUid, vms, sockets, redis>>
objects == <<heap, fd, uid>>
epoll   == <<epc, ready, efd, ecl, batch>>
lists   == <<queue, rest>>
workers == <<pc, msg, user, old>>
past    == <<entered, again, crossed>>
history == <<reads, logins, past>>
elsewhere == <<kernelSide, maps, amount, objects, epoll, fault, reads, logins, entered>>
vars == <<kernelSide, maps, amount, objects, epoll, lists, workers, fault, history>>

Message ==
    [client : Clients, kind : {"login"}, user : Users]
        \cup [client : Clients, kind : {"request", "logout"}, user : {None}]

NoMessage == [client |-> None]

(* The Client object is there. *)
Alive(c) == c # None /\ heap[c] = "live"

------------------------------------------------------------------------------
Init ==
    /\ kernel = [f \in Fds |-> None] /\ watched = {}
    /\ byFd = [f \in Fds |-> None] /\ byUid = [u \in Users |-> None]
    /\ vms = {} /\ sockets = {} /\ redis = {}
    /\ amount = 0
    /\ heap = [c \in Clients |-> "none"]
    /\ fd = [c \in Clients |-> None] /\ uid = [c \in Clients |-> None]
    /\ epc = "events" /\ ready = {} /\ efd = None /\ ecl = None /\ batch = <<>>
    /\ queue = [w \in Workers |-> {}]
    /\ rest = [w \in Workers |-> <<>>]
    /\ pc = [w \in Workers |-> "idle"]
    /\ msg = [w \in Workers |-> NoMessage]
    /\ user = [w \in Workers |-> None]
    /\ old = [w \in Workers |-> None]
    /\ fault = FALSE
    /\ reads = 0 /\ logins = [c \in Clients |-> 0]
    /\ entered = {} /\ again = {} /\ crossed = {}

------------------------------------------------------------------------------
(* The epoll thread. *)

EpollWait ==
    /\ epc = "events" /\ ready = {}
    /\ ready' \in SUBSET {f \in watched : kernel[f] # None} \ {{}}
    /\ UNCHANGED <<kernelSide, maps, amount, objects, epc, efd, ecl, batch, lists,
                   workers, fault, history>>

(* The kernel may give out any descriptor that is not open. *)
Accept(c, f) ==
    /\ epc = "events"
    /\ heap[c] = "none"
    /\ kernel[f] = None
    /\ kernel' = [kernel EXCEPT ![f] = c]
    /\ watched' = watched \cup {f}
    /\ heap' = [heap EXCEPT ![c] = "live"]
    /\ fd' = [fd EXCEPT ![c] = f]
    /\ byFd' = [byFd EXCEPT ![f] = c]
    /\ amount' = amount + 1
    /\ UNCHANGED <<byUid, vms, sockets, redis, uid, epoll, lists, workers, fault,
                   history>>

Logins(s) == Cardinality({i \in DOMAIN s : s[i].kind = "login"})

Sends(c) ==
    {s \in UNION {[1..n -> {m \in Message : m.client = c}] : n \in 0..MaxBatch} :
        logins[c] + Logins(s) <= MaxLogins}

(* The event's client is looked up, the socket read dry: its messages are  *)
(* completed, and perhaps its end is seen.  A receive error takes the      *)
(* descriptor out of the epoll set and forgets the messages.               *)
Read(f) ==
    LET c == byFd[f] IN
    /\ epc = "events" /\ f \in ready /\ reads < MaxReads
    /\ Alive(c)
    /\ ready' = ready \ {f}
    /\ reads' = reads + 1
    /\ \/ /\ kernel[f] # None
          /\ efd' = f /\ ecl' = c
          /\ \E s \in Sends(c) :
                /\ logins' = [logins EXCEPT ![c] = @ + Logins(s)]
                /\ \/ s # <<>> /\ batch' = s /\ epc' = "put"
                   \/ /\ batch' = Append(s, [client |-> c, kind |-> "logout", user |-> None])
                      /\ epc' = "close"
          /\ UNCHANGED watched
       \/ /\ watched' = watched \ {f}
          /\ UNCHANGED <<epc, efd, ecl, batch, logins>>
    /\ UNCHANGED <<kernel, maps, amount, objects, lists, workers, fault, past>>

(* A faulty Close: the client is still counted. *)
CloseUncounted ==
    /\ epc = "close"
    /\ kernel' = [kernel EXCEPT ![efd] = None]
    /\ watched' = watched \ {efd}
    /\ byFd' = [byFd EXCEPT ![efd] = None]
    /\ epc' = "put"
    /\ UNCHANGED <<byUid, vms, sockets, redis, amount, objects, ready, efd, ecl,
                   batch, lists, workers, fault, history>>

(* CloseClientByFd, before the logout is put. *)
Close ==
    /\ epc = "close"
    /\ kernel' = [kernel EXCEPT ![efd] = None]
    /\ watched' = watched \ {efd}
    /\ byFd' = [byFd EXCEPT ![efd] = None]
    /\ amount' = amount - 1
    /\ epc' = "put"
    /\ UNCHANGED <<byUid, vms, sockets, redis, objects, ready, efd, ecl, batch,
                   lists, workers, fault, history>>

Handles(w, c) ==
    \/ pc[w] # "idle" /\ msg[w].client = c
    \/ \E b \in queue[w] \cup {<<0, rest[w]>>} : \E i \in DOMAIN b[2] : b[2][i].client = c

PutBatch ==
    /\ epc = "put"
    /\ Alive(ecl)
    /\ \E w \in Workers :
          /\ \A v \in Workers \ {w} : ~Handles(v, ecl)
          /\ queue' = [queue EXCEPT ![w] = @ \cup {<<reads, batch>>}]
    /\ efd' = None /\ ecl' = None /\ batch' = <<>>
    /\ epc' = "events"
    /\ UNCHANGED <<kernelSide, maps, amount, objects, ready, rest, workers, fault,
                   history>>

------------------------------------------------------------------------------
(* Worker w. *)

Goto(w, label) == pc' = [pc EXCEPT ![w] = label]

LoggingIn == {"getOld", "eraseOld", "deleteOldVm", "closeOld", "forgetOld", "uncountOld",
              "dropOld", "freeOld", "setUid", "addVm", "load", "addUid", "addSocket"}

LoggingOut == {"findOut", "eraseOut", "freeOut", "deleteVm", "drop"}

(* Worker w logs user u in or out. *)
Serves(w, u) == user[w] = u /\ pc[w] \in LoggingIn \cup LoggingOut

(* Worker w begins to log u in or out. *)
Begin(w, u) == crossed' = IF \E v \in Workers \ {w} : Serves(v, u)
                          THEN crossed \cup {u} ELSE crossed

Take(w) ==
    /\ pc[w] = "idle"
    /\ \E b \in (IF rest[w] = <<>> THEN queue[w] ELSE {<<0, rest[w]>>}) :
          /\ queue' = [queue EXCEPT ![w] = @ \ {b}]
          /\ rest' = [rest EXCEPT ![w] = Tail(b[2])]
          /\ msg' = [msg EXCEPT ![w] = Head(b[2])]
          /\ Goto(w, IF Head(b[2]).kind = "login" THEN "login" ELSE "readUid")
    /\ UNCHANGED <<elsewhere, user, old, again, crossed>>

(* Login: the password is wrong; or it is right, and CheckoutReLogin       *)
(* removes what an earlier session of the user left.                       *)
Login(w) ==
    /\ pc[w] = "login" /\ Alive(msg[w].client)
    /\ \/ Goto(w, "readUid") /\ UNCHANGED <<user, again, crossed>>
       \/ /\ user' = [user EXCEPT ![w] = msg[w].user]
          /\ Goto(w, IF byUid[msg[w].user] = None THEN "deleteOldVm" ELSE "getOld")
          /\ again' = again \cup (entered \cap {msg[w].client})
          /\ Begin(w, msg[w].user)
    /\ UNCHANGED <<elsewhere, lists, msg, old>>

GetOld(w) ==
    /\ pc[w] = "getOld" /\ byUid[user[w]] # None
    /\ old' = [old EXCEPT ![w] = byUid[user[w]]]
    /\ Goto(w, "eraseOld")
    /\ UNCHANGED <<elsewhere, lists, msg, user, again, crossed>>

EraseOld(w) ==
    /\ pc[w] = "eraseOld"
    /\ byUid' = [byUid EXCEPT ![user[w]] = None]
    /\ Goto(w, "deleteOldVm")
    /\ UNCHANGED <<kernelSide, byFd, vms, sockets, redis, amount, objects, epoll,
                   lists, msg, user, old, fault, history>>

DeleteOldVm(w) ==
    /\ pc[w] = "deleteOldVm"
    /\ vms' = vms \ {user[w]}
    /\ Goto(w, IF old[w] = None THEN "dropOld" ELSE "closeOld")
    /\ UNCHANGED <<kernelSide, byFd, byUid, sockets, redis, amount, objects, epoll,
                   lists, msg, user, old, fault, history>>

(* close() also takes the descriptor out of the epoll set. *)
CloseOld(w) ==
    LET f == fd[old[w]] IN
    /\ pc[w] = "closeOld" /\ Alive(old[w])
    /\ kernel' = [kernel EXCEPT ![f] = None]
    /\ watched' = watched \ {f}
    /\ Goto(w, "forgetOld")
    /\ UNCHANGED <<maps, amount, objects, epoll, lists, msg, user, old, fault,
                   history>>

ForgetOld(w) ==
    /\ pc[w] = "forgetOld"
    /\ byFd' = [byFd EXCEPT ![fd[old[w]]] = None]
    /\ Goto(w, "uncountOld")
    /\ UNCHANGED <<kernelSide, byUid, vms, sockets, redis, amount, objects, epoll,
                   lists, msg, user, old, fault, history>>

(* A faulty UncountOld: the epoll set keeps the descriptor. *)
UncountOldOnly(w) ==
    /\ pc[w] = "uncountOld"
    /\ amount' = amount - 1
    /\ Goto(w, "dropOld")
    /\ UNCHANGED <<kernelSide, maps, objects, epoll, lists, msg, user, old, fault, history>>

UncountOld(w) ==
    /\ pc[w] = "uncountOld"
    /\ watched' = watched \ {fd[old[w]]}
    /\ amount' = amount - 1
    /\ Goto(w, "dropOld")
    /\ UNCHANGED <<kernel, maps, objects, epoll, lists, msg, user, old, fault,
                   history>>

DropOld(w) ==
    /\ pc[w] = "dropOld"
    /\ sockets' = sockets \ {user[w]} /\ redis' = redis \ {user[w]}
    /\ Goto(w, IF old[w] = None THEN "setUid" ELSE "freeOld")
    /\ UNCHANGED <<kernelSide, byFd, byUid, vms, amount, objects, epoll, lists, msg,
                   user, old, fault, history>>

FreeOld(w) ==
    /\ pc[w] = "freeOld" /\ Alive(old[w])
    /\ heap' = [heap EXCEPT ![old[w]] = "freed"]
    /\ old' = [old EXCEPT ![w] = None]
    /\ Goto(w, "setUid")
    /\ UNCHANGED <<kernelSide, maps, amount, fd, uid, epoll, lists, msg, user,
                   fault, history>>

(* A faulty SetUid: the descriptor's number, which the client has already. *)
SetUidToFd(w) ==
    /\ pc[w] = "setUid" /\ Alive(msg[w].client)
    /\ uid' = [uid EXCEPT ![msg[w].client] = fd[msg[w].client]]
    /\ \/ Goto(w, "readUid")
       \/ user[w] \notin vms /\ Goto(w, "addVm")
    /\ UNCHANGED <<kernelSide, maps, amount, heap, fd, epoll, lists, msg, user, old,
                   fault, history>>

(* The client gets its uid, then CreateLuaVmAfterLogin: not if one exists. *)
SetUid(w) ==
    /\ pc[w] = "setUid" /\ Alive(msg[w].client)
    /\ uid' = [uid EXCEPT ![msg[w].client] = user[w]]
    /\ \/ Goto(w, "readUid")
       \/ user[w] \notin vms /\ Goto(w, "addVm")
    /\ UNCHANGED <<kernelSide, maps, amount, heap, fd, epoll, lists, msg, user, old,
                   fault, history>>

AddVm(w) ==
    /\ pc[w] = "addVm"
    /\ vms' = vms \cup {user[w]}
    /\ Goto(w, IF user[w] \in vms THEN "readUid" ELSE "load")
    /\ UNCHANGED <<kernelSide, byFd, byUid, sockets, redis, amount, objects, epoll,
                   lists, msg, user, old, fault, history>>

(* A faulty Load: the virtual machine is left behind. *)
LoadKeepingVm(w) ==
    /\ pc[w] = "load"
    /\ \/ Goto(w, "addUid") /\ redis' = redis \cup {user[w]} /\ vms' = vms
       \/ Goto(w, "readUid") /\ UNCHANGED <<redis, vms>>
    /\ UNCHANGED <<kernelSide, byFd, byUid, sockets, amount, objects, epoll, lists,
                   msg, user, old, fault, history>>

(* Redis is reached and the data is loaded; or not. *)
Load(w) ==
    /\ pc[w] = "load"
    /\ \/ Goto(w, "addUid") /\ redis' = redis \cup {user[w]} /\ vms' = vms
       \/ Goto(w, "readUid") /\ vms' = vms \ {user[w]} /\ redis' = redis
    /\ UNCHANGED <<kernelSide, byFd, byUid, sockets, amount, objects, epoll, lists,
                   msg, user, old, fault, history>>

(* AddIntoSockIdMap. *)
AddUid(w) ==
    LET c == msg[w].client IN
    /\ pc[w] = "addUid" /\ Alive(c)
    /\ IF byUid[uid[c]] = None
       THEN byUid' = [byUid EXCEPT ![uid[c]] = c] /\ entered' = entered \cup {c}
       ELSE UNCHANGED <<byUid, entered>>
    /\ Goto(w, "addSocket")
    /\ UNCHANGED <<kernelSide, byFd, vms, sockets, redis, amount, objects, epoll,
                   lists, msg, user, old, fault, reads, logins, again, crossed>>

AddSocket(w) ==
    /\ pc[w] = "addSocket"
    /\ sockets' = sockets \cup {user[w]}
    /\ Goto(w, "readUid")
    /\ UNCHANGED <<kernelSide, byFd, byUid, vms, redis, amount, objects, epoll,
                   lists, msg, user, old, fault, history>>

(* Whatever the message was, the client's uid is read. *)
ReadUid(w) ==
    LET c == msg[w].client IN
    /\ pc[w] = "readUid" /\ Alive(c)
    /\ user' = [user EXCEPT ![w] = uid[c]]
    /\ Goto(w, IF msg[w].kind = "request" /\ uid[c] \in vms THEN "run"
               ELSE IF msg[w].kind = "logout" /\ uid[c] # None THEN "findOut"
               ELSE "finish")
    /\ IF msg[w].kind = "logout" /\ uid[c] # None THEN Begin(w, uid[c])
       ELSE UNCHANGED crossed
    /\ UNCHANGED <<elsewhere, lists, msg, old, again>>

(* The request has run in the user's virtual machine. *)
Run(w) ==
    /\ pc[w] = "run"
    /\ Goto(w, "finish")
    /\ UNCHANGED <<elsewhere, lists, msg, user, old, again, crossed>>

(* Logout: RemoveFromSockIdMap, then the other maps. *)
FindOut(w) ==
    /\ pc[w] = "findOut"
    /\ Goto(w, IF byUid[user[w]] = None THEN "deleteVm" ELSE "eraseOut")
    /\ UNCHANGED <<elsewhere, lists, msg, user, old, again, crossed>>

(* A faulty EraseOut: the entry is kept. *)
EraseNothing(w) ==
    /\ pc[w] = "eraseOut"
    /\ Goto(w, "freeOut")
    /\ UNCHANGED <<elsewhere, lists, msg, user, old, again, crossed>>

EraseOut(w) ==
    /\ pc[w] = "eraseOut"
    /\ byUid' = [byUid EXCEPT ![user[w]] = None]
    /\ Goto(w, "freeOut")
    /\ UNCHANGED <<kernelSide, byFd, vms, sockets, redis, amount, objects, epoll,
                   lists, msg, user, old, fault, history>>

FreeOut(w) ==
    /\ pc[w] = "freeOut" /\ Alive(msg[w].client)
    /\ heap' = [heap EXCEPT ![msg[w].client] = "freed"]
    /\ Goto(w, "deleteVm")
    /\ UNCHANGED <<kernelSide, maps, amount, fd, uid, epoll, lists, msg, user, old,
                   fault, history>>

DeleteVm(w) ==
    /\ pc[w] = "deleteVm"
    /\ vms' = vms \ {user[w]}
    /\ Goto(w, "drop")
    /\ UNCHANGED <<kernelSide, byFd, byUid, sockets, redis, amount, objects, epoll,
                   lists, msg, user, old, fault, history>>

Drop(w) ==
    /\ pc[w] = "drop"
    /\ sockets' = sockets \ {user[w]} /\ redis' = redis \ {user[w]}
    /\ Goto(w, "finish")
    /\ UNCHANGED <<kernelSide, byFd, byUid, vms, amount, objects, epoll, lists, msg,
                   user, old, fault, history>>

(* The client is uncounted if its user is online: it is used once more. *)
UsesAtEnd(w) == user[w] # None /\ byUid[user[w]] # None

Finish(w) ==
    /\ pc[w] = "finish"
    /\ UsesAtEnd(w) => Alive(msg[w].client)
    /\ Goto(w, "idle")
    /\ msg' = [msg EXCEPT ![w] = NoMessage]
    /\ user' = [user EXCEPT ![w] = None]
    /\ UNCHANGED <<elsewhere, lists, old, again, crossed>>

------------------------------------------------------------------------------
(* Undefined behaviour. *)

(* The epoll thread is about to use a Client that is deleted, or none. *)
EpollMisses ==
    \/ epc = "events" /\ \E f \in ready : ~Alive(byFd[f])
    \/ epc = "put" /\ ~Alive(ecl)

(* Worker w is about to use, or delete again, a deleted Client; or to read *)
(* a map entry that is gone.                                               *)
WorkerMisses(w) ==
    \/ /\ pc[w] \in {"login", "setUid", "addUid", "readUid", "freeOut"}
       /\ ~Alive(msg[w].client)
    \/ pc[w] = "finish" /\ UsesAtEnd(w) /\ ~Alive(msg[w].client)
    \/ pc[w] \in {"closeOld", "freeOld"} /\ ~Alive(old[w])
    \/ pc[w] = "getOld" /\ byUid[user[w]] = None

(* Workers w and v are about to delete, or to delete and to use, one       *)
(* virtual machine or Redis object; or w changes pSockfdMap, which has no  *)
(* lock, while the epoll thread uses it or v changes it.                   *)
Overlap(w, v) ==
    \/ /\ w # v /\ user[w] = user[v] /\ user[w] \in vms
       /\ pc[w] \in {"deleteOldVm", "deleteVm"}
       /\ pc[v] \in {"deleteOldVm", "deleteVm", "run"}
    \/ /\ w # v /\ user[w] = user[v] /\ user[w] \in redis
       /\ pc[w] \in {"dropOld", "drop"} /\ pc[v] \in {"dropOld", "drop", "run"}
    \/ pc[w] = "forgetOld" /\ epc \in {"events", "close"}
    \/ w # v /\ pc[w] = "forgetOld" /\ pc[v] = "forgetOld"

Fault ==
    /\ \/ EpollMisses
       \/ \E w \in Workers : WorkerMisses(w)
       \/ \E w, v \in Workers : Overlap(w, v)
    /\ fault' = TRUE
    /\ UNCHANGED <<kernelSide, maps, amount, objects, epoll, lists, workers, history>>

EpollStep ==
    \/ EpollWait
    \/ \E c \in Clients, f \in Fds : Accept(c, f)
    \/ \E f \in Fds : Read(f)
    \/ Close
    \/ PutBatch

WorkerStep(w) ==
    \/ Take(w) \/ Login(w) \/ GetOld(w) \/ EraseOld(w) \/ DeleteOldVm(w)
    \/ CloseOld(w) \/ ForgetOld(w) \/ UncountOld(w) \/ DropOld(w) \/ FreeOld(w)
    \/ SetUid(w) \/ AddVm(w) \/ Load(w) \/ AddUid(w) \/ AddSocket(w) \/ ReadUid(w)
    \/ Run(w) \/ FindOut(w) \/ EraseOut(w) \/ FreeOut(w) \/ DeleteVm(w) \/ Drop(w)
    \/ Finish(w)

Next ==
    /\ ~fault
    /\ EpollStep \/ (\E w \in Workers : WorkerStep(w)) \/ Fault

Spec == Init /\ [][Next]_vars

------------------------------------------------------------------------------
Labels == {"idle", "login", "getOld", "eraseOld", "deleteOldVm", "closeOld",
           "forgetOld", "uncountOld", "dropOld", "freeOld", "setUid", "addVm", "load",
           "addUid", "addSocket", "readUid", "run", "findOut", "eraseOut", "freeOut",
           "deleteVm", "drop", "finish"}

KernelTypes ==
    kernel \in [Fds -> Clients \cup {None}] /\ watched \subseteq Fds

TableTypes ==
    /\ byFd \in [Fds -> Clients \cup {None}] /\ byUid \in [Users -> Clients \cup {None}]
    /\ vms \subseteq Users /\ sockets \subseteq Users /\ redis \subseteq Users
    /\ amount \in Int

HeapTypes ==
    /\ heap \in [Clients -> {"none", "live", "freed"}]
    /\ fd \in [Clients -> Fds \cup {None}] /\ uid \in [Clients -> Users \cup {None}]

EpollTypes ==
    /\ epc \in {"events", "put", "close"} /\ ready \subseteq Fds
    /\ efd \in Fds \cup {None} /\ ecl \in Clients \cup {None}
    /\ batch \in Seq(Message)

ListTypes ==
    /\ queue \in [Workers -> SUBSET ((1..MaxReads) \X (Seq(Message) \ {<<>>}))]
    /\ rest \in [Workers -> Seq(Message)]

WorkerTypes ==
    /\ pc \in [Workers -> Labels] /\ msg \in [Workers -> Message \cup {NoMessage}]
    /\ user \in [Workers -> Users \cup {None}] /\ old \in [Workers -> Clients \cup {None}]

HistoryTypes ==
    /\ reads \in 0..MaxReads /\ logins \in [Clients -> 0..MaxLogins] /\ fault \in BOOLEAN
    /\ entered \subseteq Clients /\ again \subseteq entered /\ crossed \subseteq Users

(* Every variable keeps its type. *)
TypeOK ==
    /\ KernelTypes /\ TableTypes /\ HeapTypes /\ EpollTypes /\ ListTypes /\ WorkerTypes
    /\ HistoryTypes

(* pSockidMap never holds a deleted Client, unless the client's password  *)
(* was right once more when it had been entered: whoever deletes a Client, *)
(* logout or a relogin on any thread, has taken it out of the map, and     *)
(* neither a refused nor a failed login, nor what comes after it, puts it  *)
(* back (Gate.cpp:290-345, 732-796).                                       *)
OnlineClientsLive ==
    \A u \in Users : byUid[u] # None => Alive(byUid[u]) \/ byUid[u] \in again

(* clientAmount is never more than the connections that are open and those *)
(* a relogin has closed and is about to uncount: no path closes one and    *)
(* forgets to uncount it (ClassTcpNet.cpp:293-305, Gate.cpp:762-774).      *)
NeverOvercounted ==
    amount <= Cardinality({f \in Fds : kernel[f] # None})
                 + Cardinality({w \in Workers : pc[w] \in {"forgetOld", "uncountOld"}})

(* What the epoll set watches, epoll can look up: a watched descriptor is  *)
(* in pSockfdMap under the client that has it, unless a relogin is between *)
(* closing a descriptor of that number and forgetting it, or the client of *)
(* a reused number was forgotten with it (ClassTcpNet.cpp:188-198,         *)
(* 293-300, Gate.cpp:766-772).                                             *)
WatchedIsMapped ==
    \A f \in watched :
        \/ kernel[f] # None /\ byFd[f] = kernel[f]
        \/ \E w \in Workers : pc[w] = "uncountOld" /\ fd[old[w]] = f

(* A user whom no worker is logging in or out is in all four tables or in  *)
(* none, whatever logins, failures, relogins and logouts of it came before *)
(* and whatever the workers do for other users; unless two of them were    *)
(* once at work for this one at the same time (Gate.cpp:317-345, 744-796,  *)
(* ClassPthreadMgr.cpp:343-356).                                           *)
MapsAgree ==
    \A u \in Users \ crossed :
        (\A w \in Workers : ~Serves(w, u)) =>
            /\ byUid[u] # None <=> u \in vms
            /\ u \in vms <=> u \in redis
            /\ u \in redis <=> u \in sockets

------------------------------------------------------------------------------
(* ClassPthreadMgr.cpp:343 says logout first removes the Client from the   *)
(* socket map; what pSockfdMap holds would then not be deleted.            *)
MappedClientsLive == \A f \in Fds : byFd[f] # None => Alive(byFd[f])
==============================================================================
