------------------------------- MODULE Network -------------------------------
(***************************************************************************)
(* The epoll thread: it starts to listen, accepts connections, reads what  *)
(* has arrived until a socket is empty, cuts it into messages and hands    *)
(* them over.  Events are edge-triggered: a socket is reported when        *)
(* something new happens to it, and never again for what it then still     *)
(* holds.                                                                  *)
(*                                                                         *)
(* A client is one connection.  Its bytes are Bar ('|') or their own       *)
(* position in its stream, so that no two messages look alike.  The        *)
(* listening socket is Server.                                             *)
(***************************************************************************)
EXTENDS Integers, Sequences, SequencesExt

CONSTANTS Clients,
          Server,       \* serverSock
          MaxEvents,    \* Config::maxEpollEvent
          BufferSize,   \* Config::maxReadDataSize
          MaxBytes,     \* bound: bytes each client sends
          MaxFailures   \* bound: calls of the kernel that fail

ASSUME NetworkAssumption ==
    /\ Server \notin Clients
    /\ MaxEvents \in Nat \ {0} /\ BufferSize \in Nat \ {0}
    /\ MaxBytes \in [Clients -> Nat] /\ MaxFailures \in Nat

Bar    == 0
Logout == <<-1>>    \* the c_logout that the thread itself puts

VARIABLES
    state,      \* where each connection is
    backlog,    \* connections nobody has accepted yet
    sent,       \* history: all a client's bytes
    unread,     \* those still in the socket's buffer
    fin, reset, \* how the client has ended the connection
    watched,    \* the descriptors that epoll watches
    ready,      \* epoll's list of those something has happened to
    listening,
    npc,        \* where the epoll thread is
    events,     \* what epoll_wait has returned and is not handled yet
    residue,    \* messageResidue of each client
    limitDataList,
    noLimitDataList,    \* what of it is of each client
    handed,     \* history: the messages of each client that were put
    downing,    \* isServerDowning
    failures

sockets == <<state, backlog, sent, unread, fin, reset>>
kernel  == <<watched, ready, listening>>
thread  == <<npc, events, residue, limitDataList, noLimitDataList, handed>>
vars    == <<sockets, kernel, thread, downing, failures>>

Init ==
    /\ state = [c \in Clients |-> "new"] /\ backlog = <<>>
    /\ sent = [c \in Clients |-> <<>>] /\ unread = [c \in Clients |-> <<>>]
    /\ fin = [c \in Clients |-> FALSE] /\ reset = [c \in Clients |-> FALSE]
    /\ watched = {} /\ ready = <<>> /\ listening = FALSE
    /\ npc = "init" /\ events = <<>>
    /\ residue = [c \in Clients |-> <<>>]
    /\ limitDataList = <<>>
    /\ noLimitDataList = [c \in Clients |-> <<>>]
    /\ handed = [c \in Clients |-> <<>>]
    /\ downing = FALSE /\ failures = 0

------------------------------------------------------------------------------
(* The clients and the kernel. *)

(* The n-th of a set of numbers, counted from 0. *)
Nth(S, n) == CHOOSE i \in S : Cardinality({j \in S : j < i}) = n

(* What of the list l is in S, in the same order. *)
Keep(l, S) ==
    LET kept == {i \in DOMAIN l : l[i] \in S}
    IN  [n \in 1..Cardinality(kept) |-> l[Nth(kept, n - 1)]]

(* Something happens to socket s: an edge. *)
Mark(s) == ready' = IF s \in watched /\ ~Contains(ready, s)
                    THEN Append(ready, s) ELSE ready

Connect(c) ==
    /\ listening /\ state[c] = "new"
    /\ state' = [state EXCEPT ![c] = "waiting"]
    /\ backlog' = Append(backlog, c)
    /\ Mark(Server)
    /\ UNCHANGED <<sent, unread, fin, reset, watched, listening>>

Connected(c) == state[c] \in {"waiting", "open"} /\ ~reset[c]

Send(c) ==
    /\ Connected(c) /\ ~fin[c] /\ Len(sent[c]) < MaxBytes[c]
    /\ \E byte \in {Bar, Len(sent[c]) + 1} :
           /\ sent' = [sent EXCEPT ![c] = Append(@, byte)]
           /\ unread' = [unread EXCEPT ![c] = Append(@, byte)]
    /\ Mark(c)
    /\ UNCHANGED <<state, backlog, fin, reset, watched, listening>>

Shut(c) ==
    /\ Connected(c) /\ ~fin[c]
    /\ fin' = [fin EXCEPT ![c] = TRUE]
    /\ Mark(c)
    /\ UNCHANGED <<state, backlog, sent, unread, reset, watched, listening>>

(* Also the answer to what the server sends after the client has gone. *)
Reset(c) ==
    /\ Connected(c)
    /\ reset' = [reset EXCEPT ![c] = TRUE]
    /\ Mark(c)
    /\ UNCHANGED <<state, backlog, sent, unread, fin, watched, listening>>

Outside == /\ \E c \in Clients : Connect(c) \/ Send(c) \/ Shut(c) \/ Reset(c)
           /\ UNCHANGED <<thread, downing, failures>>

------------------------------------------------------------------------------
(* The epoll thread. *)

(* ClassTcpNet::Init. *)
Listen ==
    /\ npc = "init" /\ npc' = "add" /\ listening' = TRUE
    /\ UNCHANGED <<sockets, watched, ready, events, residue, limitDataList,
                   noLimitDataList, handed, downing, failures>>

Fail == failures < MaxFailures /\ failures' = failures + 1

(* That listen fails goes unnoticed: what is compared is the result of     *)
(* bind.                                                                   *)
ListenFails ==
    /\ npc = "init" /\ npc' \in {"end", "add"} /\ Fail
    /\ UNCHANGED <<sockets, kernel, events, residue, limitDataList,
                   noLimitDataList, handed, downing>>

(* The head of the loop: once the server goes down there is no next round. *)
Loop == npc' = IF downing THEN "end" ELSE "wait"

AddServer ==
    /\ npc = "add" /\ Loop
    /\ watched' = {Server}
    /\ ready' = IF backlog = <<>> THEN <<>> ELSE <<Server>>
    /\ UNCHANGED <<sockets, listening, events, residue, limitDataList,
                   noLimitDataList, handed, downing, failures>>

Reports(s) == IF s = Server THEN backlog # <<>>
                            ELSE unread[s] # <<>> \/ fin[s] \/ reset[s]

(* A reset adds EPOLLERR and EPOLLHUP to what is reported. *)
Event(s) == [fd |-> s, onlyIn |-> s = Server \/ ~reset[s]]

(* Only what still has something to report is reported, in order. *)
EpollWait ==
    /\ npc = "wait"
    /\ LET live == Keep(ready, {s \in watched : Reports(s)})
           n    == IF Len(live) < MaxEvents THEN Len(live) ELSE MaxEvents
       IN  /\ live # <<>>
           /\ events' = [i \in 1..n |-> Event(live[i])]
           /\ ready' = SubSeq(live, n + 1, Len(live))
    /\ npc' = "next"
    /\ UNCHANGED <<sockets, watched, listening, residue, limitDataList,
                   noLimitDataList, handed, downing, failures>>

(* Any error, an interruption included, ends the thread. *)
WaitFails ==
    /\ npc = "wait" /\ npc' = "end" /\ Fail
    /\ UNCHANGED <<sockets, kernel, events, residue, limitDataList,
                   noLimitDataList, handed, downing>>

(* A faulty Accept: it accepts until nobody is left. *)
AcceptAll ==
    /\ npc = "next" /\ events # <<>> /\ Head(events).fd = Server
    /\ backlog # <<>>
    /\ LET c == Head(backlog) IN
           /\ state' = [state EXCEPT ![c] = "open"]
           /\ watched' = watched \cup {c}
           /\ ready' = IF Reports(c) THEN Append(ready, c) ELSE ready
    /\ backlog' = Tail(backlog)
    /\ UNCHANGED <<sent, unread, fin, reset, listening, thread, downing, failures>>

(* One accept for an event; the socket is a blocking one. *)
Accept ==
    /\ npc = "next" /\ events # <<>> /\ Head(events).fd = Server
    /\ backlog # <<>>
    /\ LET c == Head(backlog) IN
           /\ state' = [state EXCEPT ![c] = "open"]
           /\ watched' = watched \cup {c}
           /\ ready' = IF Reports(c) THEN Append(ready, c) ELSE ready
    /\ backlog' = Tail(backlog) /\ events' = Tail(events)
    /\ UNCHANGED <<sent, unread, fin, reset, listening, npc, residue,
                   limitDataList, noLimitDataList, handed, downing, failures>>

(* accept fails, or fcntl does and the new descriptor is forgotten. *)
AcceptFails ==
    /\ npc = "next" /\ events # <<>> /\ Head(events).fd = Server
    /\ backlog # <<>> /\ Fail
    /\ \/ UNCHANGED <<state, backlog>>
       \/ /\ state' = [state EXCEPT ![Head(backlog)] = "lost"]
          /\ backlog' = Tail(backlog)
    /\ events' = Tail(events)
    /\ UNCHANGED <<sent, unread, fin, reset, kernel, npc, residue,
                   limitDataList, noLimitDataList, handed, downing>>

(* A faulty Client: what is not EPOLLIN alone ends the round. *)
ClientBreaks ==
    /\ npc = "next" /\ events # <<>> /\ Head(events).fd # Server
    /\ IF Head(events).onlyIn THEN npc' = "recv" /\ UNCHANGED events
                              ELSE events' = <<>> /\ UNCHANGED npc
    /\ UNCHANGED <<sockets, kernel, residue, limitDataList, noLimitDataList,
                   handed, downing, failures>>

(* A client's event: with anything beside EPOLLIN it is passed over. *)
Client ==
    /\ npc = "next" /\ events # <<>> /\ Head(events).fd # Server
    /\ IF Head(events).onlyIn THEN npc' = "recv" /\ UNCHANGED events
                              ELSE events' = Tail(events) /\ UNCHANGED npc
    /\ UNCHANGED <<sockets, kernel, residue, limitDataList, noLimitDataList,
                   handed, downing, failures>>

cur == Head(events).fd

(* A faulty Recv: what was left of the last one is overwritten. *)
RecvOverResidue ==
    /\ npc = "recv" /\ npc' = "cut"
    /\ LET n == IF Len(unread[cur]) < BufferSize THEN Len(unread[cur])
                                                 ELSE BufferSize
       IN  /\ n > 0
           /\ residue' = [residue EXCEPT ![cur] = SubSeq(unread[cur], 1, n)]
           /\ unread' = [unread EXCEPT ![cur] = SubSeq(@, n + 1, Len(@))]
    /\ UNCHANGED <<state, backlog, sent, fin, reset, kernel, events,
                   limitDataList, noLimitDataList, handed, downing, failures>>

Recv ==
    /\ npc = "recv" /\ npc' = "cut"
    /\ LET n == IF Len(unread[cur]) < BufferSize THEN Len(unread[cur])
                                                 ELSE BufferSize
       IN  /\ n > 0
           /\ residue' = [residue EXCEPT ![cur] = @ \o SubSeq(unread[cur], 1, n)]
           /\ unread' = [unread EXCEPT ![cur] = SubSeq(@, n + 1, Len(@))]
    /\ UNCHANGED <<state, backlog, sent, fin, reset, kernel, events,
                   limitDataList, noLimitDataList, handed, downing, failures>>

(* AddMsgIntoTaskPool: at once to the worker the client has (busy), or     *)
(* with the rest of this round.  Which of the two is in Dispatch.          *)
HandOver(msgs) ==
    /\ \/ /\ handed' = [handed EXCEPT ![cur] = @ \o msgs]
          /\ UNCHANGED noLimitDataList
       \/ /\ noLimitDataList' = [noLimitDataList EXCEPT ![cur] = @ \o msgs]
          /\ UNCHANGED handed
    /\ limitDataList' = <<>> /\ events' = Tail(events) /\ npc' = "next"

(* A faulty Cut: one recv for an event, as if it were level-triggered. *)
CutOnce ==
    /\ npc = "cut"
    /\ IF Contains(residue[cur], Bar)
       THEN LET i == SelectInSeq(residue[cur], LAMBDA byte : byte = Bar) IN
            /\ limitDataList' = Append(limitDataList, SubSeq(residue[cur], 1, i - 1))
            /\ residue' = [residue EXCEPT ![cur] = SubSeq(@, i + 1, Len(@))]
            /\ UNCHANGED <<npc, events, noLimitDataList, handed>>
       ELSE HandOver(limitDataList) /\ UNCHANGED residue
    /\ UNCHANGED <<sockets, kernel, downing, failures>>

(* The first '|' ends a message; without one, on to the next recv. *)
Cut ==
    /\ npc = "cut"
    /\ IF Contains(residue[cur], Bar)
       THEN LET i == SelectInSeq(residue[cur], LAMBDA byte : byte = Bar) IN
            /\ limitDataList' = Append(limitDataList, SubSeq(residue[cur], 1, i - 1))
            /\ residue' = [residue EXCEPT ![cur] = SubSeq(@, i + 1, Len(@))]
            /\ UNCHANGED npc
       ELSE npc' = "recv" /\ UNCHANGED <<residue, limitDataList>>
    /\ UNCHANGED <<sockets, kernel, events, noLimitDataList, handed, downing,
                   failures>>

(* recv finds nothing. *)
ReadDry ==
    /\ npc = "recv" /\ unread[cur] = <<>> /\ ~fin[cur] /\ ~reset[cur]
    /\ HandOver(limitDataList)
    /\ UNCHANGED <<sockets, kernel, residue, downing, failures>>

(* recv returns 0: CloseClientByFd and a c_logout behind what came before. *)
ReadClose ==
    /\ npc = "recv" /\ unread[cur] = <<>> /\ fin[cur]
    /\ state' = [state EXCEPT ![cur] = "closed"]
    /\ watched' = watched \ {cur} /\ ready' = Keep(ready, watched')
    /\ HandOver(Append(limitDataList, Logout))
    /\ UNCHANGED <<backlog, sent, unread, fin, reset, listening, residue,
                   downing, failures>>

(* A faulty ReadFails: the list is not cleared. *)
ReadFailsKeeps ==
    /\ npc = "recv" /\ unread[cur] = <<>> /\ reset[cur] /\ ~fin[cur]
    /\ watched' = watched \ {cur} /\ ready' = Keep(ready, watched')
    /\ events' = Tail(events) /\ npc' = "next"
    /\ UNCHANGED <<sockets, listening, residue, limitDataList, noLimitDataList,
                   handed, downing, failures>>

(* recv fails: epoll forgets the client, and so does the list. *)
ReadFails ==
    /\ npc = "recv" /\ unread[cur] = <<>> /\ reset[cur] /\ ~fin[cur]
    /\ watched' = watched \ {cur} /\ ready' = Keep(ready, watched')
    /\ limitDataList' = <<>> /\ events' = Tail(events) /\ npc' = "next"
    /\ UNCHANGED <<sockets, listening, residue, noLimitDataList, handed, downing,
                   failures>>

(* A faulty Flush: more than one message of a client is needed. *)
FlushSome ==
    /\ npc = "next" /\ events = <<>> /\ Loop
    /\ IF \E c \in Clients : Len(noLimitDataList[c]) > 1
       THEN /\ handed' = [c \in Clients |-> handed[c] \o noLimitDataList[c]]
            /\ noLimitDataList' = [c \in Clients |-> <<>>]
       ELSE UNCHANGED <<handed, noLimitDataList>>
    /\ UNCHANGED <<sockets, kernel, events, residue, limitDataList, downing,
                   failures>>

(* The end of a round. *)
Flush ==
    /\ npc = "next" /\ events = <<>> /\ Loop
    /\ handed' = [c \in Clients |-> handed[c] \o noLimitDataList[c]]
    /\ noLimitDataList' = [c \in Clients |-> <<>>]
    /\ UNCHANGED <<sockets, kernel, events, residue, limitDataList, downing,
                   failures>>

Read == Recv \/ Cut \/ ReadDry \/ ReadClose \/ ReadFails

StartEpoll == EpollWait \/ Accept \/ Client \/ Read \/ Flush

epollListening == Listen \/ AddServer \/ StartEpoll

KernelFails == ListenFails \/ WaitFails \/ AcceptFails

(* Gate::ServerQuit, as far as this thread sees it. *)
ServerQuit ==
    /\ ~downing /\ downing' = TRUE
    /\ UNCHANGED <<sockets, kernel, thread, failures>>

Next == Outside \/ epollListening \/ KernelFails \/ ServerQuit

Spec     == Init /\ [][Next]_vars
(* The epoll thread runs; nobody else has to do anything. *)
FairSpec == Spec /\ WF_vars(epollListening)

------------------------------------------------------------------------------
(* Where a part of a stream of bytes ends, and what it says: the parts    *)
(* that a Bar ends.                                                        *)
Bars(s) == {0} \cup {i \in DOMAIN s : s[i] = Bar}

Messages(s) ==
    [n \in 1..Cardinality(Bars(s)) - 1 |->
        SubSeq(s, Nth(Bars(s), n - 1) + 1, Nth(Bars(s), n) - 1)]

(* All that a client's messages should become, its leaving included. *)
Due(c) == Messages(sent[c]) \o (IF fin[c] THEN <<Logout>> ELSE <<>>)

SocketTypes ==
    /\ state \in [Clients -> {"new", "waiting", "open", "lost", "closed"}]
    /\ backlog \in Seq(Clients) /\ IsInjective(backlog)
    /\ \A c \in Clients : Contains(backlog, c) <=> state[c] = "waiting"
    /\ sent \in [Clients -> Seq(Int)] /\ unread \in [Clients -> Seq(Int)]
    /\ fin \in [Clients -> BOOLEAN] /\ reset \in [Clients -> BOOLEAN]

KernelTypes ==
    /\ watched \subseteq Clients \cup {Server}
    /\ ready \in Seq(watched) /\ IsInjective(ready)
    /\ listening \in BOOLEAN

ThreadTypes ==
    /\ npc \in {"init", "add", "wait", "next", "recv", "cut", "end"}
    /\ events \in Seq([fd : Clients \cup {Server}, onlyIn : BOOLEAN])
    /\ npc \in {"recv", "cut"} => events # <<>> /\ cur \in Clients
    /\ residue \in [Clients -> Seq(Int)]
    /\ limitDataList \in Seq(Seq(Int))
    /\ npc \notin {"recv", "cut"} => limitDataList = <<>>
    /\ noLimitDataList \in [Clients -> Seq(Seq(Int))] /\ handed \in [Clients -> Seq(Seq(Int))]
    /\ downing \in BOOLEAN /\ failures \in 0..MaxFailures

(* How many of c's bytes have been cut into messages. *)
CutAt(c) == Len(sent[c]) - Len(residue[c]) - Len(unread[c])

(* Types; bytes that are not cut are in the residue or in the buffer. *)
TypeOK ==
    /\ SocketTypes /\ KernelTypes /\ ThreadTypes
    /\ \A c \in Clients :
          /\ CutAt(c) \in Nat
          /\ residue[c] \o unread[c] = SubSeq(sent[c], CutAt(c) + 1, Len(sent[c]))

(* What is put for a client is what it has sent, whole, in order and once, *)
(* wherever recv cut it, and nothing comes after its c_logout (StartEpoll).*)
HandedAsSent == \A c \in Clients : IsPrefix(handed[c], Due(c))

(* When the thread waits and no edge is pending, every whole message of a  *)
(* client that it has a way to hear of has been put: nothing sits in a     *)
(* buffer that only another message would bring out (the do-while of       *)
(* StartEpoll).                                                            *)
NothingLeftBehind ==
    npc = "wait" => \A c \in Clients \cap watched :
                        ~Contains(ready, c) /\ ~reset[c] => handed[c] = Due(c)

(* The thread, which accepts on a blocking socket, never stands in accept  *)
(* with nobody to accept: there are no more events than connections.       *)
AcceptNeverBlocks ==
    npc = "next" /\ events # <<>> /\ Head(events).fd = Server => backlog # <<>>

(* Nothing outside the thread's reach has gone wrong for c. *)
Undisturbed(c) == ~reset[c] /\ ~downing /\ failures = 0

(* Each message of an accepted client is put, and its leaving too, as long *)
(* as it is not reset and the thread is not stopped (StartEpoll).          *)
EveryMessageIsPut ==
    \A c \in Clients :
        state[c] \in {"open", "closed"} ~> handed[c] = Due(c) \/ ~Undisturbed(c)

(* An edge of the listening socket brings in who is first in the backlog   *)
(* (the accept in StartEpoll).  Those behind it wait for the next edge.    *)
FirstIsAccepted ==
    \A c \in Clients :
        (backlog # <<>> /\ Head(backlog) = c /\ Contains(ready, Server))
            ~> (state[c] # "waiting" \/ ~Undisturbed(c))
==============================================================================
