# Multithreaded-Server in TLA+

Specifications, model checks and proofs for the C++/Lua game server in `src/`.
Every definition is translated from the source; `PROJECT.json` names the lines
each one stands for (`map`), the runs, the mutants that show each property can
fail, the findings, the hazards and the theorems.

## 1. The system

One process, four kinds of threads, started by `Server.cpp` in this order:

| part | state | operations | who calls it |
|---|---|---|---|
| **Task list** (`ClassTaskPool`, `ClassPthreadMgr`) | two `std::list`s, two pointers to them, `lock`, `putMessageLock`, `cond` | `AddMsgIntoTaskPool`, `SwapTaskList`, the worker's loop `CheckTaskList` | epoll and timer put, one worker per list takes |
| **Dispatch** (`ClassTcpNet::AddMsgIntoTaskPool`, `ClassTimer::AddMsgIntoTaskPool`, end of the worker's loop) | `Client::workPthreadIndex`, `Client::workPthreadSameClientTaskNum`, `ClassServer::minTaskListIndex`, `limitDataList`, `noLimitDataList` | choose a list, count, put; uncount, give the list up, `Gc` | epoll, timer, workers |
| **Epoll network** (`ClassTcpNet`) | `pSockfdMap` (plain map), `pSockidMap` (SafeMap), epoll set | accept, read dry and cut at `'\|'`, `CloseClientByFd` | epoll thread |
| **Gate sessions** (`Gate.cpp`, end of the worker's loop) | the two maps, `GLOBAL_UID_SOCKET_MAP`, `GLOBAL_UID_REDISOBJECT_MAP`, the VM map, `clientAmount` | `Login`, `CheckoutReLogin`, logout | workers |
| **Gate registration** | code, time and email of a `Client`; the account table | `JudegeEmailBrandNew`, `GetRegisteredToken`, `Registered` | workers |
| **Persistence** (`DataBaseMgr`, `Redis`, `ClassDataBase`, `OffLineSystem`) | MySQL rows, Redis keys | load at login, save at logout, at shutdown or by interval | workers, signal handler |
| **Timer** (`ClassTimer`) | once list, loop list, `TIMER_LIST` with its lock | drain `TIMER_LIST`, fire once events by the hour, loop events by the second | timer thread; Lua adds |
| **Lua VMs** (`LuaServer`) | one VM per user without a mutex, one per public module with one; coroutines | `Main_`, hand-over to another VM, `Gc` | workers |
| **Monitor, Logger, Email, scripts** | console, files, sockets | print, send | main thread, operators |

How they interact: the epoll thread turns bytes into messages and puts them on
the task list of the client's worker, or on the shortest one; the worker runs
each message through Gate or Lua, which may change sessions, add timer events
and call other VMs; the timer thread puts messages like epoll does.  Nothing but
the locks named above orders these threads; `pSockfdMap`, the `Client` objects
and personal VMs have none.

What is hard: two producers against one consumer with three locks and pointers
that move (Task list); counters and indexes read and written by three threads in
different orders (Dispatch); object lifetimes across threads and reused
descriptors (Sessions); list surgery while iterating (Timer); saving while work
goes on (Persistence).  `PROJECT.json` lists each hazard at its line.

What makes each part correct:

* Task list: a message put is processed once; a batch in order; a woken worker
  finishes everything; the lock keeps storing and taking apart.
* Dispatch: the number of a client is the number of its messages in flight; one
  worker per client at a time; the index is usable whenever it is used; a VM is
  collected only when idle.
* Network: what a client sends is put whole, in order and once, wherever a recv
  ends; nothing is left in a socket that no edge will bring out.
* Sessions: the maps agree with each other; no thread uses a deleted client; the
  number of clients is the number of connections.
* Registration: an account needs a code mailed to its address in time, and a code
  makes one account.
* Persistence: what a script has set is found again, in Redis or in MySQL.
* Timer: every event fires at its hour, once; a loop event at its period.

## 2. Plan

Done, in order of importance: `TaskList` with `Mailbox` above it; `Dispatch` over
mailboxes; `Sessions`; `Timer`; `Persistence`; `Registration`; `Network`. Each has its
module of proofs (`TaskListProofs` and so on), and every safety property of a
passing run is a theorem (section 5).

To do, in this order:

* an abstract specification of what the epoll thread promises (the stream of each
  client as messages, handed over one after the other, closed by one logout)
  that `Network` implements, shown by TLC and then proved from the invariants of
  `NetworkProofs`;
* what becomes of a `Client` whose password is right once more after it was entered
  in `pSockidMap`, to the same account or to another (Gate.cpp:308, Gate.cpp:310);
* what a client, a save and a login see when a Redis command fails after the connect
  (ClassRedis.cpp:31, ClassRedis.cpp:77);
* the steps of `Dispatch` that lead to list -1, told as a property of what the index
  is while a client's messages are with a worker (ClassPthreadMgr.cpp:377).

Runs are few on purpose: a module has one passing run, and a violated property has a
run of its own.

## 3. Modules

### TaskList, Mailbox

`TaskList` is one `ClassTaskList` with its worker and its producers. `list` holds
the two `std::list`s, `pMess` and `pWork` are the two pointers, `lock` and
`putLock` the mutexes. Each producer has a program counter in
`AddMsgIntoTaskPool` (copy one message at a time, trylock, swap, signal,
unlock), the worker one in `CheckTaskList` (read both pointers without a lock,
lock once, then loop: check sizes, swap, sleep, pop, process). `pthread_cond_wait`
is three steps (sleep, wakeup, relock), with spurious wakeups. A message is the
pair of its put and its position. `Mailbox` is what other threads may rely on:
messages arrive in batches and each is processed at most once, after those before
it in its batch. `TaskList` implements it with no history beyond `accepted` and
`done`.

An `erase` that overlaps a `push_back` on one list is undefined: `Race` lets it go
wrong (`corrupt`), not racing lets it go well. The same convention is used below:
`crashed` in `Dispatch` and `fault` in `Sessions` are states in which something
undefined has happened; nothing moves and nothing is claimed after it.

### Dispatch

Which list a message goes to. `idx` and `num` are the client's two atomics.
The epoll thread loads the index, then the number, then adds, then sets; the
timer loads the number first; the worker subtracts, loads, resets, collects. Each
atomic access is one action. Task lists are sets, as `Mailbox` allows. What a
message does is abstracted to what the bookkeeping sees: a login may make the
client a player, a malformed message leaves the worker's local `uid` as it was.
Step "gc" is the worker in `LuaBaseVm::Gc`, which checks only the interval.
Not in this module: the end of a connection, a successful second login on one
connection, a user id changed by a hand-over between virtual machines, and
"System" events, which carry no client and are not counted.

### Sessions

Which connection, `Client` and session exist. State: the kernel's open
descriptors and the epoll set; `pSockfdMap` (`byFd`), `pSockidMap` (`byUid`), the
VM map (`vms`), `GLOBAL_UID_SOCKET_MAP` (`sockets`), `GLOBAL_UID_REDISOBJECT_MAP`
(`redis`); `clientAmount` (`amount`); for each `Client` whether it is allocated
(`heap`), its `fd` and its `uid`. A `Client` object and the connection it was made
for are one name. The epoll thread accepts (any free number, so numbers are
reused), reads an event (some messages, the end of the connection, or an error),
closes, puts. A connection asks to log in up to `MaxLogins` times, to any account and
with a right or a wrong password. A worker takes a message and goes through `Login` with
`CheckoutReLogin`, `CreateLuaVmAfterLogin` and the map insertions, through a
request, or through a logout with `RemoveFromSockIdMap`, one access to shared
state per action; local steps are merged with the access before them.

A batch is carried out whole once begun (the worker holds `lock` while its list
is not empty), but batches may overtake each other: that is what an early swap
does. A client with messages pending keeps its worker, as `Dispatch` shows for
epoll; the timer, whose events reach players only through a function offered to
scripts, is left out here. Every operation of `SafeMap` is one step although some
take no lock. Deleting a virtual machine or a Redis object is one step with
taking it out of its map, because an overlap of that with another delete or a
use is a fault anyway (`Overlap`). `fault` also stands for a deleted `Client` that
is used or deleted again, an event whose descriptor is in no map, and a relogin
that changes `pSockfdMap` while epoll uses it. The uid of a client that has not
logged in is its descriptor's number, in the model `None`: account ids are
assumed not to be descriptor numbers. Three histories name what a property leaves
out: `entered` are the clients that have been put into `pSockidMap`, `again` those of
them whose password was right once more after that (the `Client` then gets a second
uid, or deletes itself), and `crossed` the users for whom two workers were once logging
in or out together. Nothing in the code depends on them. Descriptors other than those of
connections (databases, files) are not modelled; a number closed twice may be
one of theirs too.

### Network

The epoll thread against TCP. `sent`, `unread`, `fin` and `reset` are what a
connection's other end has done and what of it is still in the socket; a
reset leaves what had arrived. `backlog` is the accept queue. `watched` and `ready`
are epoll: an edge puts a watched descriptor on `ready`, `epoll_wait` takes off
those that still have something to report, in order. The thread goes through
`Init`, the loop, one event after the other, and for a client's event `Recv`, `Cut` (one
message at a time) until the socket is empty, closed or in error. `HandOver` is
`AddMsgIntoTaskPool`: at once or at the end of the round; which of the two is
`Dispatch`. Bytes are abstracted to `'|'` and the positions of the others, so two
messages never look alike. `ListenFails`, `AcceptFails` (also `fcntl`) and
`WaitFails` are the failures the code handles, at most `MaxFailures`. A relogin
that closes a descriptor from a worker, and the reuse of descriptors, are in
`Sessions`. `noLimitDataList` is kept apart by client: only the order of one client's
messages is observed, as a list may go to any worker. `Keep` takes from a list what is
in a set, for epoll's list of what has happened.

### Timer

`TIMER_LIST` is a sequence of entries that scripts append to; the timer thread
wakes, moves entries to the once or loop list, and scans both. The environment is
what scripts may ask for (the scripts at hand ask for one loop event of the module
RANK, every 5) and users who log in and out. A loop event counts wakes: `timerIntervalTime`
is 5 seconds, so an event asked for with time t comes every t + 1 wakes, although
comments call its fields seconds. A put for a deleted `Client` is `fault`. A once
event that is put again hands over the `MsgPackage` of its first put, which the worker
may have deleted by then: that is one more put here, not a `fault`, and the properties
that hold do not say that it is harmless.

### Persistence

One row and one key per user and personal module. A thread goes over the modules
in any order (the map of modules has an order of its own) and does one MySQL or
Redis command per step; a script's set is its last command, what it did
before is not seen by others. `saveType` is chosen at the beginning. `conn` is
`GLOBAL_UID_REDISOBJECT_MAP`. A deleted Redis object that is used again is `fault`.
`SaveAllClientData` erases the entry its iterator is at: what it comes to next
is undefined, so the model goes on with any user or stops. Workers run on
during a shutdown until `exit`. `Crash` and `Start` may come at any time; memory is lost, the
two stores are not. Two threads that use one connection of hiredis at once are
not modelled. INTERVAL_SAVE saves nothing, as in the code. `torn` are the keys
set while a thread carried older data of them, `crossed` the users saved
during their login: hazards of the code that the properties exclude by name. What
fails is the connect to Redis and any MySQL command. A Redis command that fails after
the connect is outside the model: `Redis::set` ignores its reply, and `checkoutData` takes
an error reply for data (ClassRedis.cpp:77, ClassRedis.cpp:31).

### Registration

A request for a code (`JudegeEmailBrandNew`, then the mail, step by step, then the
code is stored in the `Client`), and a request to register (`JudgeRegisterCode`, then the
insertion). Requests of one client are carried out one at a time, as
`OneThreadUntilTimer` of `Dispatch` says for clients the timer has nothing for. The code
is a function of the second it is made in (`srand(time)`), and two seconds may
make the same one. A mail may have been delivered although the dialogue fails
after it; an insertion may have taken place although its reply is lost. An
address too short for the erase at the end of `Registered` ends the process.

## 4. Runs

Deadlock checking is off everywhere, because a behaviour may stop: puts, reads
and timer events are bounded, and nothing moves after a fault.

| run | instance | shows |
|---|---|---|
| `task_list` | epoll (0 to 2 messages a put), timer (1), 3 puts | types, `NothingLostOrRepeated`, `BatchInOrder`, `CachedPointersCurrent`, `WokenWorkerDrainsBoth`, `ImplementsMailbox` |
| `dispatch` | 1 client, 2 lists, 2 reads of up to 2 messages, 1 timer event | types, `CountIsPendingOrLeaked`, `OneThreadUntilTimer` |
| `sessions` | 2 connections, 2 descriptors, 2 accounts, 2 workers, 2 reads of up to 2 messages and an end, 2 logins a connection | types, `OnlineClientsLive`, `WatchedIsMapped`, `NeverOvercounted`, `MapsAgree` |
| `network` | 2 connections, one of which sends up to 3 bytes, 2 bytes a recv, 2 events a wait, 1 failure | types, `HandedAsSent`, `NothingLeftBehind`, `AcceptNeverBlocks`, `EveryMessageIsPut`, `FirstIsAccepted` |
| `timer` | 1 user with 2 sessions, 2 hours, 2 events of any kind | types, `OnceWhenHoursAgree`, `OnceLeaves`, `LoopsGoOn`, `EntriesTaken` |
| `persistence` | 1 user, 2 modules, 2 values, 2 workers and the handler, LOGOUT_SAVE or SERVER_DOWN_SAVE, 1 change by a script, any number of crashes | types, `NothingForgotten`, `OnlineIsCached` |
| `registration` | 2 clients, 2 workers, 2 addresses (1 short), 3 seconds, codes good for 1, 2 mails | types, `AccountsAreProven`, `CodeUsedOnce` |

Why these bounds are enough: three puts are needed for a swap by a producer, one by
the worker and one that is stranded, and no fourth adds an ordering of the two
pointers. Two messages of one client on two reads are the least for an index to be
reset late; a third read only repeats it (checked once with 2 clients and 3 reads of
one message, 6.8 million states). A relogin needs two connections. A read can bring a
login, a request and the end of the connection together, so two reads give two full
sessions, and two logins in one read are a retry after a wrong password, a second
login to the same account or one to the other. A number is reused when the second
connection is accepted after the first has ended: its own relogin then closes it.
That a third connection has the number, while the second logs in, was checked once
with 3 connections and 1 account (4.6 million states), and 3 reads of one message
with 2 accounts (0.8 million); the proofs are for any number of each. Three bytes
that arrive one by one or together put a recv's end before, in and behind a message
and its `'|'`, and give two messages in one recv; the other connection is there for
its place in the backlog, in a round and among the events (checked once with a byte
of its own, 1.0 million states). Two events are an earlier and a later one, of one
hour or of two. Two seconds that make one code, and a third that makes another, give
a code that is repeated, late or replaced.

Two modules are the least for a save, a load or a crash to stop between them, and
two workers for a login to overlap the save of the last logout; one change by a
script is enough to tell newer data from older.

Symmetry is used in `sessions`, `registration` and `persistence`, whose properties are invariants.

The violated properties, each what a comment of the code says:

| run | what happens |
|---|---|
| `task_list_lost_wakeup` | a put between the worker's last size check and its sleep is not signalled; the message waits for the next put |
| `dispatch_two_threads` | epoll or timer reads index and number before the other has counted and set, and the two choose different workers |
| `dispatch_gc_busy` | a worker has read the number zero; epoll then counts the client's next request and sends it to another list; the first worker collects the virtual machine while the second runs the request in it (1 client, 2 lists, 3 reads of one message, no timer event) |
| `sessions_map_dangles` | after `c_logout` the deleted client stays in `pSockfdMap` |
| `timer_fires_once` | with an event of an earlier hour in front, that one is lost and the one that is due fires twice |

What the models also show, without a run of its own:

* `TaskList`: the worker's own swap gives it the list a producer is copying to
  (`Racing` is reachable).
* `Dispatch`: the worker resets the index after epoll has counted new messages, so
  the next event uses list -1 (`crashed` is reachable); messages of a client that
  is not logged in are never uncounted (the leaked ones of `CountIsPendingOrLeaked`).
* `Sessions`: a relogin closes the number of a lost connection, which another
  client may have been given; a failed login leaves the uid set, and that
  connection's logout ends the session of the one that did log in.
* `Network`: connections that arrive together are accepted one by event, the rest
  waits for a newcomer (`FirstIsAccepted` is about the first only); a reset
  connection is passed over and never logged out; an error of `epoll_wait` ends the
  thread; a round that `epoll_wait` has begun before the shutdown is still carried out.
* `Persistence`: with SERVER_DOWN_SAVE the data of a user who has left before the
  shutdown is not written to MySQL; it stays in Redis. An account without rows
  in MySQL cannot log in.
* `Registration`: nothing here keeps two accounts from one address: newness is asked
  only when the code is. A failed dialogue leaves a client with a mailed code
  that the server does not know.

`NeverOvercounted` is one-sided for a reason: a lost connection whose user logs in
again before its logout is carried out is uncounted twice, so `clientAmount` may
be less than the number of connections, never more. `OnceWhenHoursAgree` has
its premise because of `timer_fires_once`. `AcceptNeverBlocks` matters because the
listening socket is a blocking one: a second accept in a round would stop the
server for all.

Fairness (`FairSpec`): in `TaskList`, a producer inside a put and the worker take
their next step if they can. They are threads of a preemptive scheduler and the
locks they wait for are released by threads that are fair too. Nobody has to
start a put and no wakeup has to be spurious. In `Network` the epoll thread takes its next step; the
calls that fail are not part of that, so that fairness never forces a failure, and clients do
nothing unless they want to. In `Timer` the timer thread runs (its `select` returns and the
lock it waits for is held for a push or a pop) and time goes on. Weak fairness is enough
because the waits end in states that stay enabled.

## 5. Proofs

`TaskListProofs` proves, for any set of producers, any batch sizes and any number
of puts:

| theorem | says |
|---|---|
| `TypeInvariant` | `Spec => []TypeOK` |
| `Conservation` | `Spec => []NothingLostOrRepeated` |
| `BatchOrder` | `Spec => []BatchInOrder` |
| `PointersCurrent` | `Spec => CachedPointersCurrent` |
| `Refinement` | `Spec => ImplementsMailbox` |

They assume only `ThreadsAssumption` (worker, producers and "nobody" differ) and
`BatchAssumption` (batch sizes are natural numbers).

None of the properties is inductive by itself. The inductive invariant is

    IInv == TypeOK /\ LocksHeld /\ HandsFull /\ NothingLostOrRepeated /\ Ordered

`LocksHeld` ties each mutex to the program counters of its holder: without it two
producers could be copying, and a new batch could meet an old one. `HandsFull`
says what each thread holds outside the lists at each line. `Ordered` extends
`BatchInOrder` to the lists: what comes before a message in its batch is gone or
ahead of it on its own list. It holds although lists are swapped during a copy
because the copy keeps writing to the list it began with. The refinement maps
`BeginPut` to the mailbox's `Accept`, `Process` to its `Finish`, every other step to a
stutter.

`PersistenceProofs` proves, for any users, modules, workers and number of changes:

| theorem | says |
|---|---|
| `PersistenceTypeOK` | `Spec => []TypeOK` |
| `NothingIsForgotten` | `Spec => []NothingForgotten` |
| `OnlineAreCached` | `Spec => []OnlineIsCached` |

from `PersistenceAssumption` (no data is no value, the handler is no worker, nobody is
no user and no module). The inductive invariant of the first two is

    IInv == TypeOK /\ Placed /\ CarriedIsLast /\ NothingForgotten

`Placed` says which thread works for whom and on what. `CarriedIsLast` is what
makes the property inductive: data that a thread is about to write, to MySQL or
to Redis, is the last that was set unless the key is torn, and a key that is
about to be released has its last data in MySQL. Without it a save could put
back old data, and a release could drop new data. `OnlineAreCached` adds

    OInv == (\A w : LoadedStays(w)) /\ Stopped /\ OnlineIsCached

`LoadedStays`: while a user who is not crossed logs in, nobody is about to release a
key of that user, and what has been loaded is still there. `Stopped`: outside a run of
the server no thread works and nobody is online, so a restart begins with nothing.

`DispatchProofs`, for any clients, number of lists, batches and timer events:

| theorem | says |
|---|---|
| `DispatchTypeOK` | `Spec => []TypeOK` |
| `CountIsExact` | `Spec => []CountIsPendingOrLeaked` |
| `OneThreadWithoutTimer` | `Spec => []OneThreadUntilTimer` |

from `DispatchAssumption` (nobody is no client, there is a list, the bounds are
numbers). The inductive invariant of the first two is

    CInv == TypeOK /\ InHand /\ Scanned /\ (~crashed => Fresh /\ Apart /\ Counted)

A number that is right by count stays right only if a message that is added is new
(`Fresh`: a read or a timer event has a number of its own) and one that is moved
or uncounted is nowhere else (`Apart`). `InHand` says what the producers and the
workers hold at each line, `Scanned` that there is nothing to dispatch before the
shortest list was first looked for. It holds although number and index are
loaded and stored in different orders by three kinds of threads, because each
changes the number with one atomic addition.

For one worker per client `OneHome` is added, for as long as the timer has put nothing:
what the workers have of a client is with one of them, and that is the one that the
index names, the one that epoll has loaded, and the shortest list that the messages
without one are collected for (`Gathered`, `Loaded`). The step that matters is the
worker's reset of the index to -1: it may come after epoll has read the index, so
what epoll has loaded is compared with where the messages are, not with the index.

`SessionsProofs`, for any clients, descriptors, users, workers and number of logins:

| theorem | says |
|---|---|
| `SessionsTypeOK` | `Spec => []TypeOK` |
| `WatchedCanBeLookedUp` | `Spec => []WatchedIsMapped` |
| `CountNeverRunsAhead` | `Spec => []NeverOvercounted` |
| `TablesAgree` | `Spec => []MapsAgree` |
| `OnlineAreNeverDeleted` | `Spec => []OnlineClientsLive` |

from `SessionsAssumption` alone. The last two leave out by name what the code does
not keep, and TLC finds them violated without the exception. Two logins of one
user on two workers may each find nobody to replace; when one of them succeeds and the
other fails, what the failed one has taken from the tables stays missing (`crossed`).
A `Client` that has been entered and whose password is right once more, for another
account, has the second uid while `pSockidMap` names it under the first as well, and its
logout takes out only the second before it deletes it (`again`; Gate.cpp:310, among
the hazards). Refused passwords, failed logins, retries after them, and other
connections' relogins are no exceptions.

    TInv == TypeOK /\ BatchInHand /\ MsgInHand /\ Born /\ WatchedIsMapped

carries the first two. `Born` says that who is online, or about to be replaced, has had
an object: a client that was never accepted cannot be closed. `Counted` adds
`NeverOvercounted` with finite sets, so that they can be counted: a close takes one from
the connections when the epoll thread or the relogin that does it has still to
uncount it.

Both of the others need that one worker has all messages of a client and a batch is
one client's, wherever batches overtake each other (`Handled`); so only its own worker
changes the uid of a `Client`.

    AInv == Handled /\ OwnUid /\ Agreeing

`Agreeing` gives, for each line of a login or a logout, which of the four tables have
the user in hand (`HalfWay`), as long as the user is not crossed; a user whom nobody serves
is in all of them or in none. A worker moves the tables for the user it has in hand
only, which needs that between `SetUid` and `AddUid` the client's uid is that user
(`OwnUid`), since `AddIntoSockIdMap` asks the `Client` for it.

    OInv == Handled /\ EnteringIsNew /\ OnlineEntered
            /\ OldTakenOut /\ LeaverTakenOut /\ OnlineClientsLive

The argument of `OnlineAreNeverDeleted`: a client is put into `pSockidMap` either for the
first time or after its password was right once more (`EnteringIsNew`); unless that
happened, who is in the map has the uid it is entered under (`OnlineEntered`), so that
the one entry a relogin or a logout erases, by uid, is the only one
(`OldTakenOut`, `LeaverTakenOut`); and once erased it is not put back.

`NetworkProofs`, for any clients, streams, sizes of recv's buffer and of a round:

| theorem | says |
|---|---|
| `NetworkTypeOK` | `Spec => []TypeOK` |
| `AcceptAlwaysFinds` | `Spec => []AcceptNeverBlocks` |
| `PutAsSent` | `Spec => []HandedAsSent` |
| `NothingWaits` | `Spec => []NothingLeftBehind` |

from `NetworkAssumption` (the listening socket is no client, buffers and rounds are not
empty, the bounds are numbers). The inductive invariant is

    EInv == TypeOK /\ EventsOnce
    IInv == EInv /\ \A c \in Clients : InOrder(c) /\ Heard(c) /\ Accounted(c)

`TypeOK` says too that residue and buffer together are the end of what was sent,
whatever recv cut. `EventsOnce`: a socket has one event in a round at most, and is
watched while it has; so the backlog, from which only the thread takes, still has the
one that the listening socket's event is about. `InOrder`: what has been cut ends
with a `'|'`, and outside the cutting loop the residue has none. `Heard`: bytes or an end
in a watched socket's buffer come with an edge or an event that is pending, which is what the do-while
of `StartEpoll` is for. `Accounted`: what has been put of a client, with what waits
in the two lists, is the messages of what was cut, and the logout of a client that has
closed; after an error of recv it is a prefix of them. Lemmas say what one byte
more, or a cut, does to the messages of a stream (`OneMoreMessage`, `MessagesOfPart`,
`MessagesWithoutRest`), and that `Keep` keeps order and members.

`TimerProofs`, for any users, hours, times and numbers of events:

| theorem | says |
|---|---|
| `TimerTypeOK` | `Spec => []TypeOK` |
| `OnceIsExact` | `Spec => []OnceWhenHoursAgree` |

from `TimerAssumption`. The inductive invariant adds `IdsInOrder` (events are taken in the
order they were asked for, so that two in a list are never one) and `PutsAreKept`
(nothing is put that was not taken) to the two properties. What the scan takes first
is a least element; that there is one is proved from the well-foundedness of <.

`RegistrationProofs`, for any clients, workers, addresses and times:

| theorem | says |
|---|---|
| `RegistrationTypeOK` | `Spec => []TypeOK` |
| `AccountsAreAlwaysProven` | `Spec => []AccountsAreProven` |
| `CodesAreUsedOnce` | `Spec => []CodeUsedOnce` |

from `RegistrationAssumption`, which lets two seconds make one code. The inductive
invariant is about who has a delivered mail: the worker that has sent it, the client
that holds its code, the worker that registers with it, or the account, one of them at
a time (`OneOwner`); and what its owner has of it is what the mail says (`AsMailed`,
`ProvenByItsMail`). A code may be mailed twice, a mail never belongs to two.

Only model-checked, as liveness under fairness and `ENABLED` are out of the prover's
reach: `WokenWorkerDrainsBoth` of `TaskList`, `EveryMessageIsPut` and `FirstIsAccepted`
of `Network`, `OnceLeaves`, `LoopsGoOn` and `EntriesTaken` of `Timer`. The five violated
properties are refuted by TLC's behaviours.

## 6. Not modelled

* Monitor: the loop that runs prints sizes and sets a condition that only a get
  returns; both sweeps that would change sessions are commented out.
* Offline data: nothing creates an `OffLineSystem`, and its Redis pointer is never
  set. `DataBaseMgr` copies the rows into Redis at start, over what a save that
  failed may have left there, and back at shutdown.
* Lua: the scripts at hand fail or end at once wherever they would hand over between virtual
  machines; the public machine's mutex is taken and released in one function.
  What scripts ask of the server (get, set, timer events) is in `Persistence` and `Timer`.
* Start: the steps of `main` before the threads are sequential.
* Logger and the manual test clients are input and output; `json.lua` is third-party.
* The functions nothing calls (`RemoveClientByUid`, `AddClientIntoUidMap`,
  `CheckIsExistByUid`), and the loading and saving of public data, which do nothing.
* The mail server's silence: `recv` in `SendEmail` has no timeout, and a worker that
  waits there holds up its list for ever.
