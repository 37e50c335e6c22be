-------------------------------- MODULE Timer --------------------------------
(***************************************************************************)
(* The timer thread: it takes the events that scripts leave on TIMER_LIST, *)
(* keeps them in a once list and a loop list, and puts their messages on   *)
(* the task lists when they are due.                                       *)
(*                                                                         *)
(* An entry of TIMER_LIST is a text; all that matters of it is the event   *)
(* type found anywhere in it, whom it is for and its time.  It is misread  *)
(* when its fields do not give the type found: an empty field spoils those *)
(* after it, and the type may be a word of another field.  The once list   *)
(* is sorted before every scan and the sort is stable, so it is a set in   *)
(* which an earlier hour, then an earlier arrival, comes first.            *)
(***************************************************************************)
EXTENDS Integers, Sequences

CONSTANTS Users,
          Others,       \* module names: whom a System event is for
          Hours,        \* hours in a day
          Times,        \* the times scripts ask for
          MaxEvents,    \* bound: events scripts ask for
          MaxLogins     \* bound: sessions there ever are

ASSUME TimerAssumption ==
    /\ Users \cap Others = {}
    /\ Hours \in Nat \ {0} /\ Times \subseteq Int
    /\ MaxEvents \in Nat /\ MaxLogins \in Nat

VARIABLES
    hour,       \* the wall clock
    scanned,    \* whether a scan of the once list has ended in this hour
    byUid,      \* pSockidMap: the Client of each user, 0 for none
    made,       \* how many Clients there have been
    asked,      \* how many events scripts have asked for
    TIMER_LIST,
    tpc,        \* where the timer thread is; while it drains it has the lock
    nowHour,    \* the hour the scan goes by
    onceEventList,
    loopEventList,
    gone,       \* history: what has been taken off the once list
    puts,       \* history: how often each once event was put on a task list
    fault       \* a deleted Client was used

clock    == <<hour, scanned>>
sessions == <<byUid, made>>
timer    == <<tpc, nowHour, onceEventList, loopEventList, gone, puts>>
scripts  == <<asked, TIMER_LIST>>
vars     == <<clock, sessions, scripts, timer, fault>>

Ids == 1..MaxEvents

Entry == [id : Ids, type : {"LoopEvent", "OnceEvent", "misread", "neither"},
          who : Users \cup Others, time : Times]

(* The Client has not been deleted, or the event has none. *)
Usable(e) == e.client = 0 \/ \E u \in Users : byUid[u] = e.client

Init ==
    /\ hour \in 0..Hours - 1 /\ scanned = FALSE
    /\ byUid = [u \in Users |-> 0] /\ made = 0
    /\ asked = 0 /\ TIMER_LIST = <<>>
    /\ tpc = "sleep" /\ nowHour = 0
    /\ onceEventList = {} /\ loopEventList = {} /\ gone = {}
    /\ puts = [i \in Ids |-> 0]
    /\ fault = FALSE

------------------------------------------------------------------------------
(* The world around the timer. *)

(* The clock strikes.  The timer scans every few seconds, so some scan has *)
(* begun and ended in the hour.                                            *)
HourPasses ==
    /\ scanned
    /\ hour' = (hour + 1) % Hours
    /\ scanned' = FALSE
    /\ UNCHANGED <<sessions, scripts, timer, fault>>

Login(u) ==
    /\ byUid[u] = 0 /\ made < MaxLogins
    /\ made' = made + 1
    /\ byUid' = [byUid EXCEPT ![u] = made']
    /\ UNCHANGED <<clock, scripts, timer, fault>>

(* The Client is taken out of the map and deleted. *)
Logout(u) ==
    /\ byUid[u] # 0
    /\ byUid' = [byUid EXCEPT ![u] = 0]
    /\ UNCHANGED <<made, clock, scripts, timer, fault>>

(* A script asks for an event; one for a user must be for a user online.   *)
(* The test comes before the lock, but what may happen between them may    *)
(* happen before the timer takes the entry too.                            *)
LuaAddEventIntoTimerList(e) ==
    /\ tpc # "drain"
    /\ asked < MaxEvents /\ e.id = asked + 1
    /\ e.who \in Users => byUid[e.who] # 0
    /\ asked' = asked + 1
    /\ TIMER_LIST' = Append(TIMER_LIST, e)
    /\ UNCHANGED <<clock, sessions, timer, fault>>

------------------------------------------------------------------------------
(* The timer thread. *)

(* A faulty Wake: a list of one entry is taken for empty. *)
WakeForTwo ==
    /\ tpc = "sleep"
    /\ tpc' = IF Len(TIMER_LIST) > 1 THEN "drain" ELSE "read"
    /\ UNCHANGED <<nowHour, onceEventList, loopEventList, gone, puts, clock, sessions,
                   scripts, fault>>

(* The list's size is read without the lock. *)
Wake ==
    /\ tpc = "sleep"
    /\ tpc' = IF TIMER_LIST # <<>> THEN "drain" ELSE "read"
    /\ UNCHANGED <<nowHour, onceEventList, loopEventList, gone, puts, clock, sessions,
                   scripts, fault>>

(* What an event is kept with; a user must be in pSockidMap. *)
Known(e) == e.who \in Others \/ byUid[e.who] # 0
ClientOf(e) == IF e.who \in Users THEN byUid[e.who] ELSE 0

AddLoopEvent(e) ==
    IF e.type = "LoopEvent" /\ e.time > 0 /\ Known(e)
    THEN {[id |-> e.id, client |-> ClientOf(e), nowTime |-> 0, tarTime |-> e.time]}
    ELSE {}

AddOnceEvent(e) ==
    IF e.type = "OnceEvent" /\ e.time \in 0..Hours - 1 /\ Known(e)
    THEN {[id |-> e.id, client |-> ClientOf(e), tarHour |-> e.time]}
    ELSE {}

Blocked == TIMER_LIST # <<>> => Head(TIMER_LIST).type = "neither"

(* The front of TIMER_LIST goes into its list or is dropped; one of        *)
(* neither type ends the drain and stays.                                  *)
TakeEntry ==
    /\ tpc = "drain" /\ ~Blocked
    /\ loopEventList' = loopEventList \cup AddLoopEvent(Head(TIMER_LIST))
    /\ onceEventList' = onceEventList \cup AddOnceEvent(Head(TIMER_LIST))
    /\ TIMER_LIST' = Tail(TIMER_LIST)
    /\ UNCHANGED <<asked, tpc, nowHour, gone, puts, clock, sessions, fault>>

EndDrain ==
    /\ tpc = "drain" /\ Blocked
    /\ tpc' = "read"
    /\ UNCHANGED <<nowHour, onceEventList, loopEventList, gone, puts, clock, sessions,
                   scripts, fault>>

(* A faulty ReadHour: the hour to come. *)
ReadNextHour ==
    /\ tpc = "read"
    /\ nowHour' = (hour + 1) % Hours
    /\ tpc' = "once"
    /\ UNCHANGED <<onceEventList, loopEventList, gone, puts, clock, sessions, scripts, fault>>

ReadHour ==
    /\ tpc = "read"
    /\ nowHour' = hour
    /\ tpc' = "once"
    /\ UNCHANGED <<onceEventList, loopEventList, gone, puts, clock, sessions,
                   scripts, fault>>

Sorts(a, b) == a.tarHour < b.tarHour \/ (a.tarHour = b.tarHour /\ a.id <= b.id)

First(S) == CHOOSE a \in S : \A b \in S : Sorts(a, b)

Due == {e \in onceEventList : e.tarHour = nowHour}

(* A faulty PutOnceEvent: the back of the list is removed. *)
PutAndPopBack ==
    LET last == CHOOSE a \in onceEventList : \A b \in onceEventList : Sorts(b, a) IN
    /\ tpc = "once" /\ Due # {}
    /\ fault' = ~Usable(First(Due))
    /\ puts' = [puts EXCEPT ![First(Due).id] = @ + 1]
    /\ onceEventList' = onceEventList \ {last}
    /\ gone' = gone \cup {last}
    /\ UNCHANGED <<tpc, nowHour, loopEventList, clock, sessions, scripts>>

(* The first event of the hour is put on a task list, and the front of the *)
(* list is removed.  An event that is put again hands over the MsgPackage  *)
(* of its first put, which the worker may have deleted: that is counted as *)
(* one more put, which FiresOnce is about, and is not a fault here.        *)
PutOnceEvent ==
    /\ tpc = "once" /\ Due # {}
    /\ fault' = ~Usable(First(Due))
    /\ puts' = [puts EXCEPT ![First(Due).id] = @ + 1]
    /\ onceEventList' = onceEventList \ {First(onceEventList)}
    /\ gone' = gone \cup {First(onceEventList)}
    /\ UNCHANGED <<tpc, nowHour, loopEventList, clock, sessions, scripts>>

EndScan ==
    /\ tpc = "once" /\ Due = {}
    /\ tpc' = "loop"
    /\ scanned' = (scanned \/ nowHour = hour)
    /\ UNCHANGED <<hour, nowHour, onceEventList, loopEventList, gone, puts,
                   sessions, scripts, fault>>

(* A faulty CheckoutLoopEventList: an event that was put is removed. *)
CheckoutLoopOnce ==
    /\ tpc = "loop"
    /\ fault' = \E e \in loopEventList : e.nowTime >= e.tarTime /\ ~Usable(e)
    /\ loopEventList' = {[e EXCEPT !.nowTime = @ + 1] :
                             e \in {d \in loopEventList : d.nowTime < d.tarTime}}
    /\ tpc' = "sleep"
    /\ UNCHANGED <<nowHour, onceEventList, gone, puts, clock, sessions, scripts>>

(* A faulty CheckoutLoopEventList: the time must be passed. *)
CheckoutLoopLate ==
    /\ tpc = "loop"
    /\ fault' = \E e \in loopEventList : e.nowTime > e.tarTime /\ ~Usable(e)
    /\ loopEventList' =
           {[e EXCEPT !.nowTime = IF @ > e.tarTime THEN 0 ELSE @ + 1] : e \in loopEventList}
    /\ tpc' = "sleep"
    /\ UNCHANGED <<nowHour, onceEventList, gone, puts, clock, sessions, scripts>>

(* The loop events that are due are put and start again, the others count. *)
CheckoutLoopEventList ==
    /\ tpc = "loop"
    /\ fault' = \E e \in loopEventList : e.nowTime >= e.tarTime /\ ~Usable(e)
    /\ loopEventList' =
           {[e EXCEPT !.nowTime = IF @ >= e.tarTime THEN 0 ELSE @ + 1] : e \in loopEventList}
    /\ tpc' = "sleep"
    /\ UNCHANGED <<nowHour, onceEventList, gone, puts, clock, sessions, scripts>>

TimerThread ==
    ~fault /\ (Wake \/ TakeEntry \/ EndDrain \/ ReadHour \/ PutOnceEvent \/ EndScan
                   \/ CheckoutLoopEventList)

Next ==
    /\ ~fault
    /\ \/ HourPasses \/ TimerThread
       \/ \E u \in Users : Login(u) \/ Logout(u)
       \/ \E e \in Entry : LuaAddEventIntoTimerList(e)

Spec == Init /\ [][Next]_vars

(* The timer thread runs, and time goes on. *)
FairSpec == Spec /\ WF_vars(TimerThread) /\ WF_vars(~fault /\ HourPasses)

------------------------------------------------------------------------------
(* Types; a loop event never counts past its time. *)
TypeOK ==
    /\ hour \in 0..Hours - 1 /\ nowHour \in 0..Hours - 1 /\ scanned \in BOOLEAN
    /\ byUid \in [Users -> 0..made] /\ made \in 0..MaxLogins
    /\ asked \in 0..MaxEvents
    /\ TIMER_LIST \in Seq(Entry)
    /\ tpc \in {"sleep", "drain", "read", "once", "loop"}
    /\ onceEventList \cup gone \subseteq
           [id : Ids, client : 0..MaxLogins, tarHour : 0..Hours - 1]
    /\ onceEventList \cap gone = {}
    /\ loopEventList \subseteq
           [id : Ids, client : 0..MaxLogins, nowTime : Nat, tarTime : Nat]
    /\ \A e \in loopEventList : e.nowTime <= e.tarTime
    /\ puts \in [Ids -> Nat] /\ fault \in BOOLEAN

(* As long as all once events are for one hour, each is put on a task list *)
(* exactly once, when it leaves the list (CheckoutOnceEventList).          *)
OnceWhenHoursAgree ==
    (\A a, b \in onceEventList \cup gone : a.tarHour = b.tarHour) =>
        /\ \A e \in gone : puts[e.id] = 1
        /\ \A e \in onceEventList : puts[e.id] = 0

(* "单次事件" (ClassTimer.h:18): a once event is put at most once. *)
FiresOnce == \A i \in Ids : puts[i] <= 1

(* Every once event leaves the list: no scan of its hour passes it by and  *)
(* no hour passes without a scan (CheckoutOnceEventList, TimerLooping).    *)
OnceLeaves == \A i \in Ids :
    (\E e \in onceEventList : e.id = i) ~> fault \/ \E e \in gone : e.id = i

(* A loop event comes due again and again, for ever                        *)
(* (CheckoutLoopEventList).                                                *)
LoopsGoOn == \A i \in Ids :
    []((\E e \in loopEventList : e.id = i)
       => []<>(fault \/ \E e \in loopEventList : e.id = i /\ e.nowTime = e.tarTime))

(* What a script has left on TIMER_LIST is taken off it, unless an entry   *)
(* of neither type stands before it (the drain in TimerLooping).           *)
EntriesTaken == \A i \in Ids :
    (\E k \in DOMAIN TIMER_LIST : TIMER_LIST[k].id = i)
        ~> \/ fault
           \/ \A k \in DOMAIN TIMER_LIST : TIMER_LIST[k].id = i =>
                  \E j \in 1..k : TIMER_LIST[j].type = "neither"
==============================================================================
