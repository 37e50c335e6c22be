----------------------------- MODULE TimerProofs ------------------------------
(***************************************************************************)
(* Timer, for any users, hours, times and numbers of events: types, and    *)
(* OnceWhenHoursAgree.                                                     *)
(***************************************************************************)
EXTENDS Timer, WellFoundedInduction, TLAPS

Kept == onceEventList \cup gone

(* Events are taken in the order in which scripts asked for them, so that  *)
(* a once event is known by its id.                                        *)
IdsInOrder ==
    /\ \A k \in DOMAIN TIMER_LIST : TIMER_LIST[k].id <= asked
    /\ \A j, k \in DOMAIN TIMER_LIST : j < k => TIMER_LIST[j].id < TIMER_LIST[k].id
    /\ \A e \in Kept : e.id <= asked
    /\ \A e \in Kept : \A k \in DOMAIN TIMER_LIST : e.id < TIMER_LIST[k].id
    /\ \A a, b \in Kept : a.id = b.id => a = b

(* Nothing is put that is not a once event. *)
PutsAreKept == \A i \in Ids : puts[i] # 0 => \E e \in Kept : e.id = i

IInv == TypeOK /\ IdsInOrder /\ PutsAreKept /\ OnceWhenHoursAgree

------------------------------------------------------------------------------
(* What AddOnceEvent makes, and what CheckoutOnceEventList takes first. *)
Once == [id : Ids, client : 0..MaxLogins, tarHour : 0..Hours - 1]

LEMMA Least ==
  ASSUME NEW S \in SUBSET Nat, S # {}
  PROVE  \E m \in S : \A n \in S : m <= n
  <1>1. \E m \in S : \A n \in S : <<n, m>> \notin OpToRel(<, Nat)
    BY NatLessThanWellFounded, WFMin, Zenon
  <1>2. \A m, n \in Nat : <<n, m>> \notin OpToRel(<, Nat) => m <= n
    <2>1. \A m, n \in Nat : n < m => <<n, m>> \in OpToRel(<, Nat)
      BY Zenon DEF OpToRel
    <2>2. \A m, n \in Nat : n < m \/ m <= n
      OBVIOUS
    <2> QED
      BY <2>1, <2>2, Zenon
  <1> QED
    BY <1>1, <1>2

LEMMA FirstIsIn ==
  ASSUME NEW S \in SUBSET Once, S # {}
  PROVE  First(S) \in S
  <1> USE TimerAssumption DEF Once, Ids
  <1> DEFINE hours == {e.tarHour : e \in S}
  <1>1. hours \in SUBSET Nat /\ hours # {}
    OBVIOUS
  <1>2. PICK h \in hours : \A k \in hours : h <= k
    BY <1>1, Least
  <1> DEFINE ids == {e.id : e \in {d \in S : d.tarHour = h}}
  <1>3. ids \in SUBSET Nat /\ ids # {}
    BY <1>2
  <1>4. PICK i \in ids : \A k \in ids : i <= k
    BY <1>3, Least
  <1>5. PICK a \in S : a.tarHour = h /\ a.id = i
    BY <1>4
  <1>6. \A b \in S : Sorts(a, b)
    <2> SUFFICES ASSUME NEW b \in S PROVE Sorts(a, b)
      OBVIOUS
    <2>1. h <= b.tarHour
      BY <1>2
    <2>2. b.tarHour = h => i <= b.id
      BY <1>4
    <2> QED
      BY <1>5, <2>1, <2>2 DEF Sorts
  <1> QED
    BY <1>6 DEF First

LEMMA InitInv == Init => IInv
  <1> SUFFICES ASSUME Init PROVE IInv
    OBVIOUS
  <1> USE TimerAssumption DEF Init
  <1>1. TypeOK
    <2>1. /\ nowHour \in 0..Hours - 1 /\ hour \in 0..Hours - 1
          /\ made \in 0..MaxLogins /\ asked \in 0..MaxEvents
      OBVIOUS
    <2>2. scanned \in BOOLEAN /\ fault \in BOOLEAN
      OBVIOUS
    <2>3. TIMER_LIST \in Seq(Entry)
      OBVIOUS
    <2> QED
      BY <2>1, <2>2, <2>3 DEF TypeOK
  <1>2. IdsInOrder /\ PutsAreKept /\ OnceWhenHoursAgree
    BY DEF IdsInOrder, PutsAreKept, OnceWhenHoursAgree, Kept
  <1> QED
    BY <1>1, <1>2 DEF IInv

(* The world around the timer changes none of its lists. *)
LEMMA WorldStep ==
  ASSUME IInv, UNCHANGED <<scripts, timer, fault>>,
         \/ HourPasses
         \/ \E u \in Users : Login(u) \/ Logout(u)
  PROVE  IInv'
  <1> USE TimerAssumption DEF IInv, scripts, timer
  <1>1. TypeOK'
    <2>1. /\ hour' \in 0..Hours - 1 /\ scanned' \in BOOLEAN
      <3>1. CASE HourPasses
        <4>1. hour + 1 \in Nat /\ Hours \in Nat \ {0}
          BY DEF TypeOK
        <4>2. (hour + 1) % Hours \in 0..Hours - 1
          BY <4>1
        <4> QED
          BY <3>1, <4>2 DEF HourPasses
      <3>2. ASSUME NEW u \in Users, Login(u) \/ Logout(u)
            PROVE  hour' = hour /\ scanned' = scanned
        BY <3>2 DEF Login, Logout, clock
      <3> QED
        BY <3>1, <3>2 DEF TypeOK
    <2>2. /\ byUid' \in [Users -> 0..made'] /\ made' \in 0..MaxLogins
      BY DEF TypeOK, HourPasses, Login, Logout, sessions
    <2> QED
      BY <2>1, <2>2 DEF TypeOK
  <1>2. IdsInOrder' /\ PutsAreKept' /\ OnceWhenHoursAgree'
    BY DEF IdsInOrder, PutsAreKept, OnceWhenHoursAgree, Kept
  <1> QED
    BY <1>1, <1>2

LEMMA LuaAddStep ==
  ASSUME IInv, NEW e \in Entry, LuaAddEventIntoTimerList(e)
  PROVE  IInv'
  <1> USE TimerAssumption
          DEF IInv, LuaAddEventIntoTimerList, clock, sessions, timer
  <1>1. TypeOK'
    BY DEF TypeOK
  <1>2. IdsInOrder'
    <2>1. /\ TIMER_LIST' = Append(TIMER_LIST, e) /\ e.id = asked + 1
          /\ asked' = asked + 1 /\ asked \in Nat /\ Kept' = Kept
          /\ TIMER_LIST \in Seq(Entry) /\ \A a \in Kept : a.id \in Nat
          /\ \A k \in DOMAIN TIMER_LIST : TIMER_LIST[k].id \in Nat
      <3>1. \A a \in Kept : a.id \in Nat
        BY DEF TypeOK, Kept, Ids
      <3>2. \A k \in DOMAIN TIMER_LIST : TIMER_LIST[k].id \in Nat
        <4>1. \A k \in DOMAIN TIMER_LIST : TIMER_LIST[k] \in Entry
          BY DEF TypeOK
        <4> QED
          BY <4>1 DEF Entry, Ids
      <3> QED
        BY <3>1, <3>2 DEF TypeOK, Kept
    <2> QED
      BY <2>1 DEF IdsInOrder
  <1>3. PutsAreKept' /\ OnceWhenHoursAgree'
    BY DEF PutsAreKept, OnceWhenHoursAgree, Kept
  <1> QED
    BY <1>1, <1>2, <1>3

(* Wake, EndDrain, ReadHour, EndScan and CheckoutLoopEventList leave       *)
(* TIMER_LIST and the once events alone.                                   *)
LEMMA QuietStep ==
  ASSUME IInv, UNCHANGED <<onceEventList, gone, puts, sessions, scripts, hour>>,
         Wake \/ EndDrain \/ ReadHour \/ EndScan \/ CheckoutLoopEventList
  PROVE  IInv'
  <1> USE TimerAssumption DEF IInv, sessions, scripts
  <1>1. TypeOK'
    <2>1. tpc' \in {"sleep", "drain", "read", "once", "loop"} /\ scanned' \in BOOLEAN
      BY DEF TypeOK, Wake, EndDrain, ReadHour, EndScan, CheckoutLoopEventList, clock
    <2>2. nowHour' \in 0..Hours - 1
      BY DEF TypeOK, Wake, EndDrain, ReadHour, EndScan, CheckoutLoopEventList
    <2>3. fault' \in BOOLEAN
      BY DEF TypeOK, Wake, EndDrain, ReadHour, EndScan, CheckoutLoopEventList
    <2>4. /\ loopEventList' \subseteq
                [id : Ids, client : 0..MaxLogins, nowTime : Nat, tarTime : Nat]
          /\ \A e \in loopEventList' : e.nowTime <= e.tarTime
      <3>1. CASE CheckoutLoopEventList
        <4> DEFINE next(d) == [d EXCEPT !.nowTime = IF @ >= d.tarTime THEN 0 ELSE @ + 1]
        <4>1. \A e \in loopEventList' : \E d \in loopEventList : e = next(d)
          BY <3>1 DEF CheckoutLoopEventList
        <4>2. ASSUME NEW d \in loopEventList
              PROVE  /\ next(d) \in [id : Ids, client : 0..MaxLogins, nowTime : Nat, tarTime : Nat]
                     /\ next(d).nowTime <= next(d).tarTime
          <5>1. /\ d \in [id : Ids, client : 0..MaxLogins, nowTime : Nat, tarTime : Nat]
                /\ d.nowTime <= d.tarTime
            BY DEF TypeOK
          <5>2. CASE d.nowTime >= d.tarTime
            BY <5>1, <5>2
          <5>3. CASE ~(d.nowTime >= d.tarTime)
            BY <5>1, <5>3
          <5> QED
            BY <5>2, <5>3
        <4> QED
          BY <4>1, <4>2
      <3>2. CASE UNCHANGED loopEventList
        BY <3>2 DEF TypeOK
      <3> QED
        BY <3>1, <3>2 DEF Wake, EndDrain, ReadHour, EndScan
    <2> QED
      BY <2>1, <2>2, <2>3, <2>4 DEF TypeOK
  <1>2. IdsInOrder' /\ PutsAreKept' /\ OnceWhenHoursAgree'
    BY DEF IdsInOrder, PutsAreKept, OnceWhenHoursAgree, Kept
  <1> QED
    BY <1>1, <1>2

LEMMA TakeEntryStep ==
  ASSUME IInv, TakeEntry
  PROVE  IInv'
  <1> USE TimerAssumption DEF IInv
  <1> DEFINE h == Head(TIMER_LIST)
  <1>1. /\ TIMER_LIST # <<>> /\ h = TIMER_LIST[1] /\ h \in Entry /\ 1 \in DOMAIN TIMER_LIST
        /\ TIMER_LIST' = Tail(TIMER_LIST) /\ TIMER_LIST' \in Seq(Entry)
        /\ \A k \in DOMAIN TIMER_LIST' : /\ k + 1 \in DOMAIN TIMER_LIST /\ k \in Nat
                                        /\ TIMER_LIST'[k] = TIMER_LIST[k + 1]
                                        /\ 1 < k + 1
    BY DEF TakeEntry, Blocked, TypeOK
  <1>2. /\ onceEventList' = onceEventList \cup AddOnceEvent(h)
        /\ loopEventList' = loopEventList \cup AddLoopEvent(h)
        /\ UNCHANGED <<asked, tpc, nowHour, gone, puts, hour, scanned, byUid, made, fault>>
    BY DEF TakeEntry, clock, sessions
  <1>3. ClientOf(h) \in 0..MaxLogins
    BY <1>1 DEF TypeOK, ClientOf
  <1>4. \A e \in AddOnceEvent(h) : e \in Once /\ e.id = h.id
    BY <1>1, <1>3 DEF AddOnceEvent, Entry, Once
  <1>5. \A a, b \in AddOnceEvent(h) : a = b
    BY DEF AddOnceEvent
  <1>6. h.id \in Ids /\ \A e \in Kept : e.id < h.id
    BY <1>1 DEF IdsInOrder, Entry
  <1>7. \A e \in Kept : e.id \in Nat /\ e.tarHour \in Nat
    BY DEF TypeOK, Kept, Ids
  <1>8. TypeOK'
    <2>1. onceEventList' \cup gone' \subseteq Once
      BY <1>2, <1>4 DEF TypeOK, Once
    <2>2. onceEventList' \cap gone' = {}
      BY <1>2, <1>4, <1>6, <1>7 DEF TypeOK, Kept
    <2>3. AddLoopEvent(h) \subseteq
              [id : Ids, client : 0..MaxLogins, nowTime : Nat, tarTime : Nat]
      <3>1. h.id \in Ids /\ h.time \in Int
        BY <1>1 DEF Entry
      <3> QED
        BY <1>3, <3>1 DEF AddLoopEvent
    <2>4. \A e \in AddLoopEvent(h) : e.nowTime <= e.tarTime
      <3> SUFFICES ASSUME NEW e \in AddLoopEvent(h) PROVE e.nowTime <= e.tarTime
        OBVIOUS
      <3>1. h.time \in Int
        BY <1>1 DEF Entry
      <3>2. h.time > 0 /\ e.nowTime = 0 /\ e.tarTime = h.time
        BY DEF AddLoopEvent
      <3> QED
        BY <3>1, <3>2
    <2> QED
      BY <1>1, <1>2, <2>1, <2>2, <2>3, <2>4 DEF TypeOK, Once
  <1>9. IdsInOrder'
    <2>1. \A k \in DOMAIN TIMER_LIST' :
             /\ TIMER_LIST'[k].id <= asked /\ h.id < TIMER_LIST'[k].id
             /\ \A e \in Kept : e.id < TIMER_LIST'[k].id
      BY <1>1 DEF IdsInOrder
    <2>2. \A j, k \in DOMAIN TIMER_LIST' : j < k => TIMER_LIST'[j].id < TIMER_LIST'[k].id
      BY <1>1 DEF IdsInOrder
    <2>3. \A e \in Kept' : e \in Kept \/ e \in AddOnceEvent(h)
      BY <1>2 DEF Kept
    <2>4. h.id <= asked
      BY <1>1 DEF IdsInOrder
    <2>5. \A a, b \in Kept' : a.id = b.id => a = b
      BY <1>4, <1>5, <1>6, <1>7, <2>3 DEF IdsInOrder, Ids
    <2>6. \A e \in Kept' : e.id <= asked' /\ \A k \in DOMAIN TIMER_LIST' : e.id < TIMER_LIST'[k].id
      BY <1>2, <1>4, <2>1, <2>3, <2>4 DEF IdsInOrder
    <2> QED
      BY <1>2, <2>1, <2>2, <2>5, <2>6 DEF IdsInOrder
  <1>10. PutsAreKept'
    BY <1>2 DEF PutsAreKept, Kept
  <1>11. OnceWhenHoursAgree'
    <2>1. puts[h.id] = 0
      BY <1>6, <1>7 DEF PutsAreKept, Ids
    <2> QED
      BY <1>2, <1>4, <2>1 DEF OnceWhenHoursAgree
  <1> QED
    BY <1>8, <1>9, <1>10, <1>11

LEMMA PutOnceEventStep ==
  ASSUME IInv, PutOnceEvent
  PROVE  IInv'
  <1> USE TimerAssumption DEF IInv
  <1> DEFINE f == First(onceEventList)
             d == First(Due)
  <1>1. onceEventList \subseteq Once /\ gone \subseteq Once /\ Due \subseteq onceEventList
    BY DEF TypeOK, Once, Due
  <1>2. f \in onceEventList /\ d \in Due /\ d \in onceEventList /\ f \in Once /\ d \in Once
    BY <1>1, FirstIsIn DEF PutOnceEvent
  <1>3. /\ puts' = [puts EXCEPT ![d.id] = @ + 1]
        /\ onceEventList' = onceEventList \ {f} /\ gone' = gone \cup {f} /\ Kept' = Kept
        /\ UNCHANGED <<tpc, nowHour, loopEventList, hour, scanned, byUid, made, asked, TIMER_LIST>>
    BY <1>2 DEF PutOnceEvent, clock, sessions, scripts, Kept
  <1>4. d.id \in Ids /\ f.id \in Ids
    BY <1>2 DEF Once
  <1>5. TypeOK'
    <2>1. fault' \in BOOLEAN
      BY DEF PutOnceEvent
    <2>2. puts' \in [Ids -> Nat]
      BY <1>3, <1>4 DEF TypeOK
    <2>3. onceEventList' \cup gone' \subseteq Once /\ onceEventList' \cap gone' = {}
      BY <1>1, <1>2, <1>3 DEF TypeOK
    <2> QED
      BY <1>3, <2>1, <2>2, <2>3 DEF TypeOK, Once
  <1>6. IdsInOrder'
    BY <1>3 DEF IdsInOrder
  <1>7. PutsAreKept'
    BY <1>2, <1>3, <1>4 DEF PutsAreKept, Kept, TypeOK
  <1>8. OnceWhenHoursAgree'
    <2> SUFFICES ASSUME \A a, b \in Kept : a.tarHour = b.tarHour
                 PROVE  /\ \A e \in gone' : puts'[e.id] = 1
                        /\ \A e \in onceEventList' : puts'[e.id] = 0
      BY <1>3 DEF OnceWhenHoursAgree, Kept
    <2>1. Due = onceEventList
      BY <1>2 DEF Due, Kept
    <2>2. d = f
      BY <2>1
    <2>3. (\A e \in gone : puts[e.id] = 1) /\ (\A e \in onceEventList : puts[e.id] = 0)
      BY DEF OnceWhenHoursAgree, Kept
    <2>4. \A e \in Kept : e.id \in Ids /\ (e.id = f.id => e = f)
      BY <1>1, <1>2 DEF IdsInOrder, Kept, Once
    <2>5. f \notin gone
      BY <1>2 DEF TypeOK
    <2>6. /\ puts'[f.id] = 1
          /\ \A i \in Ids \ {f.id} : puts'[i] = puts[i]
      BY <1>2, <1>3, <1>4, <2>2, <2>3 DEF TypeOK
    <2> QED
      BY <1>3, <2>3, <2>4, <2>5, <2>6 DEF Kept
  <1> QED
    BY <1>5, <1>6, <1>7, <1>8

LEMMA NextInv == IInv /\ [Next]_vars => IInv'
  <1> SUFFICES ASSUME IInv, [Next]_vars PROVE IInv'
    OBVIOUS
  <1>1. CASE UNCHANGED vars
    <2>1. TypeOK'
      BY <1>1 DEF IInv, vars, clock, sessions, scripts, timer, TypeOK
    <2>2. IdsInOrder' /\ PutsAreKept' /\ OnceWhenHoursAgree'
      BY <1>1 DEF IInv, vars, scripts, timer, IdsInOrder, PutsAreKept,
         OnceWhenHoursAgree, Kept
    <2> QED
      BY <2>1, <2>2 DEF IInv
  <1>2. CASE HourPasses \/ \E u \in Users : Login(u) \/ Logout(u)
    BY <1>2, WorldStep DEF HourPasses, Login, Logout
  <1>3. ASSUME NEW e \in Entry, LuaAddEventIntoTimerList(e)
        PROVE  IInv'
    BY <1>3, LuaAddStep
  <1>4. CASE Wake \/ EndDrain \/ ReadHour \/ EndScan \/ CheckoutLoopEventList
    BY <1>4, QuietStep
       DEF Wake, EndDrain, ReadHour, EndScan, CheckoutLoopEventList, clock
  <1>5. CASE TakeEntry \/ PutOnceEvent
    BY <1>5, TakeEntryStep, PutOnceEventStep
  <1> QED
    BY <1>1, <1>2, <1>3, <1>4, <1>5 DEF Next, TimerThread

(* Every variable keeps its type: the lists hold events of their kind with *)
(* an hour of the day or a time that is not passed, and an event that has  *)
(* left the once list does not come back (TimerLooping).                   *)
THEOREM TimerTypeOK == Spec => []TypeOK
  <1>1. IInv => TypeOK
    BY DEF IInv
  <1> QED
    BY InitInv, NextInv, <1>1, PTL DEF Spec

(* However many once events there are and whenever they come, as long as   *)
(* they are for one hour each is put exactly once, when it leaves the list *)
(* (CheckoutOnceEventList).                                                *)
THEOREM OnceIsExact == Spec => []OnceWhenHoursAgree
  <1>1. IInv => OnceWhenHoursAgree
    BY DEF IInv
  <1> QED
    BY InitInv, NextInv, <1>1, PTL DEF Spec
==============================================================================
