-------------------------- MODULE PersistenceProofs ---------------------------
(***************************************************************************)
(* Persistence, for any users, modules, workers and number of sets: types, *)
(* NothingForgotten and OnlineIsCached.  What a thread carries between the *)
(* stores is what the key ought to have, or the key is torn: that makes    *)
(* NothingForgotten inductive.  OnlineIsCached needs that no save is at    *)
(* work beside the login of a user who is not crossed.                     *)
(***************************************************************************)
EXTENDS Persistence, TLAPS

(* A thread that works has a user, one that carries has a module and data. *)
Placed ==
    \A t \in Threads :
        /\ pc[t] \in {"load", "fill", "set", "save", "write", "release"} => user[t] \in Users
        /\ pc[t] \in {"fill", "set", "write", "release"} => mod[t] \in Modules
        /\ pc[t] \in {"fill", "set", "write"} => data[t] \in Values

(* What is carried is not older than the last set, unless the key is torn. *)
CarriedIsLast ==
    \A t \in Threads : Key(t) \notin torn =>
        /\ pc[t] \in {"fill", "write"} => data[t] = last[Key(t)]
        /\ pc[t] = "release" => mysql[Key(t)] = last[Key(t)]

IInv == TypeOK /\ Placed /\ CarriedIsLast /\ NothingForgotten

(* A save of u that may yet take a key out of Redis.  A logout that has    *)
(* nothing to save is none.                                                *)
Releasing(t, u) == /\ user[t] = u
                   /\ pc[t] \in {"write", "release"} \/ (pc[t] = "save" /\ todo[t] # {})

(* What a login has loaded stays loaded, unless its user is crossed.       *)
LoadedStays(w) ==
    pc[w] \in {"load", "fill"} /\ user[w] \notin crossed =>
        /\ \A t \in Threads : ~Releasing(t, user[w])
        /\ \A m \in Modules \ todo[w] : redis[<<user[w], m>>] # NoData

Stopped ==
    /\ server \notin {"up", "quitting"} => conn = {} /\ \A t \in Threads : pc[t] = "idle"
    /\ server # "quitting" => pc[Handler] = "idle"

OInv == (\A w \in Threads : LoadedStays(w)) /\ Stopped /\ OnlineIsCached

------------------------------------------------------------------------------
LEMMA InitInv == Init => IInv
  <1> SUFFICES ASSUME Init PROVE IInv
    OBVIOUS
  <1>1. TypeOK
    <2>1. mysql \in [Keys -> Data] /\ redis \in [Keys -> Data] /\ last \in [Keys -> Data]
      BY DEF Init, Data
    <2>2. /\ pc \in [Threads -> {"idle", "load", "fill", "set", "save", "write",
                               "release", "first", "next"}]
          /\ user \in [Threads -> Users \cup {None}] /\ mod \in [Threads -> Modules \cup {None}]
          /\ todo \in [Threads -> SUBSET Modules] /\ data \in [Threads -> Data]
      BY DEF Init, Data
    <2>3. fault \in BOOLEAN
      BY DEF Init
    <2>4. sets \in 0..MaxSets
      BY PersistenceAssumption DEF Init
    <2> QED
      BY <2>1, <2>2, <2>3, <2>4 DEF Init, TypeOK
  <1>2. Placed /\ CarriedIsLast
    BY DEF Init, Placed, CarriedIsLast
  <1>3. NothingForgotten
    BY DEF Init, NothingForgotten, Found
  <1> QED
    BY <1>1, <1>2, <1>3 DEF IInv

LEMMA BeginLoginStep ==
  ASSUME IInv, NEW w \in Workers, NEW u \in Users, BeginLogin(w, u)
  PROVE  IInv'
  <1> USE DEF IInv, BeginLogin, Running, stores, threads, memory, history,
          life
  <1>1. w \in Threads
    BY DEF Threads
  <1>2. TypeOK'
    BY <1>1, PersistenceAssumption DEF TypeOK, Delete, Cross, Begin, Goto,
       Holders
  <1>3. Placed'
    BY <1>1 DEF TypeOK, Placed, Delete, Cross, Begin, Goto
  <1>4. CarriedIsLast'
    BY <1>1 DEF TypeOK, Placed, CarriedIsLast, Key, Delete, Cross, Begin, Goto
  <1>5. NothingForgotten'
    BY <1>1 DEF TypeOK, NothingForgotten, Found, Delete, Cross, Begin, Goto
  <1> QED
    BY <1>2, <1>3, <1>4, <1>5

LEMMA ConnectFailsStep ==
  ASSUME IInv, NEW w \in Workers, ConnectFails(w)
  PROVE  IInv'
  <1> USE DEF IInv, ConnectFails, Running, stores, threads, memory, history,
          life
  <1>1. w \in Threads
    BY DEF Threads
  <1>2. TypeOK'
    BY <1>1, PersistenceAssumption DEF TypeOK, EndAt, Goto, Carry, Data, Keys
  <1>3. Placed'
    BY <1>1 DEF TypeOK, Placed, EndAt, Goto, Carry
  <1>4. CarriedIsLast'
    BY <1>1 DEF TypeOK, Placed, CarriedIsLast, Key, EndAt, Goto, Carry
  <1>5. NothingForgotten'
    BY <1>1 DEF TypeOK, NothingForgotten, Found, EndAt, Goto, Carry
  <1> QED
    BY <1>2, <1>3, <1>4, <1>5

LEMMA LoadCachedStep ==
  ASSUME IInv, NEW w \in Workers, NEW m \in Modules, LoadCached(w, m)
  PROVE  IInv'
  <1> USE DEF IInv, LoadCached, Running, stores, threads, memory, history,
          life
  <1>1. w \in Threads
    BY DEF Threads
  <1>2. TypeOK'
    BY <1>1, PersistenceAssumption DEF TypeOK
  <1>3. Placed'
    BY <1>1 DEF TypeOK, Placed
  <1>4. CarriedIsLast'
    BY <1>1 DEF TypeOK, Placed, CarriedIsLast, Key
  <1>5. NothingForgotten'
    BY <1>1 DEF TypeOK, NothingForgotten, Found
  <1> QED
    BY <1>2, <1>3, <1>4, <1>5

LEMMA LoadSelectStep ==
  ASSUME IInv, NEW w \in Workers, NEW m \in Modules, LoadSelect(w, m)
  PROVE  IInv'
  <1> USE DEF IInv, LoadSelect, Running, stores, threads, memory, history,
          life
  <1>1. w \in Threads
    BY DEF Threads
  <1>2. TypeOK'
    BY <1>1, PersistenceAssumption DEF TypeOK, Placed, Goto, Carry, Data, Keys
  <1>3. Placed'
    BY <1>1 DEF TypeOK, Placed, Goto, Carry, Data, Keys
  <1>4. CarriedIsLast'
    BY <1>1 DEF TypeOK, Placed, CarriedIsLast, NothingForgotten, Found, Keys,
       Data, Key, Goto, Carry
  <1>5. NothingForgotten'
    BY <1>1 DEF TypeOK, NothingForgotten, Found, Goto, Carry
  <1> QED
    BY <1>2, <1>3, <1>4, <1>5

LEMMA LoadFailsStep ==
  ASSUME IInv, NEW w \in Workers, NEW m \in Modules, LoadFails(w, m)
  PROVE  IInv'
  <1> USE DEF IInv, LoadFails, Running, stores, threads, memory, history, life
  <1>1. w \in Threads
    BY DEF Threads
  <1>2. TypeOK'
    BY <1>1, PersistenceAssumption DEF TypeOK, EndAt, Goto, Carry, Data, Keys
  <1>3. Placed'
    BY <1>1 DEF TypeOK, Placed, EndAt, Goto, Carry
  <1>4. CarriedIsLast'
    BY <1>1 DEF TypeOK, Placed, CarriedIsLast, Key, EndAt, Goto, Carry
  <1>5. NothingForgotten'
    BY <1>1 DEF TypeOK, NothingForgotten, Found, EndAt, Goto, Carry
  <1> QED
    BY <1>2, <1>3, <1>4, <1>5

LEMMA FillStep ==
  ASSUME IInv, NEW w \in Workers, Fill(w)
  PROVE  IInv'
  <1> USE DEF IInv, Fill, Running, stores, threads, memory, history, life
  <1>1. w \in Threads
    BY DEF Threads
  <1>2. TypeOK'
    BY <1>1, PersistenceAssumption DEF TypeOK, Placed, Goto, Carry, Key, Data,
       Keys
  <1>3. Placed'
    BY <1>1 DEF TypeOK, Placed, Goto, Carry
  <1>4. CarriedIsLast'
    BY <1>1 DEF TypeOK, Placed, CarriedIsLast, Keys, Data, Key, Goto, Carry
  <1>5. NothingForgotten'
    BY <1>1 DEF TypeOK, Placed, CarriedIsLast, Keys, Key, Data,
       NothingForgotten, Found, Goto, Carry
  <1> QED
    BY <1>2, <1>3, <1>4, <1>5

LEMMA EndLoginStep ==
  ASSUME IInv, NEW w \in Workers, EndLogin(w)
  PROVE  IInv'
  <1> USE DEF IInv, EndLogin, Running, stores, threads, memory, history, life
  <1>1. w \in Threads
    BY DEF Threads
  <1>2. TypeOK'
    BY <1>1, PersistenceAssumption DEF TypeOK, Placed, EndAt, Goto, Carry,
       Data, Keys
  <1>3. Placed'
    BY <1>1 DEF TypeOK, Placed, EndAt, Goto, Carry
  <1>4. CarriedIsLast'
    BY <1>1 DEF TypeOK, Placed, CarriedIsLast, Key, EndAt, Goto, Carry
  <1>5. NothingForgotten'
    BY <1>1 DEF TypeOK, NothingForgotten, Found, EndAt, Goto, Carry
  <1> QED
    BY <1>2, <1>3, <1>4, <1>5

LEMMA BeginSetStep ==
  ASSUME IInv, NEW w \in Workers, NEW k \in Keys, NEW v \in Values, BeginSet(w, k, v)
  PROVE  IInv'
  <1> USE DEF IInv, BeginSet, Running, stores, threads, memory, history, life
  <1>1. w \in Threads
    BY DEF Threads
  <1>2. TypeOK'
    BY <1>1, PersistenceAssumption DEF TypeOK, Goto, Carry, Data, Keys
  <1>3. Placed'
    BY <1>1 DEF TypeOK, Placed, Goto, Carry, Data, Keys
  <1>4. CarriedIsLast'
    BY <1>1 DEF TypeOK, Placed, CarriedIsLast, Key, Goto, Carry
  <1>5. NothingForgotten'
    BY <1>1 DEF TypeOK, NothingForgotten, Found, Goto, Carry
  <1> QED
    BY <1>2, <1>3, <1>4, <1>5

LEMMA SetStep ==
  ASSUME IInv, NEW w \in Workers, Set(w)
  PROVE  IInv'
  <1> USE DEF IInv, Set, Running, stores, threads, memory, history, life
  <1>1. w \in Threads
    BY DEF Threads
  <1>2. TypeOK'
    BY <1>1, PersistenceAssumption DEF TypeOK, Placed, EndAt, Goto, Carry,
       Carried, Key, Data, Keys
  <1>3. Placed'
    BY <1>1 DEF TypeOK, Placed, EndAt, Goto, Carry, Carried
  <1>4. CarriedIsLast'
    <2> SUFFICES ASSUME NEW t \in Threads, Key(t)' \notin torn',
                        pc'[t] \in {"fill", "write", "release"}
                 PROVE  /\ pc'[t] \in {"fill", "write"} => data'[t] = last'[Key(t)']
                        /\ pc'[t] = "release" => mysql'[Key(t)'] = last'[Key(t)']
      BY DEF CarriedIsLast, Key
    <2>1. t # w /\ pc'[t] = pc[t] /\ data'[t] = data[t] /\ Key(t)' = Key(t)
      BY <1>1 DEF TypeOK, EndAt, Goto, Carry, Key
    <2>2. Key(w) # Key(t)
      BY <2>1 DEF Carried
    <2>3. Key(t) \in Keys /\ Key(t) \notin torn
      BY <2>1, <2>2 DEF Placed, Key, Keys
    <2>4. last'[Key(t)] = last[Key(t)] /\ mysql'[Key(t)] = mysql[Key(t)]
      BY <2>2, <2>3 DEF TypeOK
    <2>5. /\ pc[t] \in {"fill", "write"} => data[t] = last[Key(t)]
          /\ pc[t] = "release" => mysql[Key(t)] = last[Key(t)]
      BY <2>3 DEF CarriedIsLast
    <2> QED
      BY <2>1, <2>4, <2>5
  <1>5. NothingForgotten'
    BY <1>1, PersistenceAssumption DEF TypeOK, Placed, CarriedIsLast, Keys,
       Key, Data, NothingForgotten, Found, EndAt, Goto, Carry, Carried
  <1> QED
    BY <1>2, <1>3, <1>4, <1>5

LEMMA SaveSelectStep ==
  ASSUME IInv, NEW t \in Threads, NEW m \in Modules, SaveSelect(t, m)
  PROVE  IInv'
  <1> USE DEF IInv, SaveSelect, Running, stores, threads, memory, history,
          life
  <1>2. TypeOK'
    <2>1. /\ user' \in [Threads -> Users \cup {None}] /\ fault' \in BOOLEAN
          /\ todo' \in [Threads -> SUBSET Modules]
      BY DEF TypeOK
    <2>2. /\ pc' \in [Threads -> {"idle", "load", "fill", "set", "save", "write",
                               "release", "first", "next"}]
          /\ mod' \in [Threads -> Modules \cup {None}]
      BY DEF TypeOK, Goto, Carry
    <2>3. data' \in [Threads -> Data]
      <3>1. <<user[t], m>> \in Keys
        BY DEF Placed, Keys
      <3>2. redis[<<user[t], m>>] \in Data
        BY <3>1 DEF TypeOK
      <3> QED
        BY <3>2 DEF TypeOK, Carry
    <2> QED
      BY <2>1, <2>2, <2>3 DEF TypeOK
  <1>3. Placed'
    BY DEF TypeOK, Placed, Goto, Carry, Data, Keys
  <1>4. CarriedIsLast'
    <2> SUFFICES ASSUME NEW s \in Threads, Key(s)' \notin torn'
                 PROVE  /\ pc'[s] \in {"fill", "write"} => data'[s] = last'[Key(s)']
                        /\ pc'[s] = "release" => mysql'[Key(s)'] = last'[Key(s)']
      BY DEF CarriedIsLast
    <2>1. CASE s # t \/ UNCHANGED <<pc, mod, data>>
      <3>1. pc'[s] = pc[s] /\ data'[s] = data[s] /\ Key(s)' = Key(s)
        BY <2>1 DEF TypeOK, Key, Goto, Carry
      <3> QED
        BY <3>1 DEF CarriedIsLast
    <2>2. CASE s = t /\ ~UNCHANGED <<pc, mod, data>>
      <3>1. <<user[t], m>> \in Keys
        BY DEF Placed, Keys
      <3>2. /\ redis[<<user[t], m>>] # NoData
            /\ pc'[t] = "write" /\ data'[t] = redis[<<user[t], m>>]
            /\ Key(t)' = <<user[t], m>>
        BY <2>2 DEF TypeOK, Key, Goto, Carry
      <3> QED
        BY <2>2, <3>1, <3>2 DEF NothingForgotten, Found
    <2> QED
      BY <2>1, <2>2
  <1>5. NothingForgotten'
    BY DEF TypeOK, NothingForgotten, Found, Goto, Carry
  <1> QED
    BY <1>2, <1>3, <1>4, <1>5

LEMMA SaveWriteStep ==
  ASSUME IInv, NEW t \in Threads, SaveWrite(t)
  PROVE  IInv'
  <1> USE DEF IInv, SaveWrite, Running, stores, threads, memory, history, life
  <1>2. TypeOK'
    <2>1. fault' \in BOOLEAN
      BY DEF TypeOK
    <2>2. /\ pc' \in [Threads -> {"idle", "load", "fill", "set", "save", "write",
                               "release", "first", "next"}]
          /\ user' \in [Threads -> Users \cup {None}]
          /\ mod' \in [Threads -> Modules \cup {None}]
          /\ todo' \in [Threads -> SUBSET Modules] /\ data' \in [Threads -> Data]
      BY DEF TypeOK, Placed, Goto, Carry, Data, Keys
    <2>3. mysql' \in [Keys -> Data]
      BY DEF TypeOK, Placed, Data, Keys, Key
    <2> QED
      BY <2>1, <2>2, <2>3 DEF TypeOK
  <1>3. Placed'
    BY DEF TypeOK, Placed, Goto, Carry
  <1>4. CarriedIsLast'
    <2> SUFFICES ASSUME NEW s \in Threads, Key(s)' \notin torn'
                 PROVE  /\ pc'[s] \in {"fill", "write"} => data'[s] = last'[Key(s)']
                        /\ pc'[s] = "release" => mysql'[Key(s)'] = last'[Key(s)']
      BY DEF CarriedIsLast
    <2>1. Key(t) \in Keys
      BY DEF Placed, Key, Keys
    <2>2. CASE s = t
      BY <2>1, <2>2 DEF TypeOK, CarriedIsLast, Key, Goto, Carry
    <2>3. CASE s # t
      <3>1. pc'[s] = pc[s] /\ data'[s] = data[s] /\ Key(s)' = Key(s)
        BY <2>3 DEF TypeOK, Key, Goto, Carry
      <3>2. Key(s) = Key(t) => mysql'[Key(s)] \in {mysql[Key(s)], last[Key(s)]}
        BY <2>1, <3>1 DEF TypeOK, CarriedIsLast
      <3>3. pc[s] = "release" /\ Key(s) # Key(t) => mysql'[Key(s)] = mysql[Key(s)]
        BY <2>1 DEF TypeOK, Placed, Key, Keys
      <3> QED
        BY <3>1, <3>2, <3>3 DEF CarriedIsLast
    <2> QED
      BY <2>2, <2>3
  <1>5. NothingForgotten'
    BY DEF TypeOK, Placed, CarriedIsLast, Keys, Key, Data, NothingForgotten,
       Found, Goto, Carry
  <1> QED
    BY <1>2, <1>3, <1>4, <1>5

LEMMA ReleaseStep ==
  ASSUME IInv, NEW t \in Threads, Release(t)
  PROVE  IInv'
  <1> USE DEF IInv, Release, Running, stores, threads, memory, history, life
  <1>2. TypeOK'
    BY PersistenceAssumption DEF TypeOK, Placed, Goto, Carry, Key, Data, Keys
  <1>3. Placed'
    BY DEF TypeOK, Placed, Goto, Carry
  <1>4. CarriedIsLast'
    BY DEF TypeOK, Placed, CarriedIsLast, Keys, Data, Key, Goto, Carry
  <1>5. NothingForgotten'
    BY DEF TypeOK, Placed, CarriedIsLast, Keys, Key, Data, NothingForgotten,
       Found, Goto, Carry
  <1> QED
    BY <1>2, <1>3, <1>4, <1>5

LEMMA BeginLogoutStep ==
  ASSUME IInv, NEW w \in Workers, NEW u \in Users, BeginLogout(w, u)
  PROVE  IInv'
  <1> USE DEF IInv, BeginLogout, Running, stores, threads, memory, history,
          life
  <1>1. w \in Threads
    BY DEF Threads
  <1>2. TypeOK'
    BY <1>1, PersistenceAssumption DEF TypeOK, Cross, Begin, Goto
  <1>3. Placed'
    BY <1>1 DEF TypeOK, Placed, Cross, Begin, Goto
  <1>4. CarriedIsLast'
    BY <1>1 DEF TypeOK, Placed, CarriedIsLast, Key, Cross, Begin, Goto
  <1>5. NothingForgotten'
    BY <1>1 DEF TypeOK, NothingForgotten, Found, Cross, Begin, Goto
  <1> QED
    BY <1>2, <1>3, <1>4, <1>5

LEMMA EndLogoutStep ==
  ASSUME IInv, NEW w \in Workers, EndLogout(w)
  PROVE  IInv'
  <1> USE DEF IInv, EndLogout, Running, stores, threads, memory, history, life
  <1>1. w \in Threads
    BY DEF Threads
  <1>2. TypeOK'
    BY <1>1, PersistenceAssumption DEF TypeOK, Delete, EndAt, Goto, Carry,
       Holders, Data, Keys
  <1>3. Placed'
    BY <1>1 DEF TypeOK, Placed, Delete, EndAt, Goto, Carry
  <1>4. CarriedIsLast'
    BY <1>1 DEF TypeOK, Placed, CarriedIsLast, Key, Delete, EndAt, Goto, Carry
  <1>5. NothingForgotten'
    BY <1>1 DEF TypeOK, NothingForgotten, Found, Delete, EndAt, Goto, Carry
  <1> QED
    BY <1>2, <1>3, <1>4, <1>5

LEMMA ServerQuitStep ==
  ASSUME IInv, ServerQuit
  PROVE  IInv'
  <1> USE DEF IInv, ServerQuit, Running, stores, threads, memory, history,
          life
  <1>1. Handler \in Threads
    BY DEF Threads
  <1>2. TypeOK'
    BY <1>1, PersistenceAssumption DEF TypeOK, Goto
  <1>3. Placed'
    BY <1>1 DEF TypeOK, Placed, Goto
  <1>4. CarriedIsLast'
    BY <1>1 DEF TypeOK, Placed, CarriedIsLast, Key, Goto
  <1>5. NothingForgotten'
    BY <1>1 DEF TypeOK, NothingForgotten, Found, Goto
  <1> QED
    BY <1>2, <1>3, <1>4, <1>5

LEMMA SaveUserStep ==
  ASSUME IInv, NEW u \in Users, SaveUser(u)
  PROVE  IInv'
  <1> USE DEF IInv, SaveUser, Running, stores, threads, memory, history, life
  <1>1. Handler \in Threads
    BY DEF Threads
  <1>2. TypeOK'
    BY <1>1, PersistenceAssumption DEF TypeOK, Cross, Begin, Goto
  <1>3. Placed'
    BY <1>1 DEF TypeOK, Placed, Cross, Begin, Goto
  <1>4. CarriedIsLast'
    BY <1>1 DEF TypeOK, Placed, CarriedIsLast, Key, Cross, Begin, Goto
  <1>5. NothingForgotten'
    BY <1>1 DEF TypeOK, NothingForgotten, Found, Cross, Begin, Goto
  <1> QED
    BY <1>2, <1>3, <1>4, <1>5

LEMMA EndUserStep ==
  ASSUME IInv, EndUser
  PROVE  IInv'
  <1> USE DEF IInv, EndUser, Running, stores, threads, memory, history, life
  <1>1. Handler \in Threads
    BY DEF Threads
  <1>2. TypeOK'
    BY <1>1, PersistenceAssumption DEF TypeOK, Delete, EndAt, Goto, Carry,
       Holders, Data, Keys
  <1>3. Placed'
    BY <1>1 DEF TypeOK, Placed, Delete, EndAt, Goto, Carry
  <1>4. CarriedIsLast'
    BY <1>1 DEF TypeOK, Placed, CarriedIsLast, Key, Delete, EndAt, Goto, Carry
  <1>5. NothingForgotten'
    BY <1>1 DEF TypeOK, NothingForgotten, Found, Delete, EndAt, Goto, Carry
  <1> QED
    BY <1>2, <1>3, <1>4, <1>5

LEMMA ExitStep ==
  ASSUME IInv, Exit
  PROVE  IInv'
  <1> USE DEF IInv, Exit, Running, stores, threads, memory, history, life
  <1>2. TypeOK'
    BY PersistenceAssumption DEF TypeOK, End, Data, Keys
  <1>3. Placed'
    BY DEF TypeOK, Placed, End
  <1>4. CarriedIsLast'
    BY DEF TypeOK, Placed, CarriedIsLast, Key, End
  <1>5. NothingForgotten'
    BY DEF TypeOK, NothingForgotten, Found, End
  <1> QED
    BY <1>2, <1>3, <1>4, <1>5

LEMMA CrashStep ==
  ASSUME IInv, Crash
  PROVE  IInv'
  <1> USE DEF IInv, Crash, Running, stores, threads, memory, history, life
  <1>2. TypeOK'
    BY PersistenceAssumption DEF TypeOK, End, Data, Keys
  <1>3. Placed'
    BY DEF TypeOK, Placed, End
  <1>4. CarriedIsLast'
    BY DEF TypeOK, Placed, CarriedIsLast, Key, End
  <1>5. NothingForgotten'
    BY DEF TypeOK, NothingForgotten, Found, End
  <1> QED
    BY <1>2, <1>3, <1>4, <1>5

LEMMA StartStep ==
  ASSUME IInv, Start
  PROVE  IInv'
  <1> USE DEF IInv, Start, Running, stores, threads, memory, history, life
  <1>2. TypeOK'
    BY PersistenceAssumption DEF TypeOK
  <1>3. Placed'
    BY DEF TypeOK, Placed
  <1>4. CarriedIsLast'
    BY DEF TypeOK, Placed, CarriedIsLast, Key
  <1>5. NothingForgotten'
    BY DEF TypeOK, NothingForgotten, Found
  <1> QED
    BY <1>2, <1>3, <1>4, <1>5

LEMMA UseStaleStep ==
  ASSUME IInv, UseStale
  PROVE  IInv'
  <1> USE DEF IInv, UseStale, Running, stores, threads, memory, history, life
  <1>2. TypeOK'
    BY PersistenceAssumption DEF TypeOK
  <1>3. Placed'
    BY DEF TypeOK, Placed
  <1>4. CarriedIsLast'
    BY DEF TypeOK, Placed, CarriedIsLast, Key
  <1>5. NothingForgotten'
    BY DEF TypeOK, NothingForgotten, Found
  <1> QED
    BY <1>2, <1>3, <1>4, <1>5

LEMMA NextInv == IInv /\ [Next]_vars => IInv'
  <1> SUFFICES ASSUME IInv, [Next]_vars PROVE IInv'
    OBVIOUS
  <1>1. CASE UNCHANGED vars
    <2> USE <1>1 DEF IInv, vars, stores, threads, memory, history, life
    <2>1. TypeOK'
      BY DEF TypeOK
    <2>2. Placed' /\ CarriedIsLast'
      BY DEF Placed, CarriedIsLast, Key
    <2>3. NothingForgotten'
      BY DEF NothingForgotten, Found
    <2> QED
      BY <2>1, <2>2, <2>3
  <1>2. ASSUME NEW w \in Workers, NEW u \in Users,
               BeginLogin(w, u) \/ BeginLogout(w, u)
        PROVE  IInv'
    BY <1>2, BeginLoginStep, BeginLogoutStep
  <1>3. ASSUME NEW w \in Workers, RedisLoadMysqlDataByLogin(w)
        PROVE  IInv'
    BY <1>3, FillStep, LoadCachedStep, LoadSelectStep, LoadFailsStep
       DEF RedisLoadMysqlDataByLogin
  <1>4. ASSUME NEW w \in Workers, NEW k \in Keys, NEW v \in Values,
               BeginSet(w, k, v)
        PROVE  IInv'
    BY <1>4, BeginSetStep
  <1>5. ASSUME NEW w \in Workers,
               ConnectFails(w) \/ EndLogin(w) \/ Set(w) \/ EndLogout(w)
        PROVE  IInv'
    BY <1>5, ConnectFailsStep, EndLoginStep, SetStep, EndLogoutStep
  <1>6. ASSUME NEW t \in Threads,
               SaveWrite(t) \/ Release(t) \/ \E m \in Modules : SaveSelect(t, m)
        PROVE  IInv'
    BY <1>6, SaveWriteStep, ReleaseStep, SaveSelectStep
  <1>7. ASSUME NEW w \in Workers, SaveRedisDataIntoDB(w) PROVE IInv'
    BY <1>6, <1>7 DEF SaveRedisDataIntoDB, Threads
  <1>8. CASE SaveAllClientData
    BY <1>6, <1>8, SaveUserStep, EndUserStep DEF SaveAllClientData, Threads
  <1>9. CASE ServerQuit \/ Exit \/ Crash \/ Start \/ UseStale
    BY <1>9, ServerQuitStep, ExitStep, CrashStep, StartStep, UseStaleStep
  <1> QED
    BY <1>1, <1>2, <1>3, <1>4, <1>5, <1>7, <1>8, <1>9 DEF Next

(* Every variable keeps its type (the state of the stores, of the threads  *)
(* and of GLOBAL_UID_REDISOBJECT_MAP), whatever MySQL command fails and    *)
(* whenever the server crashes.                                            *)
THEOREM PersistenceTypeOK == Spec => []TypeOK
  <1>1. IInv => TypeOK
    BY DEF IInv
  <1> QED
    BY InitInv, NextInv, <1>1, PTL DEF Spec

(* What a script has set is found again after any logins, saves, failed    *)
(* commands, shutdowns and crashes, unless it was set while another thread *)
(* carried the key's older data (RedisLoadMysqlDataByLogin,                *)
(* SaveRedisDataIntoDB, SaveAllClientData).                                *)
THEOREM NothingIsForgotten == Spec => []NothingForgotten
  <1>1. IInv => NothingForgotten
    BY DEF IInv
  <1> QED
    BY InitInv, NextInv, <1>1, PTL DEF Spec

------------------------------------------------------------------------------
(* The second invariant. *)
LEMMA InitOnline == Init => OInv
  BY PersistenceAssumption DEF Threads, Init, OInv, LoadedStays, Stopped, OnlineIsCached

(* No step takes away what a login beside which nothing is saved has loaded. *)
LEMMA KeepsLoaded ==
  ASSUME IInv, OInv, Next, NEW w \in Threads
  PROVE  LoadedStays(w)'
  <1>a. /\ Handler \in Threads /\ Workers \subseteq Threads /\ NoData \notin Values
        /\ None \notin Users
    BY PersistenceAssumption DEF Threads
  <1>b. LoadedStays(w)
    BY DEF OInv
  <1> USE DEF IInv, TypeOK, Placed, LoadedStays, Releasing, Saving, Loading, Goto, Carry, Begin,
              EndAt, Delete, Cross, Key, Keys, stores, threads, memory, history, life
  <1>1. ASSUME NEW y \in Workers, NEW u \in Users, BeginLogin(y, u)
         PROVE  LoadedStays(w)'
    BY <1>1, <1>a, <1>b DEF BeginLogin
  <1>2. ASSUME NEW y \in Workers, ConnectFails(y)
         PROVE  LoadedStays(w)'
    BY <1>2, <1>a, <1>b DEF ConnectFails
  <1>3. ASSUME NEW y \in Workers, NEW m \in Modules, LoadCached(y, m)
         PROVE  LoadedStays(w)'
    BY <1>3, <1>a, <1>b DEF LoadCached
  <1>4. ASSUME NEW y \in Workers, NEW m \in Modules, LoadSelect(y, m)
         PROVE  LoadedStays(w)'
    BY <1>4, <1>a, <1>b DEF LoadSelect
  <1>5. ASSUME NEW y \in Workers, NEW m \in Modules, LoadFails(y, m)
         PROVE  LoadedStays(w)'
    BY <1>5, <1>a, <1>b DEF LoadFails
  <1>6. ASSUME NEW y \in Workers, Fill(y)
         PROVE  LoadedStays(w)'
    BY <1>6, <1>a, <1>b DEF Fill
  <1>7. ASSUME NEW y \in Workers, EndLogin(y)
         PROVE  LoadedStays(w)'
    BY <1>7, <1>a, <1>b DEF EndLogin
  <1>8. ASSUME NEW y \in Workers, NEW k \in Keys, NEW v \in Values, BeginSet(y, k, v)
         PROVE  LoadedStays(w)'
    BY <1>8, <1>a, <1>b DEF BeginSet
  <1>9. ASSUME NEW y \in Workers, Set(y)
         PROVE  LoadedStays(w)'
    BY <1>9, <1>a, <1>b DEF Set
  <1>10. ASSUME NEW s \in Threads, NEW m \in Modules, SaveSelect(s, m)
         PROVE  LoadedStays(w)'
    BY <1>10, <1>a, <1>b DEF SaveSelect
  <1>11. ASSUME NEW s \in Threads, SaveWrite(s)
         PROVE  LoadedStays(w)'
    BY <1>11, <1>a, <1>b DEF SaveWrite
  <1>12. ASSUME NEW s \in Threads, Release(s)
         PROVE  LoadedStays(w)'
    BY <1>12, <1>a, <1>b DEF Release
  <1>13. ASSUME NEW y \in Workers, NEW u \in Users, BeginLogout(y, u)
         PROVE  LoadedStays(w)'
    BY <1>13, <1>a, <1>b DEF BeginLogout
  <1>14. ASSUME NEW y \in Workers, EndLogout(y)
         PROVE  LoadedStays(w)'
    BY <1>14, <1>a, <1>b DEF EndLogout
  <1>15. CASE ServerQuit
    BY <1>15, <1>a, <1>b DEF ServerQuit
  <1>16. ASSUME NEW u \in Users, SaveUser(u)
         PROVE  LoadedStays(w)'
    BY <1>16, <1>a, <1>b DEF SaveUser
  <1>17. CASE EndUser
    BY <1>17, <1>a, <1>b DEF EndUser
  <1>18. CASE Exit
    BY <1>18, <1>a, <1>b DEF Exit, End
  <1>19. CASE Crash
    BY <1>19, <1>a, <1>b DEF Crash, End
  <1>20. CASE Start
    BY <1>20, <1>a, <1>b DEF Start, OInv, Stopped
  <1>21. CASE UseStale
    BY <1>21, <1>a, <1>b DEF UseStale
  <1> QED
    BY <1>1, <1>2, <1>3, <1>4, <1>5, <1>6, <1>7, <1>8, <1>9, <1>10, <1>11, <1>12,
       <1>13, <1>14, <1>15, <1>16, <1>17, <1>18, <1>19, <1>20, <1>21 DEF Next,
       RedisLoadMysqlDataByLogin, SaveRedisDataIntoDB, SaveAllClientData, Threads

(* Who comes online is cached, and a save that ends takes its user out.    *)
LEMMA KeepsCached ==
  ASSUME IInv, OInv, Next
  PROVE  OnlineIsCached' /\ Stopped'
  <1>a. /\ Handler \in Threads /\ Workers \subseteq Threads /\ Handler \notin Workers
        /\ NoData \notin Values
    BY PersistenceAssumption DEF Threads
  <1>b. OnlineIsCached /\ Stopped /\ \A t \in Threads : LoadedStays(t)
    BY DEF OInv
  <1> USE DEF IInv, TypeOK, Placed, OnlineIsCached, Stopped, Saving, Goto, Carry, Begin, EndAt,
              Delete, Cross, Key, Keys, Running, stores, threads, memory, history, life
  <1>1. ASSUME NEW w \in Workers, NEW u \in Users, BeginLogin(w, u)
         PROVE  OnlineIsCached' /\ Stopped'
    BY <1>1, <1>a, <1>b DEF BeginLogin
  <1>2. ASSUME NEW w \in Workers, ConnectFails(w)
         PROVE  OnlineIsCached' /\ Stopped'
    BY <1>2, <1>a, <1>b DEF ConnectFails
  <1>3. ASSUME NEW w \in Workers, NEW m \in Modules, LoadCached(w, m)
         PROVE  OnlineIsCached' /\ Stopped'
    BY <1>3, <1>a, <1>b DEF LoadCached
  <1>4. ASSUME NEW w \in Workers, NEW m \in Modules, LoadSelect(w, m)
         PROVE  OnlineIsCached' /\ Stopped'
    BY <1>4, <1>a, <1>b DEF LoadSelect
  <1>5. ASSUME NEW w \in Workers, NEW m \in Modules, LoadFails(w, m)
         PROVE  OnlineIsCached' /\ Stopped'
    BY <1>5, <1>a, <1>b DEF LoadFails
  <1>6. ASSUME NEW w \in Workers, Fill(w)
         PROVE  OnlineIsCached' /\ Stopped'
    <2>1. \A k \in Keys : redis[k] # NoData => redis'[k] # NoData
      BY <1>6, <1>a DEF Fill
    <2>2. Stopped'
      BY <1>6, <1>a, <1>b DEF Fill
    <2>3. \A u \in Users : Saving(u) => Saving(u)'
      BY <1>6, <1>a DEF Fill
    <2>4. conn' = conn /\ crossed' = crossed /\ \A u \in Users, m \in Modules : <<u, m>> \in Keys
      BY <1>6 DEF Fill
    <2>5. \A u \in conn \ crossed :
             Saving(u)' \/ \A m \in Modules : redis'[<<u, m>>] # NoData
      BY <1>b, <2>1, <2>3, <2>4
    <2> QED
      BY <2>2, <2>4, <2>5
  <1>7. ASSUME NEW w \in Workers, EndLogin(w)
         PROVE  OnlineIsCached' /\ Stopped'
    BY <1>7, <1>a, <1>b DEF EndLogin, LoadedStays
  <1>8. ASSUME NEW w \in Workers, NEW k \in Keys, NEW v \in Values, BeginSet(w, k, v)
         PROVE  OnlineIsCached' /\ Stopped'
    BY <1>8, <1>a, <1>b DEF BeginSet
  <1>9. ASSUME NEW w \in Workers, Set(w)
         PROVE  OnlineIsCached' /\ Stopped'
    BY <1>9, <1>a, <1>b DEF Set
  <1>10. ASSUME NEW t \in Threads, NEW m \in Modules, SaveSelect(t, m)
         PROVE  OnlineIsCached' /\ Stopped'
    BY <1>10, <1>a, <1>b DEF SaveSelect
  <1>11. ASSUME NEW t \in Threads, SaveWrite(t)
         PROVE  OnlineIsCached' /\ Stopped'
    BY <1>11, <1>a, <1>b DEF SaveWrite
  <1>12. ASSUME NEW t \in Threads, Release(t)
         PROVE  OnlineIsCached' /\ Stopped'
    BY <1>12, <1>a, <1>b DEF Release
  <1>13. ASSUME NEW w \in Workers, NEW u \in Users, BeginLogout(w, u)
         PROVE  OnlineIsCached' /\ Stopped'
    BY <1>13, <1>a, <1>b DEF BeginLogout
  <1>14. ASSUME NEW w \in Workers, EndLogout(w)
         PROVE  OnlineIsCached' /\ Stopped'
    BY <1>14, <1>a, <1>b DEF EndLogout
  <1>15. CASE ServerQuit
    BY <1>15, <1>a, <1>b DEF ServerQuit
  <1>16. ASSUME NEW u \in Users, SaveUser(u)
         PROVE  OnlineIsCached' /\ Stopped'
    BY <1>16, <1>a, <1>b DEF SaveUser
  <1>17. CASE EndUser
    BY <1>17, <1>a, <1>b DEF EndUser
  <1>18. CASE Exit
    BY <1>18, <1>a, <1>b DEF Exit, End
  <1>19. CASE Crash
    BY <1>19, <1>a, <1>b DEF Crash, End
  <1>20. CASE Start
    BY <1>20, <1>a, <1>b DEF Start
  <1>21. CASE UseStale
    BY <1>21, <1>a, <1>b DEF UseStale
  <1> QED
    BY <1>1, <1>2, <1>3, <1>4, <1>5, <1>6, <1>7, <1>8, <1>9, <1>10, <1>11, <1>12,
       <1>13, <1>14, <1>15, <1>16, <1>17, <1>18, <1>19, <1>20, <1>21 DEF Next,
       RedisLoadMysqlDataByLogin, SaveRedisDataIntoDB, SaveAllClientData, Threads

LEMMA NextOnline ==
  ASSUME IInv, OInv, [Next]_vars
  PROVE  OInv'
  <1>1. CASE Next
    BY <1>1, KeepsLoaded, KeepsCached DEF OInv
  <1>2. CASE UNCHANGED vars
    BY <1>2 DEF vars, stores, threads, memory, history, life, OInv, LoadedStays, Releasing,
                Stopped, OnlineIsCached, Saving
  <1> QED
    BY <1>1, <1>2

(* A user in GLOBAL_UID_REDISOBJECT_MAP has every module in Redis, whatever*)
(* MySQL command fails and however logins, saves and a shutdown interleave,*)
(* unless a save is at work or was beside the login                        *)
(* (RedisLoadMysqlDataByLogin, SaveRedisDataIntoDB, SaveAllClientData).    *)
THEOREM OnlineAreCached == Spec => []OnlineIsCached
  <1>1. Init => IInv /\ OInv
    BY InitInv, InitOnline
  <1>2. IInv /\ OInv /\ [Next]_vars => IInv' /\ OInv'
    BY NextInv, NextOnline
  <1>3. OInv => OnlineIsCached
    BY DEF OInv
  <1> QED
    BY <1>1, <1>2, <1>3, PTL DEF Spec
==============================================================================
