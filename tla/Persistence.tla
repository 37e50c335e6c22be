----------------------------- MODULE Persistence -----------------------------
(***************************************************************************)
(* Where the users' data is.  A login loads each personal module of the    *)
(* user from MySQL into Redis, unless Redis has it; scripts get and set it *)
(* in Redis; a save writes it to MySQL and releases it from Redis, one     *)
(* module after the other.  With LOGOUT_SAVE a logout saves; a shutdown    *)
(* (ServerQuit) saves every user of GLOBAL_UID_REDISOBJECT_MAP while the   *)
(* workers go on.  MySQL commands may fail, the server may crash and be    *)
(* started again; what is in MySQL and in Redis stays.                     *)
(*                                                                         *)
(* A thread is a worker or the one the signal handler runs on.  A Redis    *)
(* object is not thread-safe: here a command is one step, and only the use *)
(* of a deleted object is a fault, after which nothing moves.  Once        *)
(* connected, a Redis command does not fail here; in the code one that does*)
(* goes unnoticed (Redis::set) or counts as data (checkoutData).           *)
(***************************************************************************)
EXTENDS Integers, FiniteSets

CONSTANTS Users,
          Modules,      \* the personal modules, ACTOR, BAG and EMAIL
          Values,       \* what a module's data may be, never empty
          NoData,       \* no row in MySQL, no key in Redis; nothing carried
          None,         \* no user, no module
          Workers,
          Handler,      \* the thread that runs ServerQuit
          SaveTypes,    \* the configurations considered
          MaxSets       \* bound: how often scripts set data

ASSUME PersistenceAssumption ==
    /\ NoData \notin Values /\ Handler \notin Workers
    /\ None \notin Users \cup Modules
    /\ SaveTypes \subseteq {"LOGOUT_SAVE", "SERVER_DOWN_SAVE", "INTERVAL_SAVE"}
    /\ MaxSets \in Nat

Threads == Workers \cup {Handler}
Keys    == Users \X Modules
Data    == Values \cup {NoData}

VARIABLES
    mysql,      \* the row of each user and module
    redis,      \* its key
    conn,       \* the users in GLOBAL_UID_REDISOBJECT_MAP
    server,     \* "up", "quitting", "exited" or "crashed"
    saveType,   \* Config::dataSaveType
    pc,         \* where each thread is
    user,       \* the user it works for
    todo,       \* the modules its loop has not come to
    mod,        \* the module it is at
    data,       \* the data it carries
    stale,      \* the threads whose Redis object has been deleted
    fault,      \* a deleted object was used
    last,       \* history: the data each key ought to have
    torn,       \* history: keys set while a thread carried their older data
    crossed,    \* history: users saved and logging in at the same time
    sets        \* history: how often a script has set data

stores  == <<mysql, redis>>
threads == <<pc, user, todo, mod, data>>
memory  == <<conn, stale, fault>>
history == <<last, torn, crossed>>
life    == <<server, saveType>>
vars    == <<stores, threads, memory, history, life, sets>>

Init ==
    /\ mysql \in [Keys -> Data] /\ redis = [k \in Keys |-> NoData]
    /\ conn = {} /\ server = "up" /\ saveType \in SaveTypes
    /\ pc = [t \in Threads |-> "idle"] /\ user = [t \in Threads |-> None]
    /\ todo = [t \in Threads |-> {}] /\ mod = [t \in Threads |-> None]
    /\ data = [t \in Threads |-> NoData]
    /\ stale = {} /\ fault = FALSE
    /\ last = mysql /\ torn = {} /\ crossed = {}
    /\ sets = 0

Key(t) == <<user[t], mod[t]>>

Running == server \in {"up", "quitting"} /\ ~fault

Goto(t, label) == pc' = [pc EXCEPT ![t] = label]

Carry(t, m, d) == mod' = [mod EXCEPT ![t] = m] /\ data' = [data EXCEPT ![t] = d]

(* The thread t begins a loop over the modules ms of u. *)
Begin(t, label, u, ms) ==
    /\ Goto(t, label)
    /\ user' = [user EXCEPT ![t] = u] /\ todo' = [todo EXCEPT ![t] = ms]
    /\ UNCHANGED <<mod, data>>

(* The thread has come to an end of what it did, and carries nothing.      *)
EndAt(t, label) ==
    /\ Goto(t, label) /\ Carry(t, None, NoData)
    /\ user' = [user EXCEPT ![t] = None] /\ todo' = [todo EXCEPT ![t] = {}]

(* Those who have taken the pointer to u's Redis object out of the map. *)
Holders(u) == {t \in Threads : pc[t] \in {"set", "save", "write", "release"} /\ user[t] = u}

Saving(u)  == \E t \in Threads : pc[t] \in {"save", "write", "release"} /\ user[t] = u
Loading(u) == \E t \in Threads : pc[t] \in {"load", "fill"} /\ user[t] = u

(* u's Redis object is taken out of the map and deleted. *)
Delete(t, u) ==
    /\ conn' = conn \ {u}
    /\ stale' = IF u \in conn THEN stale \cup (Holders(u) \ {t}) ELSE stale

Cross(u, busy) == crossed' = IF busy THEN crossed \cup {u} ELSE crossed

------------------------------------------------------------------------------
(* Login: what an earlier session left is removed, then each module loaded. *)

BeginLogin(w, u) ==
    /\ Running /\ pc[w] = "idle"
    /\ Delete(w, u) /\ Cross(u, Saving(u))
    /\ Begin(w, "load", u, Modules)
    /\ UNCHANGED <<stores, fault, last, torn, life, sets>>

(* Redis cannot be reached. *)
ConnectFails(w) ==
    /\ Running /\ pc[w] = "load" /\ todo[w] = Modules
    /\ EndAt(w, "idle")
    /\ UNCHANGED <<stores, memory, history, life, sets>>

LoadCached(w, m) ==
    /\ Running /\ pc[w] = "load" /\ m \in todo[w]
    /\ redis[<<user[w], m>>] # NoData
    /\ todo' = [todo EXCEPT ![w] = @ \ {m}]
    /\ UNCHANGED <<stores, pc, user, mod, data, memory, history, life, sets>>

LoadSelect(w, m) ==
    /\ Running /\ pc[w] = "load" /\ m \in todo[w]
    /\ redis[<<user[w], m>>] = NoData /\ mysql[<<user[w], m>>] # NoData
    /\ Goto(w, "fill")
    /\ Carry(w, m, mysql[<<user[w], m>>])
    /\ UNCHANGED <<stores, user, todo, memory, history, life, sets>>

(* A faulty LoadFails: the loop goes on with the next module. *)
LoadContinues(w, m) ==
    /\ Running /\ pc[w] = "load" /\ m \in todo[w]
    /\ redis[<<user[w], m>>] = NoData
    /\ todo' = [todo EXCEPT ![w] = @ \ {m}]
    /\ UNCHANGED <<stores, pc, user, mod, data, memory, history, life, sets>>

(* No row, or the command fails: the login has failed. *)
LoadFails(w, m) ==
    /\ Running /\ pc[w] = "load" /\ m \in todo[w]
    /\ redis[<<user[w], m>>] = NoData
    /\ EndAt(w, "idle")
    /\ UNCHANGED <<stores, memory, history, life, sets>>

Fill(w) ==
    /\ Running /\ pc[w] = "fill"
    /\ redis' = [redis EXCEPT ![Key(w)] = data[w]]
    /\ todo' = [todo EXCEPT ![w] = @ \ {mod[w]}]
    /\ Goto(w, "load") /\ Carry(w, None, NoData)
    /\ UNCHANGED <<mysql, user, memory, history, life, sets>>

EndLogin(w) ==
    /\ Running /\ pc[w] = "load" /\ todo[w] = {}
    /\ conn' = conn \cup {user[w]}
    /\ EndAt(w, "idle")
    /\ UNCHANGED <<stores, stale, fault, history, life, sets>>

------------------------------------------------------------------------------
(* LuaSetDataToRedis: the pointer is taken out of the map, then used. *)

(* A faulty BeginSet: the key goes where the module's name belongs. *)
BeginSetKey(w, k, v) ==
    /\ Running /\ pc[w] = "idle" /\ k[1] \in conn /\ sets < MaxSets
    /\ Goto(w, "set")
    /\ user' = [user EXCEPT ![w] = k[1]] /\ Carry(w, k, v)
    /\ sets' = sets + 1
    /\ UNCHANGED <<stores, todo, memory, history, life>>

BeginSet(w, k, v) ==
    /\ Running /\ pc[w] = "idle" /\ k[1] \in conn /\ sets < MaxSets
    /\ Goto(w, "set")
    /\ user' = [user EXCEPT ![w] = k[1]] /\ Carry(w, k[2], v)
    /\ sets' = sets + 1
    /\ UNCHANGED <<stores, todo, memory, history, life>>

(* A thread carries data of the key between two stores. *)
Carried(k) == \E t \in Threads : pc[t] \in {"fill", "write", "release"} /\ Key(t) = k

Set(w) ==
    /\ Running /\ pc[w] = "set" /\ w \notin stale
    /\ redis' = [redis EXCEPT ![Key(w)] = data[w]]
    /\ last' = [last EXCEPT ![Key(w)] = data[w]]
    /\ torn' = IF Carried(Key(w)) THEN torn \cup {Key(w)} ELSE torn \ {Key(w)}
    /\ EndAt(w, "idle")
    /\ UNCHANGED <<mysql, memory, crossed, life, sets>>

------------------------------------------------------------------------------
(* The loop of SaveRedisDataIntoDB and of SaveAllClientData. *)

(* MySQL is asked whether there is a row.  A failure leaves the module, as *)
(* a key without data does.                                                *)
SaveSelect(t, m) ==
    /\ Running /\ pc[t] = "save" /\ m \in todo[t]
    /\ todo' = [todo EXCEPT ![t] = @ \ {m}]
    /\ \/ /\ t \notin stale /\ redis[<<user[t], m>>] # NoData
          /\ Goto(t, "write") /\ Carry(t, m, redis[<<user[t], m>>])
       \/ UNCHANGED <<pc, mod, data>>
    /\ UNCHANGED <<stores, user, memory, last, torn, crossed, life, sets>>

(* A faulty SaveWrite: the key is released although the command failed. *)
SaveWriteUnchecked(t) ==
    /\ Running /\ pc[t] = "write"
    /\ mysql' = [mysql EXCEPT ![Key(t)] = data[t]] \/ UNCHANGED mysql
    /\ Goto(t, "release")
    /\ UNCHANGED <<redis, user, todo, mod, data, memory, last, torn, crossed, life, sets>>

(* The row is updated or inserted, or the command fails. *)
SaveWrite(t) ==
    /\ Running /\ pc[t] = "write"
    /\ \/ /\ mysql' = [mysql EXCEPT ![Key(t)] = data[t]]
          /\ Goto(t, "release")
          /\ UNCHANGED <<mod, data>>
       \/ Goto(t, "save") /\ Carry(t, None, NoData) /\ UNCHANGED mysql
    /\ UNCHANGED <<redis, user, todo, memory, last, torn, crossed, life, sets>>

Release(t) ==
    /\ Running /\ pc[t] = "release" /\ t \notin stale
    /\ redis' = [redis EXCEPT ![Key(t)] = NoData]
    /\ Goto(t, "save") /\ Carry(t, None, NoData)
    /\ UNCHANGED <<mysql, user, todo, memory, history, life, sets>>

------------------------------------------------------------------------------
(* Logout: saved only with LOGOUT_SAVE and if still in the map, then out.  *)

BeginLogout(w, u) ==
    /\ Running /\ pc[w] = "idle"
    /\ IF saveType = "LOGOUT_SAVE" /\ u \in conn
       THEN Begin(w, "save", u, Modules) /\ Cross(u, Loading(u))
       ELSE Begin(w, "save", u, {}) /\ UNCHANGED crossed
    /\ UNCHANGED <<stores, memory, last, torn, life, sets>>

EndLogout(w) ==
    /\ Running /\ pc[w] = "save" /\ todo[w] = {}
    /\ Delete(w, user[w])
    /\ EndAt(w, "idle")
    /\ UNCHANGED <<stores, fault, history, life, sets>>

------------------------------------------------------------------------------
(* Shutdown, crash and start. *)

ServerQuit ==
    /\ Running /\ server = "up"
    /\ server' = "quitting"
    /\ Goto(Handler, "first")
    /\ UNCHANGED <<stores, user, todo, mod, data, memory, history, saveType, sets>>

(* SaveAllClientData begins with some user of the map.  Having erased the  *)
(* entry it is at, it may come to any other or to none.                    *)
SaveUser(u) ==
    /\ Running /\ pc[Handler] \in {"first", "next"} /\ u \in conn
    /\ Begin(Handler, "save", u, Modules) /\ Cross(u, Loading(u))
    /\ UNCHANGED <<stores, memory, last, torn, life, sets>>

EndUser ==
    /\ Running /\ pc[Handler] = "save" /\ todo[Handler] = {} /\ Handler \notin stale
    /\ Delete(Handler, user[Handler])
    /\ EndAt(Handler, "next")
    /\ UNCHANGED <<stores, fault, history, life, sets>>

(* Nothing in memory outlives the process. *)
End(how) ==
    /\ server' = how
    /\ conn' = {} /\ stale' = {}
    /\ pc' = [t \in Threads |-> "idle"] /\ user' = [t \in Threads |-> None]
    /\ todo' = [t \in Threads |-> {}] /\ mod' = [t \in Threads |-> None]
    /\ data' = [t \in Threads |-> NoData]
    /\ UNCHANGED <<stores, fault, history, saveType, sets>>

Exit == Running /\ (pc[Handler] = "next" \/ (pc[Handler] = "first" /\ conn = {})) /\ End("exited")

Crash == Running /\ End("crashed")

Start ==
    /\ server \in {"exited", "crashed"}
    /\ server' = "up"
    /\ crossed' = {}
    /\ UNCHANGED <<stores, threads, memory, last, torn, saveType, sets>>

(* A deleted Redis object is used, or deleted again. *)
UseStale ==
    /\ Running
    /\ \E t \in stale : pc[t] \in {"set", "release"} \/ (pc[t] = "save" /\ todo[t] # {})
                        \/ (t = Handler /\ pc[t] = "save")
    /\ fault' = TRUE
    /\ UNCHANGED <<stores, threads, conn, stale, history, life, sets>>

(* What the threads do between the first and the last step of each. *)
RedisLoadMysqlDataByLogin(w) ==
    Fill(w) \/ \E m \in Modules : LoadCached(w, m) \/ LoadSelect(w, m) \/ LoadFails(w, m)

SaveRedisDataIntoDB(w) ==
    SaveWrite(w) \/ Release(w) \/ \E m \in Modules : SaveSelect(w, m)

SaveAllClientData ==
    \/ EndUser \/ \E u \in Users : SaveUser(u)
    \/ SaveWrite(Handler) \/ Release(Handler) \/ \E m \in Modules : SaveSelect(Handler, m)

Next ==
    \/ \E w \in Workers :
          \/ \E u \in Users : BeginLogin(w, u) \/ BeginLogout(w, u)
          \/ RedisLoadMysqlDataByLogin(w) \/ ConnectFails(w) \/ EndLogin(w)
          \/ \E k \in Keys, v \in Values : BeginSet(w, k, v)
          \/ Set(w) \/ SaveRedisDataIntoDB(w) \/ EndLogout(w)
    \/ SaveAllClientData \/ ServerQuit \/ Exit
    \/ Crash \/ Start \/ UseStale

Spec == Init /\ [][Next]_vars

------------------------------------------------------------------------------
TypeOK ==
    /\ mysql \in [Keys -> Data] /\ redis \in [Keys -> Data] /\ last \in [Keys -> Data]
    /\ conn \subseteq Users /\ crossed \subseteq Users /\ torn \subseteq Keys
    /\ server \in {"up", "quitting", "exited", "crashed"} /\ saveType \in SaveTypes
    /\ pc \in [Threads -> {"idle", "load", "fill", "set", "save", "write", "release",
                           "first", "next"}]
    /\ user \in [Threads -> Users \cup {None}] /\ mod \in [Threads -> Modules \cup {None}]
    /\ todo \in [Threads -> SUBSET Modules] /\ data \in [Threads -> Data]
    /\ stale \subseteq Threads /\ fault \in BOOLEAN
    /\ sets \in 0..MaxSets

(* What a script would read after a login: Redis goes before MySQL. *)
Found(k) == IF redis[k] # NoData THEN redis[k] ELSE mysql[k]

(* What a script has set is found again, whatever MySQL command fails and  *)
(* whenever the server crashes, unless it was set between the moments      *)
(* another thread read the key and wrote or released it                    *)
(* (RedisLoadMysqlDataByLogin, SaveRedisDataIntoDB, SaveAllClientData).    *)
NothingForgotten == \A k \in Keys \ torn : Found(k) = last[k]

(* A user who is logged in has all modules in Redis, where alone scripts   *)
(* look, unless a save is at work or ran beside the login.                 *)
OnlineIsCached ==
    \A u \in conn \ crossed : Saving(u) \/ \A m \in Modules : redis[<<u, m>>] # NoData
==============================================================================
