---------------------------- MODULE NetworkProofs ----------------------------
(***************************************************************************)
(* Network, for any clients, streams and sizes of buffers: types, that     *)
(* accept never waits, that what is put is what was sent, and that nothing *)
(* is left in a socket.                                                    *)
(***************************************************************************)
EXTENDS Network, FiniteSetTheorems, TLAPS

(* Behind the first k of the stream s come r, then u, and that is all.     *)
IsPlaced(s, r, u, k) ==
    k \in Nat /\ k = Len(s) - Len(r) - Len(u) /\ r \o u = SubSeq(s, k + 1, Len(s))

(* The bytes of c that are not cut: residue, then unread.                  *)
Placed(c) == IsPlaced(sent[c], residue[c], unread[c], CutAt(c))

(* An event of this round is still to be handled.                          *)
Pending(x) == \E i \in 1..Len(events) : events[i].fd = x

(* Of every event the socket is watched, and it is the only one of its     *)
(* socket; one of the listening socket comes with somebody to accept.      *)
EventsOnce ==
    /\ npc \in {"init", "add"} => watched = {} /\ ready = <<>>
    /\ npc \notin {"next", "recv", "cut"} => events = <<>>
    /\ \A i, j \in 1..Len(events) : events[i].fd = events[j].fd => i = j
    /\ \A i \in 1..Len(events) : events[i].fd \in watched
    /\ Pending(Server) => backlog # <<>>
    /\ \A c \in Clients \cap watched : state[c] = "open"
    /\ \A i \in 1..Len(events) :
          events[i].fd \in Clients /\ ~events[i].onlyIn => reset[events[i].fd]

(* What has been cut ends with a Bar, and only while the thread is cutting *)
(* does the residue hold one.                                              *)
InOrder(c) ==
    /\ CutAt(c) # 0 => sent[c][CutAt(c)] = Bar
    /\ \/ npc = "cut" /\ cur = c
       \/ \A i \in 1..Len(residue[c]) : residue[c][i] # Bar

(* Nothing is in the buffer of a watched client without an edge pending.   *)
Heard(c) ==
    c \in watched /\ ~Contains(ready, c) /\ ~Pending(c) =>
        reset[c] \/ (unread[c] = <<>> /\ ~fin[c])

(* What is put, or will be at the end of the round or of the reading.      *)
InHand(c) == IF npc \in {"recv", "cut"} /\ cur = c THEN limitDataList ELSE <<>>

Given(c) == (handed[c] \o noLimitDataList[c]) \o InHand(c)

Past(c) == SubSeq(sent[c], 1, CutAt(c))

(* The messages given are those cut; with the logout if c has closed; and  *)
(* if recv has failed, those of before.                                    *)
Accounted(c) ==
    /\ npc \notin {"next", "recv", "cut"} \/ Pending(c) => noLimitDataList[c] = <<>>
    /\ \/ Given(c) = Messages(Past(c)) /\ state[c] # "closed"
       \/ /\ state[c] = "closed" /\ fin[c] /\ unread[c] = <<>>
          /\ Given(c) = Append(Messages(Past(c)), Logout)
       \/ /\ state[c] = "open" /\ reset[c] /\ c \notin watched
          /\ IsPrefix(Given(c), Messages(Past(c)))

EInv == TypeOK /\ EventsOnce

IInv == EInv /\ \A c \in Clients : InOrder(c) /\ Heard(c) /\ Accounted(c)

------------------------------------------------------------------------------
(* The n-th of a finite set of numbers.                                    *)
Rank(S, i) == Cardinality({j \in S : j < i})

LEMMA RankRange ==
  ASSUME NEW S \in SUBSET Nat, IsFiniteSet(S), NEW i \in S
  PROVE  /\ IsFiniteSet({j \in S : j < i}) /\ Rank(S, i) \in 0..(Cardinality(S) - 1)
         /\ Cardinality(S) \in Nat
  <1> DEFINE B == {j \in S : j < i}
  <1>1. IsFiniteSet(S \ {i}) /\ Cardinality(S \ {i}) = Cardinality(S) - 1
    BY FS_RemoveElement
  <1>2. B \in SUBSET (S \ {i})
    OBVIOUS
  <1>3. IsFiniteSet(B) /\ Cardinality(B) <= Cardinality(S) - 1
    BY <1>1, <1>2, FS_Subset
  <1>4. Cardinality(B) \in Nat /\ Cardinality(S) \in Nat
    BY <1>3, FS_CardinalityType
  <1> QED
    BY <1>3, <1>4 DEF Rank

LEMMA RankLess ==
  ASSUME NEW S \in SUBSET Nat, IsFiniteSet(S), NEW i \in S, NEW k \in S, i < k
  PROVE  Rank(S, i) < Rank(S, k)
  <1> DEFINE B == {j \in S : j < i}
             C == {j \in S : j < k}
  <1>0. ~(i < i) /\ \A j \in S : j < i => j < k
    OBVIOUS
  <1>1. B \in SUBSET C /\ i \in C /\ i \notin B
    BY <1>0
  <1>2. IsFiniteSet(C) /\ IsFiniteSet(B)
    BY RankRange
  <1>3. Cardinality(B) <= Cardinality(C) /\ Cardinality(B) # Cardinality(C)
    BY <1>1, <1>2, FS_Subset
  <1>4. Cardinality(B) \in Nat /\ Cardinality(C) \in Nat
    BY <1>2, FS_CardinalityType
  <1>5. Cardinality(B) < Cardinality(C)
    BY <1>3, <1>4
  <1> QED
    BY <1>5 DEF Rank

LEMMA NthExists ==
  ASSUME NEW S \in SUBSET Nat, IsFiniteSet(S), NEW n \in 0..(Cardinality(S) - 1)
  PROVE  Nth(S, n) \in S /\ Rank(S, Nth(S, n)) = n
  <1> DEFINE N == 0..(Cardinality(S) - 1)
             f == [i \in S |-> Rank(S, i)]
  <1>1. Cardinality(S) \in Nat
    BY FS_CardinalityType
  <1>2. IsFiniteSet(N) /\ Cardinality(N) = Cardinality(S)
    BY <1>1, FS_Interval
  <1>3. f \in [S -> N]
    BY RankRange
  <1>4. \A i, k \in S : f[i] = f[k] => i = k
    <2> SUFFICES ASSUME NEW i \in S, NEW k \in S, f[i] = f[k], i # k PROVE FALSE
      OBVIOUS
    <2>1. f[i] \in Int /\ f[k] \in Int
      BY <1>1, <1>3
    <2>2. i < k \/ k < i
      OBVIOUS
    <2> QED
      BY <2>1, <2>2, RankLess
  <1>5. f \in Injection(S, N)
    BY <1>3, <1>4 DEF Injection, IsInjective
  <1>6. f \in Surjection(S, N)
    BY <1>2, <1>5, FS_Injection
  <1>7. PICK i \in S : f[i] = n
    BY <1>6 DEF Surjection
  <1>8. \E j \in S : Cardinality({h \in S : h < j}) = n
    BY <1>7 DEF Rank
  <1> QED
    BY <1>8 DEF Nth, Rank

LEMMA NthIs ==
  ASSUME NEW S \in SUBSET Nat, IsFiniteSet(S), NEW i \in S, NEW n, Rank(S, i) = n
  PROVE  Nth(S, n) = i
  <1>1. n \in 0..(Cardinality(S) - 1)
    BY RankRange
  <1>2. Nth(S, n) \in S /\ Rank(S, Nth(S, n)) = n
    BY <1>1, NthExists
  <1>a. \A j \in S : j \in Int
    OBVIOUS
  <1>b. Cardinality(S) \in Int
    BY FS_CardinalityType
  <1>c. n \in Int
    BY <1>1, <1>b
  <1>3. n \in Int /\ i \in Int /\ Nth(S, n) \in Int
    BY <1>2, <1>a, <1>c
  <1>4. ~(Nth(S, n) < i)
    <2> SUFFICES ASSUME Nth(S, n) < i PROVE FALSE
      OBVIOUS
    <2>1. n < n
      BY <1>2, RankLess
    <2> QED
      BY <1>3, <2>1
  <1>5. ~(i < Nth(S, n))
    <2> SUFFICES ASSUME i < Nth(S, n) PROVE FALSE
      OBVIOUS
    <2>1. n < n
      BY <1>2, RankLess
    <2> QED
      BY <1>3, <2>1
  <1> QED
    BY <1>3, <1>4, <1>5

LEMMA NthLess ==
  ASSUME NEW S \in SUBSET Nat, IsFiniteSet(S), NEW m \in 0..(Cardinality(S) - 1),
         NEW n \in 0..(Cardinality(S) - 1), m < n
  PROVE  Nth(S, m) < Nth(S, n)
  <1>1. Nth(S, m) \in S /\ Rank(S, Nth(S, m)) = m /\ Nth(S, n) \in S /\ Rank(S, Nth(S, n)) = n
    BY NthExists
  <1>2. CASE Nth(S, n) < Nth(S, m)
    <2>1. n < m
      BY <1>1, <1>2, RankLess
    <2>2. m \in Int /\ n \in Int
      OBVIOUS
    <2> QED
      BY <2>1, <2>2
  <1>3. Nth(S, n) # Nth(S, m)
    BY <1>1
  <1>a. \A j \in S : j \in Int
    OBVIOUS
  <1>4. Nth(S, n) \in Int /\ Nth(S, m) \in Int
    BY <1>1, <1>a
  <1> QED
    BY <1>2, <1>3, <1>4

(* What is added above leaves those below where they are.                  *)
LEMMA NthBelow ==
  ASSUME NEW T \in SUBSET Nat, IsFiniteSet(T), NEW S \in SUBSET T,
         \A i \in S, j \in T \ S : i < j, NEW n \in 0..(Cardinality(S) - 1)
  PROVE  Nth(T, n) = Nth(S, n) /\ n \in 0..(Cardinality(T) - 1)
  <1>1. IsFiniteSet(S) /\ S \in SUBSET Nat
    BY FS_Subset
  <1>2. Nth(S, n) \in S /\ Rank(S, Nth(S, n)) = n
    BY <1>1, NthExists
  <1>0. \A i, j \in T : i \in Nat /\ (i < j => ~(j < i))
    OBVIOUS
  <1>3. {j \in T : j < Nth(S, n)} = {j \in S : j < Nth(S, n)}
    BY <1>0, <1>2
  <1>4. Rank(T, Nth(S, n)) = n
    BY <1>2, <1>3 DEF Rank
  <1> QED
    BY <1>2, <1>4, NthIs, RankRange

LEMMA NthLast ==
  ASSUME NEW S \in SUBSET Nat, IsFiniteSet(S), NEW x \in Nat, \A i \in S : i < x
  PROVE  Nth(S \cup {x}, Cardinality(S)) = x
  <1> DEFINE T == S \cup {x}
  <1>1. T \in SUBSET Nat /\ IsFiniteSet(T) /\ x \in T
    BY FS_AddElement
  <1>0. ~(x < x) /\ \A j \in S : j \in Nat
    OBVIOUS
  <1>2. {j \in T : j < x} = S
    BY <1>0
  <1>3. Rank(T, x) = Cardinality(S)
    BY <1>2 DEF Rank
  <1> QED
    BY <1>1, <1>3, NthIs

(* What Keep keeps. *)
LEMMA KeepIs ==
  ASSUME NEW T, NEW l \in Seq(T), NEW S
  PROVE  /\ Keep(l, S) \in Seq(T \cap S)
         /\ \A x : Contains(Keep(l, S), x) <=> Contains(l, x) /\ x \in S
         /\ IsInjective(l) => IsInjective(Keep(l, S))
  <1> DEFINE kept == {i \in 1..Len(l) : l[i] \in S}
             N == 0..(Cardinality(kept) - 1)
  <1>0. DOMAIN l = 1..Len(l) /\ Len(l) \in Nat /\ \A i \in 1..Len(l) : l[i] \in T
    OBVIOUS
  <1>1. kept \in SUBSET Nat /\ IsFiniteSet(kept) /\ Cardinality(kept) \in Nat
    <2>1. IsFiniteSet(1..Len(l))
      BY <1>0, FS_Interval
    <2> QED
      BY <1>0, <2>1, FS_Subset, FS_CardinalityType
  <1>2. Keep(l, S) = [n \in 1..Cardinality(kept) |-> l[Nth(kept, n - 1)]]
    BY <1>0 DEF Keep
  <1>3. \A n \in 1..Cardinality(kept) : n - 1 \in N
    BY <1>1
  <1>4. \A n \in 1..Cardinality(kept) : Nth(kept, n - 1) \in kept
    BY <1>1, <1>3, NthExists
  <1>5. /\ Keep(l, S) \in Seq(T \cap S) /\ Len(Keep(l, S)) = Cardinality(kept)
        /\ DOMAIN Keep(l, S) = 1..Cardinality(kept)
    <2>1. \A n \in 1..Cardinality(kept) : l[Nth(kept, n - 1)] \in T \cap S
      BY <1>0, <1>4
    <2> HIDE DEF kept
    <2> QED
      BY <1>1, <1>2, <2>1
  <1>p. \A n \in 1..Cardinality(kept) : Keep(l, S)[n] = l[Nth(kept, n - 1)]
    BY <1>2
  <1>6. \A x : Contains(Keep(l, S), x) => Contains(l, x) /\ x \in S
    BY <1>2, <1>4, <1>5 DEF Contains
  <1>7. ASSUME NEW x, Contains(l, x), x \in S PROVE Contains(Keep(l, S), x)
    <2>1. PICK i \in kept : l[i] = x
      BY <1>7 DEF Contains
    <2>2. PICK r \in N : r = Rank(kept, i)
      BY <1>1, RankRange
    <2>3. Nth(kept, r) = i
      BY <1>1, <2>2, NthIs
    <2>4. r + 1 \in 1..Cardinality(kept) /\ r + 1 - 1 = r
      BY <1>1
    <2>5. Keep(l, S)[r + 1] = l[Nth(kept, r)]
      <3> HIDE DEF kept
      <3>1. Keep(l, S)[r + 1] = l[Nth(kept, r + 1 - 1)]
        BY <1>p, <2>4
      <3> QED
        BY <2>4, <3>1
    <2> QED
      BY <1>5, <2>1, <2>3, <2>4, <2>5 DEF Contains
  <1>8. ASSUME IsInjective(l) PROVE IsInjective(Keep(l, S))
    <2> SUFFICES ASSUME NEW m \in 1..Cardinality(kept), NEW n \in 1..Cardinality(kept),
                        Keep(l, S)[m] = Keep(l, S)[n]
                 PROVE  m = n
      BY <1>2 DEF IsInjective
    <2>1. l[Nth(kept, m - 1)] = l[Nth(kept, n - 1)]
      BY <1>2
    <2>2. Nth(kept, m - 1) = Nth(kept, n - 1)
      BY <1>0, <1>4, <1>8, <2>1 DEF IsInjective
    <2>3. m - 1 \in N /\ n - 1 \in N
      BY <1>3
    <2>4. m - 1 = n - 1
      BY <1>1, <2>2, <2>3, NthExists
    <2> QED
      BY <1>1, <2>4
  <1> QED
    BY <1>5, <1>6, <1>7, <1>8

------------------------------------------------------------------------------
(* The messages of a stream.                                               *)
LEMMA SameSeq ==
  ASSUME NEW S, NEW s \in Seq(S), NEW t \in Seq(S), Len(s) = Len(t),
         \A i \in 1..Len(s) : s[i] = t[i]
  PROVE  s = t
  OBVIOUS

(* Between the same two places, two streams that agree there are the same. *)
LEMMA SamePart ==
  ASSUME NEW s \in Seq(Int), NEW t \in Seq(Int), NEW a \in Nat, NEW b \in Nat,
         \A i \in (a + 1)..b : i <= Len(s) /\ i <= Len(t) /\ s[i] = t[i]
  PROVE  SubSeq(s, a + 1, b) = SubSeq(t, a + 1, b) /\ SubSeq(s, a + 1, b) \in Seq(Int)
  <1>1. \A i \in (a + 1)..b : i \in 1..Len(s) /\ i \in 1..Len(t) /\ s[i] = t[i]
    OBVIOUS
  <1>2. SubSeq(s, a + 1, b) \in Seq(Int) /\ SubSeq(t, a + 1, b) \in Seq(Int)
    BY <1>1
  <1>3. Len(SubSeq(s, a + 1, b)) = Len(SubSeq(t, a + 1, b))
    BY <1>1
  <1>4. \A i \in 1..Len(SubSeq(s, a + 1, b)) :
           SubSeq(s, a + 1, b)[i] = SubSeq(t, a + 1, b)[i]
    BY <1>1
  <1> QED
    BY <1>2, <1>3, <1>4, SameSeq

LEMMA BarsAre ==
  ASSUME NEW s \in Seq(Int)
  PROVE  /\ Bars(s) \in SUBSET Nat /\ IsFiniteSet(Bars(s)) /\ 0 \in Bars(s)
         /\ Bars(s) = {0} \cup {i \in 1..Len(s) : s[i] = Bar}
         /\ \A i \in Bars(s) : i <= Len(s)
         /\ Cardinality(Bars(s)) \in Nat \ {0}
  <1>0. DOMAIN s = 1..Len(s) /\ Len(s) \in Nat
    OBVIOUS
  <1>1. Bars(s) = {0} \cup {i \in 1..Len(s) : s[i] = Bar}
    BY <1>0 DEF Bars
  <1>2. Bars(s) \in SUBSET (0..Len(s))
    BY <1>0, <1>1
  <1>3. IsFiniteSet(0..Len(s))
    BY <1>0, FS_Interval
  <1>4. IsFiniteSet(Bars(s)) /\ Cardinality(Bars(s)) \in Nat
    BY <1>2, <1>3, FS_Subset, FS_CardinalityType
  <1>5. Cardinality(Bars(s)) # 0
    BY <1>1, <1>4, FS_EmptySet
  <1> QED
    BY <1>0, <1>1, <1>2, <1>4, <1>5

LEMMA MessagesAre ==
  ASSUME NEW s \in Seq(Int)
  PROVE  /\ Messages(s) \in Seq(Seq(Int)) /\ Len(Messages(s)) = Cardinality(Bars(s)) - 1
         /\ \A n \in 1..Len(Messages(s)) :
               /\ n \in 0..(Cardinality(Bars(s)) - 1) /\ n - 1 \in 0..(Cardinality(Bars(s)) - 1)
               /\ Nth(Bars(s), n - 1) \in 0..Len(s) /\ Nth(Bars(s), n) \in 1..Len(s)
               /\ Messages(s)[n] = SubSeq(s, Nth(Bars(s), n - 1) + 1, Nth(Bars(s), n) - 1)
  <1> DEFINE k == Cardinality(Bars(s)) - 1
  <1>1. k \in Nat
    BY BarsAre
  <1>2. ASSUME NEW n \in 1..k
        PROVE  /\ n \in 0..k /\ n - 1 \in 0..k
               /\ Nth(Bars(s), n - 1) \in 0..Len(s) /\ Nth(Bars(s), n) \in 1..Len(s)
    <2>1. n \in 0..k /\ n - 1 \in 0..k /\ n - 1 < n
      BY <1>1
    <2>2. Nth(Bars(s), n - 1) \in Bars(s) /\ Nth(Bars(s), n) \in Bars(s)
      BY <2>1, BarsAre, NthExists
    <2>3. Nth(Bars(s), n - 1) < Nth(Bars(s), n)
      BY <2>1, BarsAre, NthLess
    <2>4. \A i \in Bars(s) : i \in Nat /\ i <= Len(s)
      BY BarsAre
    <2> QED
      BY <2>1, <2>2, <2>3, <2>4
  <1>3. \A n \in 1..k : SubSeq(s, Nth(Bars(s), n - 1) + 1, Nth(Bars(s), n) - 1) \in Seq(Int)
    <2> SUFFICES ASSUME NEW n \in 1..k
                 PROVE  SubSeq(s, Nth(Bars(s), n - 1) + 1, Nth(Bars(s), n) - 1) \in Seq(Int)
      OBVIOUS
    <2>1. PICK a \in 0..Len(s) : a = Nth(Bars(s), n - 1)
      BY <1>2
    <2>2. PICK b \in 1..Len(s) : b = Nth(Bars(s), n)
      BY <1>2
    <2>3. \A i \in (a + 1)..(b - 1) : i \in 1..Len(s)
      OBVIOUS
    <2>4. SubSeq(s, a + 1, b - 1) \in Seq(Int)
      BY <2>3
    <2> QED
      BY <2>1, <2>2, <2>4
  <1>4. Messages(s) = [n \in 1..k |-> SubSeq(s, Nth(Bars(s), n - 1) + 1, Nth(Bars(s), n) - 1)]
    BY DEF Messages
  <1>5. Messages(s) \in Seq(Seq(Int)) /\ Len(Messages(s)) = k
    <2> HIDE DEF k
    <2> QED
      BY <1>1, <1>3, <1>4
  <1> QED
    BY <1>2, <1>4, <1>5

LEMMA BarsOfPart ==
  ASSUME NEW s \in Seq(Int), NEW k \in 0..Len(s)
  PROVE  /\ SubSeq(s, 1, k) \in Seq(Int) /\ Len(SubSeq(s, 1, k)) = k
         /\ \A i \in 1..k : SubSeq(s, 1, k)[i] = s[i]
         /\ Bars(SubSeq(s, 1, k)) = {i \in Bars(s) : i <= k}
  <1>1. /\ SubSeq(s, 1, k) \in Seq(Int) /\ Len(SubSeq(s, 1, k)) = k
        /\ \A i \in 1..k : SubSeq(s, 1, k)[i] = s[i]
    OBVIOUS
  <1>2. \A i \in 1..k : i \in 1..Len(s) /\ i <= k
    OBVIOUS
  <1>3. \A i \in 1..Len(s) : i <= k => i \in 1..k
    OBVIOUS
  <1>4. 0 <= k
    OBVIOUS
  <1>5. /\ Bars(SubSeq(s, 1, k)) = {0} \cup {i \in 1..k : SubSeq(s, 1, k)[i] = Bar}
        /\ Bars(s) = {0} \cup {i \in 1..Len(s) : s[i] = Bar}
    BY <1>1, BarsAre
  <1> QED
    BY <1>1, <1>2, <1>3, <1>4, <1>5

(* What the beginning of a stream says is the beginning of what it says.   *)
LEMMA MessagesOfPart ==
  ASSUME NEW s \in Seq(Int), NEW k \in 0..Len(s)
  PROVE  /\ Len(Messages(SubSeq(s, 1, k))) <= Len(Messages(s))
         /\ \A n \in 1..Len(Messages(SubSeq(s, 1, k))) :
               Messages(SubSeq(s, 1, k))[n] = Messages(s)[n]
  <1> DEFINE p == SubSeq(s, 1, k)
  <1>1. p \in Seq(Int) /\ Bars(p) \in SUBSET Bars(s)
    BY BarsOfPart
  <1>2. \A i \in Bars(p), j \in Bars(s) \ Bars(p) : i < j
    BY BarsOfPart, BarsAre
  <1>3. Cardinality(Bars(p)) <= Cardinality(Bars(s))
    BY <1>1, BarsAre, FS_Subset
  <1>4. /\ Len(Messages(p)) = Cardinality(Bars(p)) - 1 /\ Len(Messages(s)) = Cardinality(Bars(s)) - 1
        /\ Cardinality(Bars(p)) \in Nat /\ Cardinality(Bars(s)) \in Nat
    BY <1>1, MessagesAre, BarsAre
  <1>5. Len(Messages(p)) <= Len(Messages(s))
    BY <1>3, <1>4
  <1>6. ASSUME NEW n \in 1..Len(Messages(p)) PROVE Messages(p)[n] = Messages(s)[n]
    <2>1. n \in 1..Len(Messages(s))
      BY <1>4, <1>5
    <2>2. /\ n \in 0..(Cardinality(Bars(p)) - 1) /\ n - 1 \in 0..(Cardinality(Bars(p)) - 1)
          /\ Nth(Bars(p), n - 1) \in 0..k /\ Nth(Bars(p), n) \in 1..k
          /\ Messages(p)[n] = SubSeq(p, Nth(Bars(p), n - 1) + 1, Nth(Bars(p), n) - 1)
      BY <1>1, MessagesAre, BarsOfPart
    <2>3. Nth(Bars(s), n) = Nth(Bars(p), n) /\ Nth(Bars(s), n - 1) = Nth(Bars(p), n - 1)
      <3>1. Bars(s) \in SUBSET Nat /\ IsFiniteSet(Bars(s))
        BY BarsAre
      <3> HIDE DEF p
      <3>2. Nth(Bars(s), n) = Nth(Bars(p), n)
        BY <1>1, <1>2, <2>2, <3>1, NthBelow
      <3>3. Nth(Bars(s), n - 1) = Nth(Bars(p), n - 1)
        BY <1>1, <1>2, <2>2, <3>1, NthBelow
      <3> QED
        BY <3>2, <3>3
    <2>4. PICK a \in 0..k : a = Nth(Bars(p), n - 1)
      BY <2>2
    <2>5. PICK b \in 1..k : b = Nth(Bars(p), n)
      BY <2>2
    <2>6. SubSeq(p, a + 1, b - 1) = SubSeq(s, a + 1, b - 1)
      <3>1. \A i \in (a + 1)..(b - 1) : i \in 1..k /\ i <= k /\ i <= Len(s)
        OBVIOUS
      <3>2. p \in Seq(Int) /\ Len(p) = k /\ \A i \in 1..k : p[i] = s[i]
        BY BarsOfPart
      <3>3. a \in Nat /\ b - 1 \in Nat
        OBVIOUS
      <3> HIDE DEF p
      <3> QED
        BY <3>1, <3>2, <3>3, SamePart
    <2>7. Messages(s)[n] = SubSeq(s, Nth(Bars(s), n - 1) + 1, Nth(Bars(s), n) - 1)
      BY <2>1, MessagesAre
    <2> QED
      BY <2>2, <2>3, <2>4, <2>5, <2>6, <2>7
  <1> QED
    BY <1>5, <1>6

(* What no bar ends is no message yet.                                     *)
LEMMA MessagesWithoutRest ==
  ASSUME NEW s \in Seq(Int), NEW k \in 0..Len(s), \A i \in (k + 1)..Len(s) : s[i] # Bar
  PROVE  Messages(SubSeq(s, 1, k)) = Messages(s)
  <1> DEFINE p == SubSeq(s, 1, k)
  <1>1. \A i \in Bars(s) : i <= k
    <2>1. \A i \in 1..Len(s) : i <= k \/ i \in (k + 1)..Len(s)
      OBVIOUS
    <2> QED
      BY <2>1, BarsAre
  <1>2. Bars(p) = Bars(s) /\ p \in Seq(Int)
    <2>1. Bars(p) = {i \in Bars(s) : i <= k} /\ p \in Seq(Int)
      BY BarsOfPart
    <2> HIDE DEF p
    <2> QED
      BY <1>1, <2>1
  <1>3. Len(Messages(p)) = Len(Messages(s))
    BY <1>2, MessagesAre
  <1>4. \A n \in 1..Len(Messages(p)) : Messages(p)[n] = Messages(s)[n]
    BY MessagesOfPart
  <1>5. Messages(p) \in Seq(Seq(Int)) /\ Messages(s) \in Seq(Seq(Int))
    BY <1>2, MessagesAre
  <1> HIDE DEF p
  <1>6. Messages(p) = Messages(s)
    BY <1>3, <1>4, <1>5, SameSeq
  <1> QED
    BY <1>6 DEF p

(* The next bar ends one message more.                                     *)
LEMMA OneMoreMessage ==
  ASSUME NEW s \in Seq(Int), NEW k \in 0..Len(s), NEW l \in (k + 1)..Len(s),
         k # 0 => s[k] = Bar, s[l] = Bar, \A i \in (k + 1)..(l - 1) : s[i] # Bar
  PROVE  Messages(SubSeq(s, 1, l)) = Append(Messages(SubSeq(s, 1, k)), SubSeq(s, k + 1, l - 1))
  <1> DEFINE p == SubSeq(s, 1, k)
             q == SubSeq(s, 1, l)
             B == Bars(p)
  <1>0. k \in Nat /\ l \in Nat /\ l \in 0..Len(s) /\ k < l /\ l \in 1..Len(s) /\ k \in 0..l
    OBVIOUS
  <1>1. p \in Seq(Int) /\ q \in Seq(Int) /\ Len(q) = l /\ \A i \in 1..l : q[i] = s[i]
    BY <1>0, BarsOfPart
  <1>2. Bars(q) = B \cup {l}
    <2>1. B = {i \in Bars(s) : i <= k} /\ Bars(q) = {i \in Bars(s) : i <= l}
      BY <1>0, BarsOfPart
    <2>2. l \in Bars(s)
      BY <1>0, BarsAre
    <2>3. \A i \in Bars(s) : i <= l => i <= k \/ i = l
      <3>1. \A i \in 1..Len(s) : i <= k \/ i \in (k + 1)..(l - 1) \/ i = l \/ ~(i <= l)
        OBVIOUS
      <3> QED
        BY <1>0, <3>1, BarsAre
    <2>4. l <= l /\ \A i \in Bars(s) : i <= k => i <= l
      BY <1>0, BarsAre
    <2> QED
      BY <2>1, <2>2, <2>3, <2>4
  <1>3. B \in SUBSET Nat /\ IsFiniteSet(B) /\ Cardinality(B) \in Nat \ {0}
    BY <1>1, BarsAre
  <1>4. k \in B /\ \A i \in B : i <= k
    <2>1. k \in Bars(s)
      BY <1>0, BarsAre
    <2>2. B = {i \in Bars(s) : i <= k}
      BY BarsOfPart
    <2> QED
      BY <1>0, <2>1, <2>2
  <1>5. l \notin B /\ Cardinality(Bars(q)) = Cardinality(B) + 1 /\ \A i \in B : i < l
    <2>1. \A i \in B : i < l
      BY <1>0, <1>3, <1>4
    <2>2. l \notin B
      BY <1>0, <2>1
    <2> QED
      BY <1>2, <1>3, <2>1, <2>2, FS_AddElement
  <1> DEFINE c == Cardinality(B)
  <1>6. Nth(Bars(q), c) = l
    BY <1>0, <1>2, <1>3, <1>5, NthLast
  <1>7. Nth(B, c - 1) = k
    <2>1. {j \in B : j < k} = B \ {k}
      <3>1. \A j \in B : j < k <=> j # k
        BY <1>0, <1>3, <1>4
      <3> QED
        BY <3>1
    <2>2. Cardinality(B \ {k}) = c - 1
      BY <1>3, <1>4, FS_RemoveElement
    <2> QED
      BY <1>3, <1>4, <2>1, <2>2, NthIs DEF Rank
  <1>8. Nth(Bars(q), c - 1) = k
    <2>1. c - 1 \in 0..(c - 1)
      BY <1>3
    <2>2. Bars(q) \in SUBSET Nat /\ IsFiniteSet(Bars(q)) /\ B \in SUBSET Bars(q)
      BY <1>1, <1>2, BarsAre
    <2>3. \A i \in B, j \in Bars(q) \ B : i < j
      BY <1>2, <1>5
    <2> QED
      BY <1>7, <2>1, <2>2, <2>3, NthBelow
  <1>9. Len(Messages(p)) = c - 1 /\ Len(Messages(q)) = c
    <2> HIDE DEF p, q
    <2>1. Len(Messages(p)) = Cardinality(B) - 1 /\ Len(Messages(q)) = Cardinality(Bars(q)) - 1
      BY <1>1, MessagesAre
    <2> QED
      BY <1>3, <1>5, <2>1
  <1>10. Messages(q)[c] = SubSeq(s, k + 1, l - 1)
    <2>1. c \in 1..Len(Messages(q))
      BY <1>3, <1>9
    <2>2. Messages(q)[c] = SubSeq(q, k + 1, l - 1)
      BY <1>1, <1>6, <1>8, <2>1, MessagesAre
    <2>3. SubSeq(q, k + 1, l - 1) = SubSeq(s, k + 1, l - 1)
      <3>1. \A i \in (k + 1)..(l - 1) : i \in 1..l /\ i <= l /\ i <= Len(s)
        BY <1>0
      <3>2. l - 1 \in Nat
        BY <1>0
      <3>3. \A i \in (k + 1)..(l - 1) : i <= Len(q) /\ i <= Len(s) /\ q[i] = s[i]
        BY <1>1, <3>1
      <3> DEFINE b == l - 1
      <3> HIDE DEF p, q, b, c
      <3>4. SubSeq(q, k + 1, b) = SubSeq(s, k + 1, b)
        BY <1>0, <1>1, <3>2, <3>3, SamePart DEF b
      <3> QED
        BY <3>4 DEF b
    <2> QED
      BY <2>2, <2>3
  <1>11. \A n \in 1..(c - 1) : Messages(q)[n] = Messages(p)[n]
    <2>1. SubSeq(q, 1, k) = p
      <3>1. \A i \in 1..k : i \in 1..l
        BY <1>0
      <3>2. p \in Seq(Int) /\ Len(p) = k /\ \A i \in 1..k : p[i] = s[i]
        BY BarsOfPart
      <3>3. SubSeq(q, 1, k) \in Seq(Int) /\ Len(SubSeq(q, 1, k)) = k
            /\ \A i \in 1..k : SubSeq(q, 1, k)[i] = q[i]
        BY <1>0, <1>1, BarsOfPart
      <3> HIDE DEF p, q
      <3>4. \A i \in 1..Len(SubSeq(q, 1, k)) : SubSeq(q, 1, k)[i] = p[i]
        BY <1>1, <3>1, <3>2, <3>3
      <3>5. Len(SubSeq(q, 1, k)) = Len(p)
        BY <3>2, <3>3
      <3>6. p \in Seq(Int) /\ SubSeq(q, 1, k) \in Seq(Int)
        BY <3>2, <3>3
      <3> QED
        BY <3>4, <3>5, <3>6, SameSeq
    <2>2. \A n \in 1..Len(Messages(SubSeq(q, 1, k))) :
             Messages(SubSeq(q, 1, k))[n] = Messages(q)[n]
      BY <1>0, <1>1, MessagesOfPart
    <2> HIDE DEF p, q
    <2> QED
      BY <1>9, <2>1, <2>2
  <1>12. SubSeq(s, k + 1, l - 1) \in Seq(Int)
    <2>1. \A i \in (k + 1)..(l - 1) : i \in 1..Len(s)
      BY <1>0
    <2> QED
      BY <1>0, <2>1
  <1>13. Messages(p) \in Seq(Seq(Int)) /\ Messages(q) \in Seq(Seq(Int))
    BY <1>1, MessagesAre
  <1>14. c \in Nat \ {0}
    BY <1>3
  <1> DEFINE m == SubSeq(s, k + 1, l - 1)
  <1> HIDE DEF p, q, c, m
  <1>15. /\ Append(Messages(p), m) \in Seq(Seq(Int)) /\ Len(Append(Messages(p), m)) = c
         /\ \A n \in 1..(c - 1) : Append(Messages(p), m)[n] = Messages(p)[n]
         /\ Append(Messages(p), m)[c] = m
    <2>1. m \in Seq(Int)
      BY <1>12 DEF m
    <2> QED
      BY <1>9, <1>13, <1>14, <2>1
  <1>16. \A n \in 1..c : Messages(q)[n] = Append(Messages(p), m)[n]
    <2>1. \A n \in 1..c : n \in 1..(c - 1) \/ n = c
      BY <1>14
    <2>2. Messages(q)[c] = m
      BY <1>10 DEF m
    <2> QED
      BY <1>11, <1>15, <2>1, <2>2
  <1>17. Messages(q) = Append(Messages(p), m)
    BY <1>9, <1>13, <1>15, <1>16, SameSeq
  <1> QED
    BY <1>17 DEF p, q, m


------------------------------------------------------------------------------
(* Sequences.                                                              *)
LEMMA AppendIs ==
  ASSUME NEW S, NEW s \in Seq(S), NEW x
  PROVE  /\ Append(s, x) \in Seq(S \cup {x}) /\ Len(Append(s, x)) = Len(s) + 1
         /\ \A i \in 1..Len(s) : Append(s, x)[i] = s[i]
         /\ Append(s, x)[Len(s) + 1] = x
         /\ \A y : Contains(Append(s, x), y) <=> Contains(s, y) \/ y = x
         /\ IsInjective(s) /\ ~Contains(s, x) => IsInjective(Append(s, x))
  <1>0. s \in Seq(S \cup {x}) /\ Len(s) \in Nat /\ DOMAIN s = 1..Len(s)
    OBVIOUS
  <1>1. /\ Append(s, x) \in Seq(S \cup {x}) /\ Len(Append(s, x)) = Len(s) + 1
        /\ DOMAIN Append(s, x) = 1..(Len(s) + 1)
        /\ \A i \in 1..Len(s) : Append(s, x)[i] = s[i]
        /\ Append(s, x)[Len(s) + 1] = x
    BY <1>0
  <1>2. \A i \in 1..(Len(s) + 1) : i \in 1..Len(s) \/ i = Len(s) + 1
    BY <1>0
  <1>3. Len(s) + 1 \in 1..(Len(s) + 1) /\ \A i \in 1..Len(s) : i \in 1..(Len(s) + 1)
    BY <1>0
  <1>4. \A y : Contains(Append(s, x), y) <=> Contains(s, y) \/ y = x
    BY <1>1, <1>2, <1>3 DEF Contains
  <1>5. IsInjective(s) /\ ~Contains(s, x) => IsInjective(Append(s, x))
    BY <1>0, <1>1, <1>2 DEF IsInjective, Contains
  <1> QED
    BY <1>1, <1>4, <1>5

LEMMA TailIs ==
  ASSUME NEW S, NEW s \in Seq(S), s # <<>>
  PROVE  /\ Tail(s) \in Seq(S) /\ Len(Tail(s)) = Len(s) - 1 /\ Len(s) \in Nat \ {0}
         /\ Head(s) = s[1] /\ Head(s) \in S
         /\ \A i \in 1..(Len(s) - 1) : Tail(s)[i] = s[i + 1] /\ i + 1 \in 1..Len(s)
         /\ \A y : Contains(s, y) <=> Contains(Tail(s), y) \/ y = Head(s)
         /\ IsInjective(s) => IsInjective(Tail(s)) /\ ~Contains(Tail(s), Head(s))
  <1>1. /\ Tail(s) \in Seq(S) /\ Len(Tail(s)) = Len(s) - 1 /\ Len(s) \in Nat \ {0}
        /\ DOMAIN s = 1..Len(s) /\ DOMAIN Tail(s) = 1..(Len(s) - 1)
        /\ Head(s) = s[1] /\ Head(s) \in S
        /\ \A i \in 1..(Len(s) - 1) : Tail(s)[i] = s[i + 1] /\ i + 1 \in 1..Len(s)
    OBVIOUS
  <1>2. 1 \in 1..Len(s) /\ \A i \in 1..Len(s) : i = 1 \/ (i - 1 \in 1..(Len(s) - 1) /\ i - 1 + 1 = i)
    BY <1>1
  <1>3. \A i \in 1..Len(s) : i = 1 \/ \E k \in 1..(Len(s) - 1) : k + 1 = i
    BY <1>2
  <1>4. \A y : Contains(s, y) <=> Contains(Tail(s), y) \/ y = Head(s)
    BY <1>1, <1>2, <1>3 DEF Contains
  <1>5. ASSUME IsInjective(s) PROVE IsInjective(Tail(s)) /\ ~Contains(Tail(s), Head(s))
    <2>1. \A i, j \in 1..Len(s) : s[i] = s[j] => i = j
      BY <1>1, <1>5 DEF IsInjective
    <2>2. \A i, j \in 1..(Len(s) - 1) : Tail(s)[i] = Tail(s)[j] => i + 1 = j + 1
      BY <1>1, <2>1
    <2>3. \A i, j \in 1..(Len(s) - 1) : i + 1 = j + 1 => i = j
      BY <1>1
    <2>4. \A i \in 1..(Len(s) - 1) : Tail(s)[i] = Head(s) => i + 1 = 1
      BY <1>1, <1>2, <2>1
    <2>5. \A i \in 1..(Len(s) - 1) : i + 1 # 1
      BY <1>1
    <2> QED
      BY <1>1, <2>2, <2>3, <2>4, <2>5 DEF IsInjective, Contains
  <1> QED
    BY <1>1, <1>4, <1>5

LEMMA RestIs ==
  ASSUME NEW S, NEW s \in Seq(S), NEW n \in 0..Len(s)
  PROVE  /\ SubSeq(s, n + 1, Len(s)) \in Seq(S) /\ Len(SubSeq(s, n + 1, Len(s))) = Len(s) - n
         /\ \A i \in 1..(Len(s) - n) : SubSeq(s, n + 1, Len(s))[i] = s[n + i] /\ n + i \in 1..Len(s)
         /\ \A y : Contains(SubSeq(s, n + 1, Len(s)), y) <=> \E i \in 1..Len(s) : n < i /\ s[i] = y
         /\ IsInjective(s) => IsInjective(SubSeq(s, n + 1, Len(s)))
  <1> DEFINE t == SubSeq(s, n + 1, Len(s))
  <1>1. /\ t \in Seq(S) /\ Len(t) = Len(s) - n /\ Len(s) \in Nat
        /\ DOMAIN s = 1..Len(s) /\ DOMAIN t = 1..(Len(s) - n)
        /\ \A i \in 1..(Len(s) - n) : t[i] = s[n + i] /\ n + i \in 1..Len(s)
    OBVIOUS
  <1> HIDE DEF t
  <1>0. n \in Nat /\ Len(s) \in Nat
    OBVIOUS
  <1>2. \A i \in 1..(Len(s) - n) : n < n + i
    BY <1>0
  <1>3. \A i \in 1..Len(s) : n < i => \E k \in 1..(Len(s) - n) : n + k = i
    <2>1. \A i \in 1..Len(s) : n < i => i - n \in 1..(Len(s) - n) /\ n + (i - n) = i
      BY <1>0
    <2> QED
      BY <2>1
  <1>4. \A y : Contains(t, y) <=> \E i \in 1..Len(s) : n < i /\ s[i] = y
    BY <1>1, <1>2, <1>3 DEF Contains
  <1>5. ASSUME IsInjective(s) PROVE IsInjective(t)
    <2>1. \A i, j \in 1..Len(s) : s[i] = s[j] => i = j
      BY <1>1, <1>5 DEF IsInjective
    <2>2. \A i, j \in 1..(Len(s) - n) : t[i] = t[j] => n + i = n + j
      BY <1>1, <2>1
    <2>3. \A i, j \in 1..(Len(s) - n) : n + i = n + j => i = j
      BY <1>1
    <2> QED
      BY <1>1, <2>2, <2>3 DEF IsInjective
  <1> QED
    BY <1>1, <1>4, <1>5 DEF t

LEMMA JoinIs ==
  ASSUME NEW S, NEW s \in Seq(S), NEW t \in Seq(S)
  PROVE  /\ s \o t \in Seq(S) /\ Len(s \o t) = Len(s) + Len(t)
         /\ \A i \in 1..Len(s) : (s \o t)[i] = s[i]
         /\ \A i \in 1..Len(t) : (s \o t)[Len(s) + i] = t[i]
  OBVIOUS

LEMMA JoinThree ==
  ASSUME NEW s \in Seq(Int), NEW t \in Seq(Int), NEW u \in Seq(Int)
  PROVE  (s \o t) \o u = s \o (t \o u)
  OBVIOUS

(* What is in the residue and in the buffer are the last bytes sent.       *)
LEMMA PlacedIs ==
  ASSUME NEW s \in Seq(Int), NEW r \in Seq(Int), NEW u \in Seq(Int),
         NEW k \in Nat, k = Len(s) - Len(r) - Len(u)
  PROVE  (r \o u = SubSeq(s, k + 1, Len(s))) <=>
            /\ \A i \in 1..Len(r) : r[i] = s[k + i]
            /\ \A i \in 1..Len(u) : u[i] = s[k + Len(r) + i]
  <1> DEFINE t == SubSeq(s, k + 1, Len(s))
             w == r \o u
  <1>0. Len(s) \in Nat /\ Len(r) \in Nat /\ Len(u) \in Nat /\ k \in 0..Len(s)
    OBVIOUS
  <1>1. /\ t \in Seq(Int) /\ Len(t) = Len(r) + Len(u)
        /\ \A i \in 1..(Len(r) + Len(u)) : t[i] = s[k + i]
    <2>1. Len(s) - k = Len(r) + Len(u)
      BY <1>0
    <2>2. /\ SubSeq(s, k + 1, Len(s)) \in Seq(Int) /\ Len(SubSeq(s, k + 1, Len(s))) = Len(s) - k
          /\ \A i \in 1..(Len(s) - k) : SubSeq(s, k + 1, Len(s))[i] = s[k + i]
      BY <1>0, RestIs
    <2> QED
      BY <2>1, <2>2
  <1>2. /\ w \in Seq(Int) /\ Len(w) = Len(r) + Len(u)
        /\ \A i \in 1..Len(r) : w[i] = r[i]
        /\ \A i \in 1..Len(u) : w[Len(r) + i] = u[i]
    OBVIOUS
  <1>3. /\ \A i \in 1..Len(r) : i \in 1..(Len(r) + Len(u))
        /\ \A i \in 1..Len(u) : Len(r) + i \in 1..(Len(r) + Len(u)) /\ k + (Len(r) + i) = k + Len(r) + i
    BY <1>0
  <1>4. \A i \in 1..(Len(r) + Len(u)) : i \in 1..Len(r) \/ \E j \in 1..Len(u) : i = Len(r) + j
    <2>1. \A i \in 1..(Len(r) + Len(u)) : i \in 1..Len(r) \/ (i - Len(r) \in 1..Len(u) /\ i = Len(r) + (i - Len(r)))
      BY <1>0
    <2> QED
      BY <2>1
  <1> HIDE DEF t, w
  <1>5. ASSUME w = t
        PROVE  /\ \A i \in 1..Len(r) : r[i] = s[k + i]
               /\ \A i \in 1..Len(u) : u[i] = s[k + Len(r) + i]
    <2>1. \A i \in 1..Len(r) : r[i] = s[k + i]
      BY <1>1, <1>2, <1>3, <1>5
    <2>2. \A i \in 1..Len(u) : t[Len(r) + i] = s[k + (Len(r) + i)]
      BY <1>1, <1>3
    <2>3. \A i \in 1..Len(u) : u[i] = s[k + Len(r) + i]
      BY <1>2, <1>3, <1>5, <2>2
    <2> QED
      BY <2>1, <2>3
  <1>6. ASSUME \A i \in 1..Len(r) : r[i] = s[k + i],
               \A i \in 1..Len(u) : u[i] = s[k + Len(r) + i]
        PROVE  w = t
    <2>1. \A i \in 1..Len(r) : w[i] = t[i]
      BY <1>1, <1>2, <1>3, <1>6
    <2>2. \A i \in 1..Len(u) : t[Len(r) + i] = s[k + (Len(r) + i)]
      BY <1>1, <1>3
    <2>3. \A i \in 1..Len(u) : w[Len(r) + i] = t[Len(r) + i]
      BY <1>2, <1>3, <1>6, <2>2
    <2>4. \A i \in 1..(Len(r) + Len(u)) : w[i] = t[i]
      BY <1>4, <2>1, <2>3
    <2> QED
      BY <1>1, <1>2, <2>4, SameSeq
  <1> QED
    BY <1>5, <1>6 DEF t, w

LEMMA PlacedBack ==
  ASSUME NEW s \in Seq(Int), NEW r \in Seq(Int), NEW u \in Seq(Int),
         NEW k \in Nat, k = Len(s) - Len(r) - Len(u),
         \A i \in 1..Len(r) : r[i] = s[k + i], \A i \in 1..Len(u) : u[i] = s[k + Len(r) + i]
  PROVE  r \o u = SubSeq(s, k + 1, Len(s))
  BY PlacedIs

LEMMA JoinAppend ==
  ASSUME NEW S, NEW s \in Seq(S), NEW t \in Seq(S), NEW x \in S, NEW u, u = Append(t, x)
  PROVE  s \o u = Append(s \o t, x)
  OBVIOUS

LEMMA PartIs ==
  ASSUME NEW s \in Seq(Int), NEW k \in Nat, NEW m \in Nat, k + m <= Len(s)
  PROVE  /\ SubSeq(s, k + 1, k + m) \in Seq(Int) /\ Len(SubSeq(s, k + 1, k + m)) = m
         /\ \A j \in 1..m : SubSeq(s, k + 1, k + m)[j] = s[k + j]
  <1>1. Len(s) \in Nat
    OBVIOUS
  <1>2. \A j \in (k + 1)..(k + m) : j \in 1..Len(s)
    BY <1>1
  <1>3. k + m - (k + 1) + 1 = m
    OBVIOUS
  <1>4. SubSeq(s, k + 1, k + m) \in Seq(Int)
    BY <1>1, <1>2
  <1>5. Len(SubSeq(s, k + 1, k + m)) = m
    BY <1>3
  <1>6. \A j \in 1..m : k + 1 + j - 1 = k + j
    OBVIOUS
  <1>7. \A j \in 1..m : SubSeq(s, k + 1, k + m)[j] = s[k + j]
    BY <1>3, <1>6
  <1> QED
    BY <1>4, <1>5, <1>7

LEMMA JoinEmpty ==
  ASSUME NEW S, NEW s \in Seq(S), NEW t \in Seq(S)
  PROVE  (s \o t) \o <<>> = s \o t /\ s \o <<>> = s /\ <<>> \o t = t /\ s \o t \in Seq(S)
  OBVIOUS

LEMMA JoinMessage ==
  ASSUME NEW s \in Seq(Seq(Int)), NEW t \in Seq(Seq(Int)), NEW x \in Seq(Int)
  PROVE  s \o Append(t, x) = Append(s \o t, x)
  <1>1. PICK S : S = Seq(Int)
    OBVIOUS
  <1>2. s \in Seq(S) /\ t \in Seq(S) /\ x \in S
    BY <1>1
  <1>3. PICK u : u = Append(t, x)
    OBVIOUS
  <1>4. s \o u = Append(s \o t, x)
    BY ONLY <1>2, <1>3, JoinAppend
  <1> QED
    BY <1>3, <1>4

------------------------------------------------------------------------------
(* Types, and the events of a round.                                       *)
LEMMA MarkIs ==
  ASSUME KernelTypes, NEW s, Mark(s), UNCHANGED <<watched, listening>>
  PROVE  /\ KernelTypes' /\ (s \in watched => Contains(ready', s))
         /\ \A x : Contains(ready, x) => Contains(ready', x)
  <1>1. CASE s \in watched /\ ~Contains(ready, s)
    <2>1. ready' = Append(ready, s) /\ watched \cup {s} = watched
      BY <1>1 DEF Mark
    <2>2. ready \in Seq(watched) /\ IsInjective(ready)
      BY DEF KernelTypes
    <2>3. /\ Append(ready, s) \in Seq(watched \cup {s}) /\ IsInjective(Append(ready, s))
          /\ \A y : Contains(Append(ready, s), y) <=> Contains(ready, y) \/ y = s
      BY <1>1, <2>2, AppendIs
    <2> QED
      BY <2>1, <2>3 DEF KernelTypes
  <1>2. CASE ~(s \in watched /\ ~Contains(ready, s))
    BY <1>2 DEF Mark, KernelTypes
  <1> QED
    BY <1>1, <1>2

LEMMA SamePlaced ==
  ASSUME TypeOK, UNCHANGED <<sent, residue, unread>>, NEW c \in Clients
  PROVE  Placed(c)'
  BY DEF TypeOK, Placed, IsPlaced, CutAt

LEMMA TypeParts ==
  TypeOK <=> SocketTypes /\ KernelTypes /\ ThreadTypes /\ \A c \in Clients : Placed(c)
  BY DEF TypeOK, Placed, IsPlaced, CutAt

(* A byte that arrives.                                                    *)
LEMMA PlacedSend ==
  ASSUME NEW s \in Seq(Int), NEW r \in Seq(Int), NEW u \in Seq(Int), NEW k,
         IsPlaced(s, r, u, k), NEW x \in Int
  PROVE  IsPlaced(Append(s, x), r, Append(u, x), k)
  <1> DEFINE t == Append(s, x)
             v == Append(u, x)
  <1>1. /\ t \in Seq(Int) /\ Len(t) = Len(s) + 1 /\ v \in Seq(Int) /\ Len(v) = Len(u) + 1
        /\ \A i \in 1..Len(s) : t[i] = s[i]
        /\ t[Len(s) + 1] = x /\ v[Len(u) + 1] = x
        /\ \A i \in 1..Len(u) : v[i] = u[i]
    OBVIOUS
  <1> HIDE DEF t, v
  <1>0. Len(s) \in Nat /\ Len(r) \in Nat /\ Len(u) \in Nat /\ k \in Nat /\ k = Len(s) - Len(r) - Len(u)
    BY DEF IsPlaced
  <1>2. Len(t) - Len(r) - Len(v) = k
    BY <1>0, <1>1
  <1>3. /\ \A i \in 1..Len(r) : r[i] = s[k + i]
        /\ \A i \in 1..Len(u) : u[i] = s[k + Len(r) + i]
    BY PlacedIs DEF IsPlaced
  <1>4. \A i \in 1..Len(r) : r[i] = t[k + i]
    <2>1. \A i \in 1..Len(r) : k + i \in 1..Len(s)
      BY <1>0
    <2> QED
      BY <1>1, <1>3, <2>1
  <1>5. \A i \in 1..Len(v) : v[i] = t[k + Len(r) + i]
    <2>1. \A i \in 1..Len(u) : k + Len(r) + i \in 1..Len(s)
      BY <1>0
    <2>2. \A i \in 1..Len(u) : v[i] = t[k + Len(r) + i]
      BY <1>1, <1>3, <2>1
    <2>3. \A i \in 1..Len(v) : i \in 1..Len(u) \/ i = Len(u) + 1
      BY <1>0, <1>1
    <2>4. k + Len(r) + (Len(u) + 1) = Len(s) + 1
      BY <1>0
    <2> QED
      BY <1>1, <2>2, <2>3, <2>4
  <1>a. t \in Seq(Int) /\ v \in Seq(Int) /\ k = Len(t) - Len(r) - Len(v)
    BY <1>1, <1>2
  <1>6. IsPlaced(t, r, v, k)
    <2>1. r \o v = SubSeq(t, k + 1, Len(t))
      BY ONLY <1>0, <1>4, <1>5, <1>a, r \in Seq(Int), PlacedBack
    <2> QED
      BY <1>0, <1>a, <2>1 DEF IsPlaced
  <1> QED
    BY <1>6 DEF t, v

(* Bytes that move from the buffer to the residue.                         *)
LEMMA PlacedRecv ==
  ASSUME NEW s \in Seq(Int), NEW r \in Seq(Int), NEW u \in Seq(Int), NEW k, IsPlaced(s, r, u, k),
         NEW n \in 0..Len(u)
  PROVE  /\ r \o SubSeq(u, 1, n) \in Seq(Int) /\ SubSeq(u, n + 1, Len(u)) \in Seq(Int)
         /\ Len(SubSeq(u, n + 1, Len(u))) = Len(u) - n
         /\ IsPlaced(s, r \o SubSeq(u, 1, n), SubSeq(u, n + 1, Len(u)), k)
  <1> DEFINE a == SubSeq(u, 1, n)
             b == SubSeq(u, n + 1, Len(u))
  <1>1. a \in Seq(Int) /\ Len(a) = n /\ \A i \in 1..n : a[i] = u[i]
    BY BarsOfPart
  <1>2. b \in Seq(Int) /\ Len(b) = Len(u) - n /\ \A i \in 1..(Len(u) - n) : b[i] = u[n + i]
    BY RestIs
  <1> HIDE DEF a, b
  <1>0. Len(s) \in Nat /\ Len(r) \in Nat /\ Len(u) \in Nat /\ n \in Nat /\ n <= Len(u)
    OBVIOUS
  <1>a. a \in Seq(Int) /\ b \in Seq(Int)
    BY <1>1, <1>2
  <1>b. a \o b \in Seq(Int) /\ Len(a \o b) = Len(a) + Len(b)
    BY <1>a
  <1>3. a \o b \in Seq(Int) /\ Len(a \o b) = Len(u)
    BY <1>0, <1>1, <1>2, <1>b
  <1>4. \A i \in 1..Len(u) : (a \o b)[i] = u[i]
    <2>1. \A i \in 1..n : (a \o b)[i] = u[i]
      BY <1>1, <1>2, JoinIs
    <2>a. \A i \in 1..Len(b) : (a \o b)[Len(a) + i] = b[i]
      BY <1>a, JoinIs
    <2>2. \A i \in 1..(Len(u) - n) : (a \o b)[n + i] = u[n + i]
      BY <1>1, <1>2, <2>a
    <2>3. \A i \in 1..Len(u) : i \in 1..n \/ \E j \in 1..(Len(u) - n) : i = n + j
      <3>1. \A i \in 1..Len(u) : i \in 1..n \/ (i - n \in 1..(Len(u) - n) /\ i = n + (i - n))
        BY <1>0
      <3> QED
        BY <3>1
    <2> QED
      BY <2>1, <2>2, <2>3
  <1>5. a \o b = u
    BY <1>3, <1>4, SameSeq
  <1>6. (r \o a) \o b = r \o (a \o b)
    BY ONLY <1>a, r \in Seq(Int), JoinThree
  <1>7. r \o a \in Seq(Int) /\ Len(r \o a) = Len(r) + n
    <2>1. r \o a \in Seq(Int) /\ Len(r \o a) = Len(r) + Len(a)
      BY <1>a
    <2> QED
      BY <1>1, <2>1
  <1>8. IsPlaced(s, r \o a, b, k)
    <2>1. k \in Nat /\ k = Len(s) - Len(r) - Len(u) /\ r \o u = SubSeq(s, k + 1, Len(s))
      BY DEF IsPlaced
    <2>2. Len(s) - Len(r) - Len(u) = Len(s) - Len(r \o a) - Len(b)
      BY <1>0, <1>2, <1>7
    <2>3. (r \o a) \o b = SubSeq(s, k + 1, Len(s))
      BY <1>5, <1>6, <2>1
    <2> QED
      BY <2>1, <2>2, <2>3 DEF IsPlaced
  <1> QED
    BY <1>2, <1>7, <1>8 DEF a, b

(* Bytes that are cut off the residue.                                     *)
LEMMA PlacedCut ==
  ASSUME NEW s \in Seq(Int), NEW r \in Seq(Int), NEW u \in Seq(Int), NEW k,
         IsPlaced(s, r, u, k), NEW n \in 0..Len(r)
  PROVE  /\ SubSeq(r, n + 1, Len(r)) \in Seq(Int)
         /\ Len(SubSeq(r, n + 1, Len(r))) = Len(r) - n
         /\ IsPlaced(s, SubSeq(r, n + 1, Len(r)), u, k + n)
  <1> DEFINE t == SubSeq(r, n + 1, Len(r))
  <1>1. t \in Seq(Int) /\ Len(t) = Len(r) - n /\ \A i \in 1..(Len(r) - n) : t[i] = r[n + i]
    BY RestIs
  <1> HIDE DEF t
  <1>0. Len(s) \in Nat /\ Len(r) \in Nat /\ Len(u) \in Nat /\ n \in Nat /\ n <= Len(r)
        /\ k \in Nat /\ k = Len(s) - Len(r) - Len(u)
    BY DEF IsPlaced
  <1>2. k + n = Len(s) - Len(t) - Len(u) /\ k + n \in Nat
    BY <1>0, <1>1
  <1>3. /\ \A i \in 1..Len(r) : r[i] = s[k + i]
        /\ \A i \in 1..Len(u) : u[i] = s[k + Len(r) + i]
    BY PlacedIs DEF IsPlaced
  <1>4. \A i \in 1..Len(t) : t[i] = s[k + n + i]
    <2>1. \A i \in 1..(Len(r) - n) : n + i \in 1..Len(r) /\ k + n + i = k + (n + i)
      BY <1>0
    <2> QED
      BY <1>1, <1>3, <2>1
  <1>5. \A i \in 1..Len(u) : u[i] = s[k + n + Len(t) + i]
    <2>1. k + n + Len(t) = k + Len(r)
      BY <1>0, <1>1
    <2> QED
      BY <1>3, <2>1
  <1> DEFINE l == k + n
  <1>a. t \in Seq(Int) /\ l \in Nat /\ l = Len(s) - Len(t) - Len(u)
    BY <1>1, <1>2
  <1>b. \A i \in 1..Len(t) : t[i] = s[l + i]
    BY <1>4
  <1>c. \A i \in 1..Len(u) : u[i] = s[l + Len(t) + i]
    BY <1>5
  <1> HIDE DEF l
  <1>d. IsPlaced(s, t, u, l)
    <2>1. t \o u = SubSeq(s, l + 1, Len(s))
      BY ONLY <1>a, <1>b, <1>c, s \in Seq(Int), u \in Seq(Int), PlacedBack
    <2> QED
      BY <1>a, <2>1 DEF IsPlaced
  <1> QED
    BY <1>1, <1>d DEF t, l

LEMMA EInit == Init => EInv
  <1> SUFFICES ASSUME Init PROVE EInv
    OBVIOUS
  <1> USE DEF Init
  <1>1. SocketTypes
    BY DEF SocketTypes, Contains, IsInjective
  <1>2. KernelTypes
    <2>1. <<>> \in Seq({}) /\ DOMAIN <<>> = {}
      OBVIOUS
    <2>2. IsInjective(<<>>)
      BY <2>1 DEF IsInjective
    <2> QED
      BY <2>1, <2>2 DEF KernelTypes
  <1>3. ThreadTypes
    <2>1. <<>> \in Seq([fd : Clients \cup {Server}, onlyIn : BOOLEAN]) /\ <<>> \in Seq(Seq(Int)) /\ <<>> \in Seq(Int)
      OBVIOUS
    <2>2. 0 \in 0..MaxFailures
      BY NetworkAssumption
    <2> QED
      BY <2>1, <2>2 DEF ThreadTypes
  <1>4. ASSUME NEW c \in Clients PROVE Placed(c)
    <2>1. CutAt(c) = 0
      <3>1. sent[c] = <<>> /\ residue[c] = <<>> /\ unread[c] = <<>> /\ Len(<<>>) = 0
        OBVIOUS
      <3>2. 0 - 0 - 0 = 0
        OBVIOUS
      <3>3. CutAt(c) = Len(<<>>) - Len(<<>>) - Len(<<>>)
        BY <3>1 DEF CutAt
      <3> QED
        BY <3>1, <3>2, <3>3
    <2>2. <<>> \o <<>> = SubSeq(<<>>, 1, 0)
      OBVIOUS
    <2>3. sent[c] = <<>> /\ residue[c] = <<>> /\ unread[c] = <<>> /\ Len(<<>>) = 0
      OBVIOUS
    <2>4. IsPlaced(<<>>, <<>>, <<>>, CutAt(c))
      <3>1. IsPlaced(<<>>, <<>>, <<>>, 0)
        <4>1. 0 - 0 - 0 = 0 /\ 0 + 1 = 1 /\ 0 \in Nat
          OBVIOUS
        <4> QED
          BY <2>2, <2>3, <4>1 DEF IsPlaced
      <3> QED
        BY <2>1, <3>1
    <2> QED
      BY <2>4, <2>3 DEF Placed
  <1>5. EventsOnce
    BY DEF EventsOnce, Pending
  <1> QED
    BY <1>1, <1>2, <1>3, <1>4, <1>5, TypeParts DEF EInv

LEMMA EOutside ==
  ASSUME EInv, Outside
  PROVE  EInv'
  <1>0. SocketTypes /\ KernelTypes /\ ThreadTypes /\ EventsOnce /\ UNCHANGED <<thread, downing, failures>>
    BY TypeParts DEF EInv, Outside
  <1>3. ThreadTypes'
    BY <1>0 DEF ThreadTypes, thread, cur
  <1>p. \A x : Pending(x)' <=> Pending(x)
    BY <1>0 DEF Pending, thread
  <1>c. PICK c \in Clients : Connect(c) \/ Send(c) \/ Shut(c) \/ Reset(c)
    BY DEF Outside
  <1>k. KernelTypes' /\ watched' = watched
    BY <1>0, <1>c, MarkIs DEF Connect, Send, Shut, Reset
  <1>4. CASE Connect(c)
    <2>0. c \notin watched /\ backlog \in Seq(Clients) /\ IsInjective(backlog) /\ ~Contains(backlog, c)
      BY <1>0, <1>4 DEF SocketTypes, EventsOnce, Connect
    <2>1. /\ Append(backlog, c) \in Seq(Clients) /\ IsInjective(Append(backlog, c))
          /\ \A y : Contains(Append(backlog, c), y) <=> Contains(backlog, y) \/ y = c
          /\ Append(backlog, c) # <<>>
      <3>1. Clients \cup {c} = Clients
        OBVIOUS
      <3> QED
        BY <2>0, <3>1, AppendIs
    <2>2. SocketTypes'
      BY <1>0, <1>4, <2>1 DEF SocketTypes, Connect
    <2>3. \A d \in Clients : Placed(d)'
      BY <1>0, <1>4, SamePlaced DEF EInv, Connect, thread
    <2>4. npc \notin {"init", "add"} \/ ready' = ready
      BY <1>0, <1>4 DEF Connect, Mark, EventsOnce
    <2>5. EventsOnce'
      BY <1>0, <1>4, <1>k, <1>p, <2>0, <2>1, <2>4 DEF EventsOnce, Connect, thread
    <2> QED
      BY <1>3, <1>k, <2>2, <2>3, <2>5 DEF EInv, TypeOK, Placed, IsPlaced
  <1>5. CASE Send(c)
    <2>1. PICK byte \in {Bar, Len(sent[c]) + 1} :
             /\ sent' = [sent EXCEPT ![c] = Append(@, byte)]
             /\ unread' = [unread EXCEPT ![c] = Append(@, byte)]
      BY <1>5 DEF Send
    <2>2. sent[c] \in Seq(Int) /\ unread[c] \in Seq(Int) /\ residue[c] \in Seq(Int)
      BY <1>0 DEF SocketTypes, ThreadTypes
    <2>3. byte \in Int
      BY <2>2 DEF Bar
    <2>4. SocketTypes'
      BY <1>0, <1>5, <2>1, <2>2, <2>3 DEF SocketTypes, Send
    <2>5. Placed(c)'
      <3>1. IsPlaced(sent[c], residue[c], unread[c], CutAt(c))
        BY TypeParts DEF EInv, Placed
      <3>2. IsPlaced(Append(sent[c], byte), residue[c], Append(unread[c], byte), CutAt(c))
        BY <2>2, <2>3, <3>1, PlacedSend
      <3>3. sent'[c] = Append(sent[c], byte) /\ unread'[c] = Append(unread[c], byte) /\ residue'[c] = residue[c]
        BY <1>0, <2>1 DEF SocketTypes, thread
      <3>4. CutAt(c)' = CutAt(c)
        <4>1. CutAt(c) = Len(Append(sent[c], byte)) - Len(residue[c]) - Len(Append(unread[c], byte))
          BY <3>2 DEF IsPlaced
        <4> QED
          BY <3>3, <4>1 DEF CutAt
      <3> QED
        BY <3>2, <3>3, <3>4 DEF Placed
    <2>6. ASSUME NEW d \in Clients, d # c PROVE Placed(d)'
      <3>1. sent'[d] = sent[d] /\ unread'[d] = unread[d] /\ residue'[d] = residue[d] /\ Placed(d)
        BY <1>0, <2>1, <2>6, TypeParts DEF SocketTypes, thread, EInv
      <3> QED
        BY <3>1 DEF Placed, CutAt
    <2>7. npc \notin {"init", "add"} \/ ready' = ready
      BY <1>0, <1>5 DEF Send, Mark, EventsOnce
    <2>8. EventsOnce'
      BY <1>0, <1>5, <1>k, <1>p, <2>7 DEF EventsOnce, Send, thread
    <2> QED
      BY <1>3, <1>k, <2>4, <2>5, <2>6, <2>8 DEF EInv, TypeOK, Placed, IsPlaced
  <1>6. CASE Shut(c) \/ Reset(c)
    <2>2. SocketTypes'
      BY <1>0, <1>6 DEF SocketTypes, Shut, Reset
    <2>3. \A d \in Clients : Placed(d)'
      BY <1>0, <1>6, SamePlaced DEF EInv, Shut, Reset, thread
    <2>4. npc \notin {"init", "add"} \/ ready' = ready
      BY <1>0, <1>6 DEF Shut, Reset, Mark, EventsOnce
    <2>5. \A d \in Clients : reset[d] => reset'[d]
      BY <1>0, <1>6 DEF Shut, Reset, SocketTypes
    <2>6. backlog' = backlog /\ state' = state
      BY <1>6 DEF Shut, Reset
    <2>7. EventsOnce'
      BY <1>0, <1>k, <1>p, <2>4, <2>5, <2>6 DEF EventsOnce, thread
    <2> QED
      BY <1>3, <1>k, <2>2, <2>3, <2>7 DEF EInv, TypeOK, Placed, IsPlaced
  <1> QED
    BY <1>c, <1>4, <1>5, <1>6

LEMMA EListen ==
  ASSUME EInv, Listen \/ ListenFails \/ WaitFails \/ ServerQuit \/ AddServer \/ UNCHANGED vars
  PROVE  EInv'
  <1>0. SocketTypes /\ KernelTypes /\ ThreadTypes /\ EventsOnce
    BY TypeParts DEF EInv
  <1> USE DEF sockets, kernel, thread
  <1>1. UNCHANGED <<sockets, events, residue, limitDataList, noLimitDataList, handed>>
    BY DEF Listen, ListenFails, WaitFails, ServerQuit, AddServer, vars
  <1>2. SocketTypes' /\ \A d \in Clients : Placed(d)'
    BY <1>0, <1>1, SamePlaced DEF SocketTypes, EInv
  <1>3. /\ npc' \in {"init", "add", "wait", "next", "recv", "cut", "end"} /\ downing' \in BOOLEAN
        /\ failures' \in 0..MaxFailures
        /\ npc' = npc \/ (npc \in {"init", "add", "wait"} /\ npc' \in {"add", "wait", "end"})
    <2>1. npc \in {"init", "add", "wait", "next", "recv", "cut", "end"} /\ downing \in BOOLEAN
          /\ failures \in 0..MaxFailures
      BY <1>0 DEF ThreadTypes
    <2>2. CASE ListenFails \/ WaitFails
      <3>1. failures' \in 0..MaxFailures
        BY <2>1, <2>2, NetworkAssumption DEF ListenFails, WaitFails, Fail
      <3> QED
        BY <2>1, <2>2, <3>1 DEF ListenFails, WaitFails
    <2>3. CASE Listen \/ ServerQuit \/ AddServer \/ UNCHANGED vars
      BY <2>1, <2>3 DEF Listen, ServerQuit, AddServer, vars, Loop
    <2> QED
      BY <2>2, <2>3
  <1>4. ThreadTypes'
    BY <1>0, <1>1, <1>3 DEF ThreadTypes, cur
  <1>5. KernelTypes'
    <2>1. CASE AddServer
      <3>1. watched' = {Server} /\ (ready' = <<>> \/ ready' = <<Server>>) /\ listening' = listening
        BY <2>1 DEF AddServer
      <3>2. <<>> \in Seq({Server}) /\ <<Server>> \in Seq({Server})
            /\ DOMAIN <<>> = {} /\ DOMAIN <<Server>> = {1}
        OBVIOUS
      <3>3. IsInjective(<<>>) /\ IsInjective(<<Server>>)
        BY <3>2 DEF IsInjective
      <3> QED
        BY <1>0, <3>1, <3>2, <3>3 DEF KernelTypes
    <2>2. CASE Listen
      BY <1>0, <2>2 DEF KernelTypes, Listen
    <2>3. CASE ListenFails \/ WaitFails \/ ServerQuit \/ UNCHANGED vars
      BY <1>0, <2>3 DEF KernelTypes, ListenFails, WaitFails, ServerQuit, vars
    <2> QED
      BY <2>1, <2>2, <2>3
  <1>6. EventsOnce'
    <2>1. \A x : Pending(x)' <=> Pending(x)
      BY <1>1 DEF Pending
    <2>2. CASE AddServer
      BY <1>0, <1>1, <2>1, <2>2, NetworkAssumption DEF EventsOnce, AddServer, Loop, Pending
    <2>3. CASE Listen \/ ListenFails
      BY <1>0, <1>1, <2>1, <2>3 DEF EventsOnce, Listen, ListenFails
    <2>4. CASE WaitFails \/ ServerQuit \/ UNCHANGED vars
      BY <1>0, <1>1, <2>1, <2>4 DEF EventsOnce, WaitFails, ServerQuit, vars
    <2> QED
      BY <2>2, <2>3, <2>4
  <1> QED
    BY <1>2, <1>4, <1>5, <1>6 DEF EInv, TypeOK, Placed, IsPlaced

LEMMA TailEvents ==
  ASSUME ThreadTypes, EventsOnce, events # <<>>, events' = Tail(events)
  PROVE  /\ events' \in Seq([fd : Clients \cup {Server}, onlyIn : BOOLEAN])
         /\ \A i, j \in 1..Len(events)' : events'[i].fd = events'[j].fd => i = j
         /\ \A i \in 1..Len(events)' : \E j \in 1..Len(events) : events'[i] = events[j]
         /\ \A x : Pending(x)' <=> Pending(x) /\ x # Head(events).fd
         /\ Head(events) = events[1] /\ 1 \in 1..Len(events) /\ Pending(Head(events).fd)
         /\ Head(events) \in [fd : Clients \cup {Server}, onlyIn : BOOLEAN]
  <1>0. events \in Seq([fd : Clients \cup {Server}, onlyIn : BOOLEAN])
    BY DEF ThreadTypes
  <1>1. /\ events' \in Seq([fd : Clients \cup {Server}, onlyIn : BOOLEAN])
        /\ Len(events') = Len(events) - 1 /\ Len(events) \in Nat \ {0}
        /\ Head(events) = events[1] /\ Head(events) \in [fd : Clients \cup {Server}, onlyIn : BOOLEAN]
        /\ \A i \in 1..(Len(events) - 1) : events'[i] = events[i + 1] /\ i + 1 \in 1..Len(events)
    <2>1. PICK T : T = [fd : Clients \cup {Server}, onlyIn : BOOLEAN]
      OBVIOUS
    <2>2. events \in Seq(T) /\ events # <<>> /\ events' = Tail(events)
      BY <1>0, <2>1
    <2>3. /\ Tail(events) \in Seq(T) /\ Len(Tail(events)) = Len(events) - 1 /\ Len(events) \in Nat \ {0}
          /\ Head(events) = events[1] /\ Head(events) \in T
          /\ \A i \in 1..(Len(events) - 1) : Tail(events)[i] = events[i + 1] /\ i + 1 \in 1..Len(events)
      BY ONLY <2>2, TailIs
    <2> QED
      BY <2>1, <2>2, <2>3
  <1>2. \A i, j \in 1..Len(events) : events[i].fd = events[j].fd => i = j
    BY DEF EventsOnce
  <1>3. \A i, j \in 1..Len(events)' : events'[i].fd = events'[j].fd => i = j
    <2>1. \A i, j \in 1..(Len(events) - 1) : events'[i].fd = events'[j].fd => i + 1 = j + 1
      BY <1>1, <1>2
    <2>2. \A i, j \in 1..(Len(events) - 1) : i + 1 = j + 1 => i = j
      BY <1>1
    <2> QED
      BY <1>1, <2>1, <2>2
  <1>4. \A i \in 1..Len(events)' : \E j \in 1..Len(events) : events'[i] = events[j]
    BY <1>1
  <1>5. 1 \in 1..Len(events) /\ \A i \in 1..Len(events) : i = 1 \/ \E k \in 1..(Len(events) - 1) : i = k + 1
    <2>1. 1 \in 1..Len(events) /\ \A i \in 1..Len(events) : i = 1 \/ (i - 1 \in 1..(Len(events) - 1) /\ i = i - 1 + 1)
      BY <1>1
    <2> QED
      BY <2>1
  <1>6. \A k \in 1..(Len(events) - 1) : k + 1 # 1
    BY <1>1
  <1>7. \A x : Pending(x)' <=> \E k \in 1..(Len(events) - 1) : events[k + 1].fd = x
    BY <1>1 DEF Pending
  <1>8. \A k \in 1..(Len(events) - 1) : events[k + 1].fd # Head(events).fd
    BY <1>1, <1>2, <1>5, <1>6
  <1>9. \A x : Pending(x) <=> x = Head(events).fd \/ \E k \in 1..(Len(events) - 1) : events[k + 1].fd = x
    BY <1>1, <1>5 DEF Pending
  <1>10. \A x : Pending(x)' <=> Pending(x) /\ x # Head(events).fd
    BY <1>7, <1>8, <1>9
  <1> QED
    BY <1>1, <1>3, <1>4, <1>5, <1>9, <1>10

(* Whose event is handled, and that it is watched.                         *)
LEMMA CurIs ==
  ASSUME EInv, npc \in {"recv", "cut"}
  PROVE  /\ events # <<>> /\ cur \in Clients /\ cur \in watched /\ state[cur] = "open" /\ Pending(cur)
         /\ cur # Server /\ Head(events) = events[1] /\ 1 \in 1..Len(events)
         /\ sent[cur] \in Seq(Int) /\ unread[cur] \in Seq(Int) /\ residue[cur] \in Seq(Int)
         /\ fin[cur] \in BOOLEAN /\ reset[cur] \in BOOLEAN
         /\ IsPlaced(sent[cur], residue[cur], unread[cur], CutAt(cur))
  <1>0. SocketTypes /\ ThreadTypes /\ EventsOnce /\ \A c \in Clients : Placed(c)
    BY TypeParts DEF EInv
  <1>1. events # <<>> /\ cur \in Clients
    BY <1>0 DEF ThreadTypes
  <1>2. Head(events) = events[1] /\ 1 \in 1..Len(events)
    <2>1. events \in Seq([fd : Clients \cup {Server}, onlyIn : BOOLEAN])
      BY <1>0 DEF ThreadTypes
    <2> QED
      BY <1>1, <2>1
  <1>3. cur \in watched /\ Pending(cur)
    BY <1>0, <1>2 DEF EventsOnce, cur, Pending
  <1>4. state[cur] = "open"
    BY <1>0, <1>1, <1>3 DEF EventsOnce
  <1>5. /\ sent[cur] \in Seq(Int) /\ unread[cur] \in Seq(Int) /\ residue[cur] \in Seq(Int)
        /\ fin[cur] \in BOOLEAN /\ reset[cur] \in BOOLEAN
    BY <1>0, <1>1 DEF SocketTypes, ThreadTypes
  <1>6. IsPlaced(sent[cur], residue[cur], unread[cur], CutAt(cur))
    BY <1>0, <1>1 DEF Placed
  <1> QED
    BY <1>1, <1>2, <1>3, <1>4, <1>5, <1>6, NetworkAssumption

LEMMA WaitIs ==
  ASSUME EInv, EpollWait
  PROVE  \E live \in Seq(watched) : \E n \in 0..Len(live) :
            /\ n <= MaxEvents /\ IsInjective(live)
            /\ \A x : Contains(live, x) <=> Contains(ready, x) /\ x \in watched /\ Reports(x)
            /\ events' = [i \in 1..n |-> Event(live[i])]
            /\ ready' = SubSeq(live, n + 1, Len(live))
  <1> DEFINE live == Keep(ready, {s \in watched : Reports(s)})
             n == IF Len(live) < MaxEvents THEN Len(live) ELSE MaxEvents
  <1>1. ready \in Seq(watched) /\ IsInjective(ready)
    BY TypeParts DEF EInv, KernelTypes
  <1>2. /\ live \in Seq(watched) /\ IsInjective(live)
        /\ \A x : Contains(live, x) <=> Contains(ready, x) /\ x \in watched /\ Reports(x)
    <2>1. /\ live \in Seq(watched \cap {s \in watched : Reports(s)}) /\ IsInjective(live)
          /\ \A x : Contains(live, x) <=> Contains(ready, x) /\ x \in {s \in watched : Reports(s)}
      BY <1>1, KeepIs
    <2>2. live \in Seq(watched)
      <3>1. (watched \cap {s \in watched : Reports(s)}) \in SUBSET watched
        OBVIOUS
      <3> HIDE DEF live
      <3> QED
        BY <2>1, <3>1
    <2> QED
      BY <2>1, <2>2
  <1>3. events' = [i \in 1..n |-> Event(live[i])] /\ ready' = SubSeq(live, n + 1, Len(live))
    BY DEF EpollWait
  <1>4. n \in 0..Len(live) /\ n <= MaxEvents
    <2> HIDE DEF live
    <2>1. Len(live) \in Nat
      BY <1>2
    <2> QED
      BY <2>1, NetworkAssumption
  <1> HIDE DEF live, n
  <1> QED
    BY <1>2, <1>3, <1>4

LEMMA EWait ==
  ASSUME EInv, EpollWait
  PROVE  /\ EInv' /\ \A c \in Clients : Heard(c) => Heard(c)'
  <1>0. SocketTypes /\ KernelTypes /\ ThreadTypes /\ EventsOnce
    BY TypeParts DEF EInv
  <1>u. /\ npc = "wait" /\ npc' = "next"
        /\ UNCHANGED <<state, backlog, sent, unread, fin, reset, watched, listening, residue, limitDataList,
                       noLimitDataList, handed, downing, failures>>
    BY DEF EpollWait, sockets
  <1>e. events = <<>> /\ \A x : ~Pending(x)
    <2>1. events = <<>>
      BY <1>0, <1>u DEF EventsOnce
    <2>2. Len(<<>>) = 0 /\ 1..0 = {}
      OBVIOUS
    <2> QED
      BY <2>1, <2>2 DEF Pending
  <1>1. PICK live \in Seq(watched) : \E n \in 0..Len(live) :
            /\ n <= MaxEvents /\ IsInjective(live)
            /\ \A x : Contains(live, x) <=> Contains(ready, x) /\ x \in watched /\ Reports(x)
            /\ events' = [i \in 1..n |-> Event(live[i])]
            /\ ready' = SubSeq(live, n + 1, Len(live))
    BY WaitIs
  <1>2. PICK n \in 0..Len(live) :
            /\ n <= MaxEvents /\ IsInjective(live)
            /\ \A x : Contains(live, x) <=> Contains(ready, x) /\ x \in watched /\ Reports(x)
            /\ events' = [i \in 1..n |-> Event(live[i])]
            /\ ready' = SubSeq(live, n + 1, Len(live))
    BY <1>1
  <1>3. /\ n \in Nat /\ Len(live) \in Nat /\ DOMAIN live = 1..Len(live)
        /\ \A i \in 1..n : i \in 1..Len(live) /\ i <= n
        /\ \A i \in 1..Len(live) : i \in 1..n \/ n < i
    OBVIOUS
  <1>4. \A i \in 1..n : live[i] \in watched /\ Contains(live, live[i]) /\ Reports(live[i])
    <2>1. \A i \in 1..n : live[i] \in watched /\ Contains(live, live[i])
      BY <1>3 DEF Contains
    <2> QED
      BY <1>2, <2>1
  <1>5. /\ watched \in SUBSET (Clients \cup {Server})
        /\ \A c \in Clients : reset[c] \in BOOLEAN
    BY <1>0 DEF KernelTypes, SocketTypes
  <1>6. Len(events') = n
        /\ \A i \in 1..n : events'[i].fd = live[i]
                            /\ events'[i].onlyIn = (live[i] = Server \/ ~reset[live[i]])
    BY <1>2, <1>3 DEF Event
  <1>7. events' \in Seq([fd : Clients \cup {Server}, onlyIn : BOOLEAN])
    <2>1. \A i \in 1..n : Event(live[i]) \in [fd : Clients \cup {Server}, onlyIn : BOOLEAN]
      BY <1>4, <1>5 DEF Event
    <2> QED
      BY <1>2, <1>3, <2>1
  <1>8. SocketTypes' /\ \A d \in Clients : Placed(d)'
    BY <1>0, <1>u, SamePlaced DEF SocketTypes, EInv
  <1>9. KernelTypes'
    BY <1>0, <1>2, <1>u, RestIs DEF KernelTypes
  <1>10. ThreadTypes'
    BY <1>0, <1>7, <1>u DEF ThreadTypes
  <1>11. EventsOnce'
    <2>1. \A i, j \in 1..Len(events') : events'[i].fd = events'[j].fd => i = j
      BY <1>2, <1>3, <1>6 DEF IsInjective
    <2>2. \A i \in 1..Len(events') : events'[i].fd \in watched'
      BY <1>4, <1>6, <1>u
    <2>3. Pending(Server)' => backlog' # <<>>
      BY <1>4, <1>6, <1>u DEF Pending, Reports
    <2>4. \A c \in Clients \cap watched' : state'[c] = "open"
      BY <1>0, <1>u DEF EventsOnce
    <2>5. \A i \in 1..Len(events') : events'[i].fd \in Clients /\ ~events'[i].onlyIn => reset'[events'[i].fd]
      BY <1>6, <1>u
    <2> QED
      BY <1>u, <2>1, <2>2, <2>3, <2>4, <2>5 DEF EventsOnce
  <1>12. ASSUME NEW c \in Clients, Heard(c) PROVE Heard(c)'
    <2>1. Pending(c)' <=> \E i \in 1..n : live[i] = c
      BY <1>6 DEF Pending
    <2>2. Contains(ready', c) <=> \E i \in 1..Len(live) : n < i /\ live[i] = c
      BY <1>2, RestIs
    <2>3. Contains(live, c) => Pending(c)' \/ Contains(ready', c)
      BY <1>3, <2>1, <2>2 DEF Contains
    <2>4. c # Server /\ fin[c] \in BOOLEAN /\ reset[c] \in BOOLEAN
      BY <1>0, NetworkAssumption DEF SocketTypes
    <2>5. CASE Contains(live, c) \/ c \notin watched
      BY <1>u, <2>3, <2>5 DEF Heard
    <2>6. CASE ~Contains(live, c) /\ c \in watched /\ Contains(ready, c)
      <3>1. ~Reports(c)
        BY <1>2, <2>6
      <3> QED
        BY <1>u, <2>4, <3>1 DEF Heard, Reports
    <2>7. CASE c \in watched /\ ~Contains(ready, c)
      BY <1>e, <1>u, <1>12, <2>7 DEF Heard
    <2> QED
      BY <2>5, <2>6, <2>7
  <1> QED
    BY <1>8, <1>9, <1>10, <1>11, <1>12 DEF EInv, TypeOK, Placed, IsPlaced

LEMMA EAccept ==
  ASSUME EInv, Accept
  PROVE  /\ EInv' /\ \A c \in Clients : Heard(c) => Heard(c)'
  <1>0. SocketTypes /\ KernelTypes /\ ThreadTypes /\ EventsOnce
    BY TypeParts DEF EInv
  <1>1. PICK c : c = Head(backlog)
    OBVIOUS
  <1>2. /\ npc = "next" /\ npc' = "next" /\ events # <<>> /\ Head(events).fd = Server /\ backlog # <<>>
        /\ state' = [state EXCEPT ![c] = "open"] /\ watched' = watched \cup {c}
        /\ ready' = IF Reports(c) THEN Append(ready, c) ELSE ready
        /\ backlog' = Tail(backlog) /\ events' = Tail(events)
        /\ UNCHANGED <<sent, unread, fin, reset, listening, residue,
                       limitDataList, noLimitDataList, handed, downing, failures>>
    BY <1>1 DEF Accept
  <1>3. backlog \in Seq(Clients) /\ IsInjective(backlog)
        /\ \A d \in Clients : Contains(backlog, d) <=> state[d] = "waiting"
    BY <1>0 DEF SocketTypes
  <1>4. /\ Tail(backlog) \in Seq(Clients) /\ IsInjective(Tail(backlog)) /\ c \in Clients
        /\ \A y : Contains(backlog, y) <=> Contains(Tail(backlog), y) \/ y = c
        /\ ~Contains(Tail(backlog), c)
    BY <1>1, <1>2, <1>3, TailIs
  <1>5. c # Server /\ state[c] = "waiting" /\ c \notin watched
    BY <1>0, <1>3, <1>4, NetworkAssumption DEF EventsOnce
  <1>6. SocketTypes'
    <2>1. state' \in [Clients -> {"new", "waiting", "open", "lost", "closed"}]
      BY <1>0, <1>2, <1>4 DEF SocketTypes
    <2>2. \A d \in Clients : Contains(backlog', d) <=> state'[d] = "waiting"
      BY <1>0, <1>2, <1>3, <1>4 DEF SocketTypes
    <2> QED
      BY <1>0, <1>2, <1>4, <2>1, <2>2 DEF SocketTypes
  <1>7. ready \in Seq(watched) /\ IsInjective(ready) /\ ~Contains(ready, c)
    <2>1. ready \in Seq(watched) /\ IsInjective(ready)
      BY <1>0 DEF KernelTypes
    <2>2. \A i \in DOMAIN ready : ready[i] \in watched
      BY <2>1
    <2> QED
      BY <1>5, <2>1, <2>2 DEF Contains
  <1>8. KernelTypes' /\ \A y : Contains(ready, y) => Contains(ready', y)
    <2>1. ready \in Seq(watched \cup {c})
      BY <1>7
    <2>2. /\ Append(ready, c) \in Seq(watched \cup {c}) /\ IsInjective(Append(ready, c))
          /\ \A y : Contains(ready, y) => Contains(Append(ready, c), y)
      BY <1>7, AppendIs
    <2>3. ready' \in Seq(watched \cup {c}) /\ IsInjective(ready') /\ \A y : Contains(ready, y) => Contains(ready', y)
      BY <1>2, <1>7, <2>1, <2>2
    <2> QED
      BY <1>0, <1>2, <1>4, <2>3 DEF KernelTypes
  <1>9. Reports(c) => Contains(ready', c)
    BY <1>2, <1>7, AppendIs
  <1>10. /\ events' \in Seq([fd : Clients \cup {Server}, onlyIn : BOOLEAN])
         /\ \A i, j \in 1..Len(events)' : events'[i].fd = events'[j].fd => i = j
         /\ \A i \in 1..Len(events)' : \E j \in 1..Len(events) : events'[i] = events[j]
         /\ \A x : Pending(x)' <=> Pending(x) /\ x # Server
    BY <1>0, <1>2, TailEvents
  <1>11. ThreadTypes'
    BY <1>0, <1>2, <1>10 DEF ThreadTypes
  <1>12. \A d \in Clients : Placed(d)'
    BY <1>2, SamePlaced DEF EInv
  <1>13. EventsOnce'
    <2>1. \A i \in 1..Len(events') : events'[i].fd \in watched'
      BY <1>0, <1>2, <1>10 DEF EventsOnce
    <2>2. \A d \in Clients \cap watched' : state'[d] = "open"
      BY <1>0, <1>2, <1>4 DEF EventsOnce, SocketTypes
    <2>3. \A i \in 1..Len(events') : events'[i].fd \in Clients /\ ~events'[i].onlyIn => reset'[events'[i].fd]
      BY <1>0, <1>2, <1>10 DEF EventsOnce
    <2> QED
      BY <1>2, <1>10, <2>1, <2>2, <2>3 DEF EventsOnce
  <1>14. ASSUME NEW d \in Clients, Heard(d) PROVE Heard(d)'
    <2>1. Pending(d)' <=> Pending(d)
      BY <1>10, NetworkAssumption
    <2>2. CASE d = c
      BY <1>2, <1>5, <1>9, <2>2 DEF Heard, Reports
    <2>3. CASE d # c
      BY <1>2, <1>8, <1>14, <2>1, <2>3 DEF Heard
    <2> QED
      BY <2>2, <2>3
  <1> QED
    BY <1>6, <1>8, <1>11, <1>12, <1>13, <1>14 DEF EInv, TypeOK, Placed, IsPlaced

LEMMA EAcceptFails ==
  ASSUME EInv, AcceptFails
  PROVE  /\ EInv' /\ \A c \in Clients : Heard(c) => Heard(c)'
  <1>0. SocketTypes /\ KernelTypes /\ ThreadTypes /\ EventsOnce
    BY TypeParts DEF EInv
  <1>1. PICK c : c = Head(backlog)
    OBVIOUS
  <1>2. /\ npc = "next" /\ npc' = "next" /\ events # <<>> /\ Head(events).fd = Server /\ backlog # <<>>
        /\ failures < MaxFailures /\ failures' = failures + 1
        /\ \/ UNCHANGED <<state, backlog>>
           \/ state' = [state EXCEPT ![c] = "lost"] /\ backlog' = Tail(backlog)
        /\ events' = Tail(events)
        /\ UNCHANGED <<sent, unread, fin, reset, watched, ready, listening, residue,
                       limitDataList, noLimitDataList, handed, downing>>
    BY <1>1 DEF AcceptFails, Fail, kernel
  <1>3. backlog \in Seq(Clients) /\ IsInjective(backlog)
        /\ \A d \in Clients : Contains(backlog, d) <=> state[d] = "waiting"
    BY <1>0 DEF SocketTypes
  <1>4. /\ Tail(backlog) \in Seq(Clients) /\ IsInjective(Tail(backlog)) /\ c \in Clients
        /\ \A y : Contains(backlog, y) <=> Contains(Tail(backlog), y) \/ y = c
        /\ ~Contains(Tail(backlog), c)
    BY <1>1, <1>2, <1>3, TailIs
  <1>5. c # Server /\ state[c] = "waiting" /\ c \notin watched
    BY <1>0, <1>3, <1>4, NetworkAssumption DEF EventsOnce
  <1>6. SocketTypes'
    <2>1. state' \in [Clients -> {"new", "waiting", "open", "lost", "closed"}]
      BY <1>0, <1>2, <1>4 DEF SocketTypes
    <2>2. \A d \in Clients : Contains(backlog', d) <=> state'[d] = "waiting"
      BY <1>0, <1>2, <1>3, <1>4 DEF SocketTypes
    <2> QED
      BY <1>0, <1>2, <1>4, <2>1, <2>2 DEF SocketTypes
  <1>8. KernelTypes'
    BY <1>0, <1>2 DEF KernelTypes
  <1>10. /\ events' \in Seq([fd : Clients \cup {Server}, onlyIn : BOOLEAN])
         /\ \A i, j \in 1..Len(events)' : events'[i].fd = events'[j].fd => i = j
         /\ \A i \in 1..Len(events)' : \E j \in 1..Len(events) : events'[i] = events[j]
         /\ \A x : Pending(x)' <=> Pending(x) /\ x # Server
    BY <1>0, <1>2, TailEvents
  <1>11. ThreadTypes'
    <2>1. failures' \in 0..MaxFailures
      BY <1>0, <1>2, NetworkAssumption DEF ThreadTypes
    <2> QED
      BY <1>0, <1>2, <1>10, <2>1 DEF ThreadTypes
  <1>12. \A d \in Clients : Placed(d)'
    BY <1>2, SamePlaced DEF EInv
  <1>13. EventsOnce'
    <2>1. \A i \in 1..Len(events') : events'[i].fd \in watched'
      BY <1>0, <1>2, <1>10 DEF EventsOnce
    <2>2. \A d \in Clients \cap watched' : state'[d] = "open"
      BY <1>0, <1>2, <1>4, <1>5 DEF EventsOnce, SocketTypes
    <2>3. \A i \in 1..Len(events') : events'[i].fd \in Clients /\ ~events'[i].onlyIn => reset'[events'[i].fd]
      BY <1>0, <1>2, <1>10 DEF EventsOnce
    <2> QED
      BY <1>2, <1>10, <2>1, <2>2, <2>3 DEF EventsOnce
  <1>14. ASSUME NEW d \in Clients, Heard(d) PROVE Heard(d)'
    <2>1. Pending(d)' <=> Pending(d)
      BY <1>10, NetworkAssumption
    <2> QED
      BY <1>2, <1>14, <2>1 DEF Heard
  <1> QED
    BY <1>6, <1>8, <1>11, <1>12, <1>13, <1>14 DEF EInv, TypeOK, Placed, IsPlaced

LEMMA EClient ==
  ASSUME EInv, Client
  PROVE  /\ EInv' /\ \A c \in Clients : Heard(c) => Heard(c)'
  <1>0. SocketTypes /\ KernelTypes /\ ThreadTypes /\ EventsOnce
    BY TypeParts DEF EInv
  <1>2. /\ npc = "next" /\ events # <<>> /\ Head(events).fd # Server
        /\ IF Head(events).onlyIn THEN npc' = "recv" /\ UNCHANGED events
                                  ELSE events' = Tail(events) /\ UNCHANGED npc
        /\ UNCHANGED <<state, backlog, sent, unread, fin, reset, watched, ready, listening, residue,
                       limitDataList, noLimitDataList, handed, downing, failures>>
    BY DEF Client, sockets, kernel
  <1>6. SocketTypes' /\ KernelTypes' /\ \A d \in Clients : Placed(d)'
    BY <1>0, <1>2, SamePlaced DEF SocketTypes, KernelTypes, EInv
  <1>3. events \in Seq([fd : Clients \cup {Server}, onlyIn : BOOLEAN])
    BY <1>0 DEF ThreadTypes
  <1>4. Head(events) \in [fd : Clients \cup {Server}, onlyIn : BOOLEAN] /\ Head(events) = events[1]
        /\ 1 \in 1..Len(events)
    <2>1. PICK T : T = [fd : Clients \cup {Server}, onlyIn : BOOLEAN]
      OBVIOUS
    <2>2. events \in Seq(T)
      BY <1>3, <2>1
    <2>3. Head(events) \in T /\ Head(events) = events[1] /\ 1 \in 1..Len(events)
      BY ONLY <1>2, <2>2
    <2> QED
      BY <2>1, <2>3
  <1>7. CASE Head(events).onlyIn
    <2>1. \A x : Pending(x)' <=> Pending(x)
      BY <1>2, <1>7 DEF Pending
    <2>2. ThreadTypes'
      BY <1>0, <1>2, <1>4, <1>7 DEF ThreadTypes, cur
    <2>3. EventsOnce'
      BY <1>0, <1>2, <1>7, <2>1 DEF EventsOnce
    <2>4. \A d \in Clients : Heard(d) => Heard(d)'
      BY <1>2, <2>1 DEF Heard
    <2> QED
      BY <1>6, <2>2, <2>3, <2>4 DEF EInv, TypeOK, Placed, IsPlaced
  <1>8. CASE ~Head(events).onlyIn
    <2>1. /\ events' \in Seq([fd : Clients \cup {Server}, onlyIn : BOOLEAN])
          /\ \A i, j \in 1..Len(events)' : events'[i].fd = events'[j].fd => i = j
          /\ \A i \in 1..Len(events)' : \E j \in 1..Len(events) : events'[i] = events[j]
          /\ \A x : Pending(x)' <=> Pending(x) /\ x # Head(events).fd
      BY <1>0, <1>2, <1>8, TailEvents
    <2>2. ThreadTypes'
      BY <1>0, <1>2, <1>8, <2>1 DEF ThreadTypes
    <2>3. EventsOnce'
      BY <1>0, <1>2, <1>8, <2>1 DEF EventsOnce
    <2>4. reset[Head(events).fd]
      BY <1>0, <1>2, <1>4, <1>8 DEF EventsOnce
    <2>5. \A d \in Clients : Heard(d) => Heard(d)'
      BY <1>2, <2>1, <2>4 DEF Heard
    <2> QED
      BY <1>6, <2>2, <2>3, <2>5 DEF EInv, TypeOK, Placed, IsPlaced
  <1> QED
    BY <1>7, <1>8

LEMMA EFlush ==
  ASSUME EInv, Flush
  PROVE  /\ EInv' /\ \A c \in Clients : Heard(c) => Heard(c)'
  <1>0. SocketTypes /\ KernelTypes /\ ThreadTypes /\ EventsOnce
    BY TypeParts DEF EInv
  <1>2. /\ npc = "next" /\ npc' \in {"wait", "end"} /\ events = <<>>
        /\ handed' = [c \in Clients |-> handed[c] \o noLimitDataList[c]]
        /\ noLimitDataList' = [c \in Clients |-> <<>>]
        /\ UNCHANGED <<state, backlog, sent, unread, fin, reset, watched, ready, listening, events,
                       residue, limitDataList, downing, failures>>
    BY DEF Flush, Loop, sockets, kernel
  <1>6. SocketTypes' /\ KernelTypes' /\ \A d \in Clients : Placed(d)'
    BY <1>0, <1>2, SamePlaced DEF SocketTypes, KernelTypes, EInv
  <1>3. handed' \in [Clients -> Seq(Seq(Int))] /\ noLimitDataList' \in [Clients -> Seq(Seq(Int))]
    <2>1. \A c \in Clients : handed[c] \o noLimitDataList[c] \in Seq(Seq(Int))
      <3>1. \A c \in Clients : handed[c] \in Seq(Seq(Int)) /\ noLimitDataList[c] \in Seq(Seq(Int))
        BY <1>0 DEF ThreadTypes
      <3> QED
        BY <3>1, JoinIs
    <2>2. <<>> \in Seq(Seq(Int))
      OBVIOUS
    <2> QED
      BY <1>2, <2>1, <2>2
  <1>4. ThreadTypes'
    BY <1>0, <1>2, <1>3 DEF ThreadTypes
  <1>5. \A x : Pending(x)' <=> Pending(x)
    BY <1>2 DEF Pending
  <1>7. EventsOnce'
    BY <1>0, <1>2, <1>5 DEF EventsOnce
  <1>8. \A c \in Clients : Heard(c) => Heard(c)'
    BY <1>2, <1>5 DEF Heard
  <1> QED
    BY <1>4, <1>6, <1>7, <1>8 DEF EInv, TypeOK, Placed, IsPlaced

LEMMA ERecv ==
  ASSUME EInv, Recv
  PROVE  /\ EInv' /\ \A c \in Clients : Heard(c) => Heard(c)'
         /\ CutAt(cur)' = CutAt(cur)
  <1>0. SocketTypes /\ KernelTypes /\ ThreadTypes /\ EventsOnce
    BY TypeParts DEF EInv
  <1> DEFINE m == IF Len(unread[cur]) < BufferSize THEN Len(unread[cur]) ELSE BufferSize
  <1>1. PICK n : n = m
    OBVIOUS
  <1>2. /\ npc = "recv" /\ npc' = "cut" /\ n > 0
        /\ residue' = [residue EXCEPT ![cur] = @ \o SubSeq(unread[cur], 1, n)]
        /\ unread' = [unread EXCEPT ![cur] = SubSeq(@, n + 1, Len(@))]
        /\ UNCHANGED <<state, backlog, sent, fin, reset, watched, ready, listening, events,
                       limitDataList, noLimitDataList, handed, downing, failures>>
    BY <1>1 DEF Recv, kernel
  <1>3. /\ cur \in Clients /\ Pending(cur)
        /\ sent[cur] \in Seq(Int) /\ unread[cur] \in Seq(Int) /\ residue[cur] \in Seq(Int)
        /\ IsPlaced(sent[cur], residue[cur], unread[cur], CutAt(cur))
    BY <1>2, CurIs
  <1>4. n \in 0..Len(unread[cur])
    <2>1. Len(unread[cur]) \in Nat
      BY <1>3
    <2> QED
      BY <1>1, <2>1, NetworkAssumption
  <1> HIDE DEF m
  <1>5. PICK c : c = cur
    OBVIOUS
  <1>6. cur' = cur
    BY <1>2 DEF cur
  <1>7. /\ c \in Clients /\ Pending(c) /\ sent[c] \in Seq(Int) /\ unread[c] \in Seq(Int)
        /\ residue[c] \in Seq(Int) /\ IsPlaced(sent[c], residue[c], unread[c], CutAt(c))
        /\ n \in 0..Len(unread[c])
        /\ residue' = [residue EXCEPT ![c] = @ \o SubSeq(unread[c], 1, n)]
        /\ unread' = [unread EXCEPT ![c] = SubSeq(@, n + 1, Len(@))]
    BY <1>2, <1>3, <1>4, <1>5
  <1>8. /\ residue[c] \o SubSeq(unread[c], 1, n) \in Seq(Int)
        /\ SubSeq(unread[c], n + 1, Len(unread[c])) \in Seq(Int)
        /\ IsPlaced(sent[c], residue[c] \o SubSeq(unread[c], 1, n),
                    SubSeq(unread[c], n + 1, Len(unread[c])), CutAt(c))
    BY <1>7, PlacedRecv
  <1>9. SocketTypes'
    BY <1>0, <1>2, <1>7, <1>8 DEF SocketTypes
  <1>10. KernelTypes'
    BY <1>0, <1>2 DEF KernelTypes
  <1>11. ThreadTypes'
    <2>1. residue' \in [Clients -> Seq(Int)]
      BY <1>0, <1>7, <1>8 DEF ThreadTypes
    <2> QED
      BY <1>0, <1>2, <1>3, <1>6, <2>1 DEF ThreadTypes
  <1>12. /\ residue'[c] = residue[c] \o SubSeq(unread[c], 1, n)
         /\ unread'[c] = SubSeq(unread[c], n + 1, Len(unread[c])) /\ sent'[c] = sent[c]
    BY <1>0, <1>2, <1>7 DEF SocketTypes, ThreadTypes
  <1>13. CutAt(c)' = CutAt(c)
    <2>1. CutAt(c) = Len(sent'[c]) - Len(residue'[c]) - Len(unread'[c])
      BY <1>8, <1>12 DEF IsPlaced
    <2> QED
      BY <2>1 DEF CutAt
  <1>14. Placed(c)'
    BY <1>8, <1>12, <1>13 DEF Placed
  <1>15. ASSUME NEW d \in Clients, d # c PROVE Placed(d)'
    <2>1. sent'[d] = sent[d] /\ unread'[d] = unread[d] /\ residue'[d] = residue[d] /\ Placed(d)
      BY <1>0, <1>2, <1>7, <1>15, TypeParts DEF SocketTypes, ThreadTypes, EInv
    <2> QED
      BY <2>1 DEF Placed, CutAt
  <1>16. \A x : Pending(x)' <=> Pending(x)
    BY <1>2 DEF Pending
  <1>17. EventsOnce'
    BY <1>0, <1>2, <1>16 DEF EventsOnce
  <1>18. ASSUME NEW d \in Clients, Heard(d) PROVE Heard(d)'
    <2>1. d = c \/ unread'[d] = unread[d]
      BY <1>0, <1>7 DEF SocketTypes
    <2>2. d = c => Pending(d)'
      BY <1>7, <1>16
    <2>3. /\ watched' = watched /\ ready' = ready /\ reset' = reset /\ fin' = fin
          /\ (Pending(d)' <=> Pending(d))
      BY <1>2, <1>16
    <2> QED
      BY <1>18, <2>1, <2>2, <2>3 DEF Heard
  <1>19. CutAt(cur)' = CutAt(cur)
    <2>1. /\ sent' = sent /\ events' = events
      BY <1>2
    <2> QED
      BY <1>5, <1>6, <1>13 DEF CutAt
  <1> QED
    BY <1>9, <1>10, <1>11, <1>14, <1>15, <1>17, <1>18, <1>19 DEF EInv, TypeOK, Placed, IsPlaced

(* Where the first bar is.                                                 *)
LEMMA FirstBar ==
  ASSUME NEW r \in Seq(Int), Contains(r, Bar)
  PROVE  \E i \in 1..Len(r) : /\ SelectInSeq(r, LAMBDA byte : byte = Bar) = i /\ r[i] = Bar
                              /\ \A j \in 1..(i - 1) : j \in 1..Len(r) /\ r[j] # Bar
  <1> DEFINE I == {i \in 1..Len(r) : r[i] = Bar}
  <1>0. DOMAIN r = 1..Len(r) /\ Len(r) \in Nat
    OBVIOUS
  <1>1. I # {} /\ I \in SUBSET Nat
    BY <1>0 DEF Contains
  <1>2. SelectInSeq(r, LAMBDA byte : byte = Bar) = IF I = {} THEN 0 ELSE Min(I)
    BY <1>0 DEF SelectInSeq
  <1>3. IsFiniteSet(I) /\ Cardinality(I) \in Nat \ {0}
    <2>1. IsFiniteSet(1..Len(r))
      BY <1>0, FS_Interval
    <2>2. I \in SUBSET (1..Len(r))
      OBVIOUS
    <2> HIDE DEF I
    <2> QED
      BY <1>1, <2>1, <2>2, FS_Subset, FS_CardinalityType, FS_EmptySet
  <1>4. PICK i : i = Nth(I, 0)
    OBVIOUS
  <1>5. i \in I /\ Rank(I, i) = 0
    <2> HIDE DEF I
    <2>1. 0 \in 0..(Cardinality(I) - 1)
      BY <1>3
    <2> QED
      BY <1>1, <1>3, <1>4, <2>1, NthExists
  <1>6. \A j \in I : ~(j < i)
    <2> HIDE DEF I
    <2>1. {j \in I : j < i} = {}
      BY <1>1, <1>3, <1>5, RankRange, FS_EmptySet DEF Rank
    <2> QED
      BY <2>1
  <1>7. \A j \in I : i <= j
    BY <1>1, <1>5, <1>6
  <1>8. Min(I) \in I /\ \A j \in I : Min(I) <= j
    <2> HIDE DEF I
    <2> QED
      BY <1>5, <1>7 DEF Min
  <1>9. Min(I) = i
    <2>1. Min(I) <= i /\ i <= Min(I) /\ i \in Nat /\ Min(I) \in Nat
      <3> HIDE DEF I
      <3> QED
        BY <1>1, <1>5, <1>7, <1>8
    <2> HIDE DEF I
    <2> QED
      BY <2>1
  <1>10. SelectInSeq(r, LAMBDA byte : byte = Bar) = i
    BY <1>1, <1>2, <1>9
  <1>11. i \in 1..Len(r) /\ r[i] = Bar
    BY <1>5
  <1>12. \A j \in 1..(i - 1) : j \in 1..Len(r) /\ j < i
    BY <1>0, <1>11
  <1>13. \A j \in 1..(i - 1) : r[j] # Bar
    BY <1>6, <1>12
  <1> QED
    BY <1>10, <1>11, <1>12, <1>13

(* What Cut does when there is a bar.                                      *)
LEMMA CutIs ==
  ASSUME EInv, Cut, NEW c, c = cur, Contains(residue[c], Bar)
  PROVE  \E i \in 1..Len(residue[c]) :
            /\ residue[c][i] = Bar /\ \A j \in 1..(i - 1) : j \in 1..Len(residue[c]) /\ residue[c][j] # Bar
            /\ limitDataList' = Append(limitDataList, SubSeq(residue[c], 1, i - 1))
            /\ residue' = [residue EXCEPT ![c] = SubSeq(@, i + 1, Len(@))]
            /\ npc' = npc
  <1>1. npc = "cut" /\ residue[c] \in Seq(Int)
    BY CurIs DEF Cut
  <1>2. PICK i \in 1..Len(residue[c]) :
           /\ SelectInSeq(residue[c], LAMBDA byte : byte = Bar) = i /\ residue[c][i] = Bar
           /\ \A j \in 1..(i - 1) : j \in 1..Len(residue[c]) /\ residue[c][j] # Bar
    BY <1>1, FirstBar
  <1>3. /\ limitDataList' =
             Append(limitDataList,
                    SubSeq(residue[c], 1, SelectInSeq(residue[c], LAMBDA byte : byte = Bar) - 1))
        /\ residue' = [residue EXCEPT ![c] = SubSeq(@, SelectInSeq(residue[c], LAMBDA byte : byte = Bar) + 1, Len(@))]
        /\ npc' = npc
    BY DEF Cut
  <1> QED
    BY <1>2, <1>3

LEMMA ECut ==
  ASSUME EInv, Cut
  PROVE  /\ EInv' /\ \A c \in Clients : Heard(c) => Heard(c)'
  <1>0. SocketTypes /\ KernelTypes /\ ThreadTypes /\ EventsOnce
    BY TypeParts DEF EInv
  <1>1. PICK c : c = cur
    OBVIOUS
  <1>2. /\ npc = "cut"
        /\ UNCHANGED <<state, backlog, sent, unread, fin, reset, watched, ready, listening, events,
                       noLimitDataList, handed, downing, failures>>
        /\ ~Contains(residue[c], Bar) => npc' = "recv" /\ UNCHANGED <<residue, limitDataList>>
    BY <1>1 DEF Cut, sockets, kernel
  <1>3. /\ c \in Clients /\ sent[c] \in Seq(Int) /\ unread[c] \in Seq(Int) /\ residue[c] \in Seq(Int)
        /\ IsPlaced(sent[c], residue[c], unread[c], CutAt(c))
    BY <1>1, <1>2, CurIs
  <1>4. cur' = cur /\ events # <<>>
    BY <1>0, <1>2 DEF cur, ThreadTypes
  <1>5. SocketTypes' /\ KernelTypes'
    BY <1>0, <1>2 DEF SocketTypes, KernelTypes
  <1>6. \A x : Pending(x)' <=> Pending(x)
    BY <1>2 DEF Pending
  <1>7. \A d \in Clients : Heard(d) => Heard(d)'
    BY <1>2, <1>6 DEF Heard
  <1>8. npc' \in {"cut", "recv"}
    BY <1>1, <1>2, CutIs
  <1>9. EventsOnce'
    BY <1>0, <1>2, <1>6, <1>8 DEF EventsOnce
  <1>10. CASE ~Contains(residue[c], Bar)
    <2>1. ThreadTypes'
      BY <1>0, <1>1, <1>2, <1>3, <1>4, <1>10 DEF ThreadTypes
    <2>2. \A d \in Clients : Placed(d)'
      BY <1>2, <1>10, SamePlaced DEF EInv
    <2> QED
      BY <1>5, <1>7, <1>9, <2>1, <2>2 DEF EInv, TypeOK, Placed, IsPlaced
  <1>11. CASE Contains(residue[c], Bar)
    <2>1. PICK i \in 1..Len(residue[c]) :
            /\ residue[c][i] = Bar /\ \A j \in 1..(i - 1) : j \in 1..Len(residue[c]) /\ residue[c][j] # Bar
            /\ limitDataList' = Append(limitDataList, SubSeq(residue[c], 1, i - 1))
            /\ residue' = [residue EXCEPT ![c] = SubSeq(@, i + 1, Len(@))]
            /\ npc' = npc
      BY <1>1, <1>11, CutIs
    <2>2. i \in 0..Len(residue[c]) /\ i - 1 \in 0..Len(residue[c])
      OBVIOUS
    <2>3. /\ SubSeq(residue[c], i + 1, Len(residue[c])) \in Seq(Int)
          /\ IsPlaced(sent[c], SubSeq(residue[c], i + 1, Len(residue[c])), unread[c], CutAt(c) + i)
      BY <1>3, <2>2, PlacedCut
    <2>4. SubSeq(residue[c], 1, i - 1) \in Seq(Int)
      BY <1>3, <2>2, BarsOfPart
    <2>5. /\ residue' \in [Clients -> Seq(Int)]
          /\ residue'[c] = SubSeq(residue[c], i + 1, Len(residue[c]))
          /\ \A d \in Clients : d # c => residue'[d] = residue[d]
      BY <1>0, <1>3, <2>1, <2>3 DEF ThreadTypes
    <2>6. limitDataList' \in Seq(Seq(Int))
      <3>1. limitDataList \in Seq(Seq(Int))
        BY <1>0 DEF ThreadTypes
      <3> QED
        BY <2>1, <2>4, <3>1
    <2>7. ThreadTypes'
      BY <1>0, <1>1, <1>2, <1>3, <1>4, <2>1, <2>5, <2>6 DEF ThreadTypes
    <2>8. CutAt(c)' = CutAt(c) + i
      <3>1. CutAt(c) + i = Len(sent'[c]) - Len(residue'[c]) - Len(unread'[c])
        BY <1>2, <2>3, <2>5 DEF IsPlaced
      <3> QED
        BY <3>1 DEF CutAt
    <2>9. Placed(c)'
      BY <1>2, <2>3, <2>5, <2>8 DEF Placed
    <2>10. ASSUME NEW d \in Clients, d # c PROVE Placed(d)'
      <3>1. sent'[d] = sent[d] /\ unread'[d] = unread[d] /\ residue'[d] = residue[d] /\ Placed(d)
        BY <1>2, <2>5, <2>10, TypeParts DEF EInv
      <3> QED
        BY <3>1 DEF Placed, CutAt
    <2> QED
      BY <1>5, <1>7, <1>9, <2>7, <2>9, <2>10 DEF EInv, TypeOK, Placed, IsPlaced
  <1> QED
    BY <1>10, <1>11

(* What the three ends of a reading have in common.                        *)
LEMMA EHand ==
  ASSUME EInv, ReadDry \/ ReadClose \/ ReadFails
  PROVE  /\ EInv' /\ \A c \in Clients : Heard(c) => Heard(c)'
         /\ \A x : Pending(x)' <=> Pending(x) /\ x # cur
  <1>0. SocketTypes /\ KernelTypes /\ ThreadTypes /\ EventsOnce
    BY TypeParts DEF EInv
  <1>1. PICK c : c = cur
    OBVIOUS
  <1>2. /\ npc = "recv" /\ npc' = "next" /\ unread[c] = <<>> /\ limitDataList' = <<>> /\ events' = Tail(events)
        /\ UNCHANGED <<backlog, sent, unread, fin, reset, listening, residue, downing, failures>>
    BY <1>1 DEF ReadDry, ReadClose, ReadFails, HandOver, sockets, kernel
  <1>3. /\ c \in Clients /\ c \in watched /\ state[c] = "open" /\ Pending(c) /\ events # <<>> /\ c # Server
        /\ c = Head(events).fd
    BY <1>1, <1>2, CurIs DEF cur
  <1>4. \/ watched' = watched /\ ready' = ready /\ state' = state /\ ~fin[c]
        \/ /\ watched' = watched \ {c} /\ ready' = Keep(ready, watched \ {c})
           /\ state' = state \/ state' = [state EXCEPT ![c] = "closed"]
    BY <1>1 DEF ReadDry, ReadClose, ReadFails, HandOver, sockets, kernel
  <1>5. handed' \in [Clients -> Seq(Seq(Int))] /\ noLimitDataList' \in [Clients -> Seq(Seq(Int))]
    <2>1. /\ handed \in [Clients -> Seq(Seq(Int))] /\ noLimitDataList \in [Clients -> Seq(Seq(Int))]
          /\ limitDataList \in Seq(Seq(Int))
      BY <1>0 DEF ThreadTypes
    <2>2. Append(limitDataList, Logout) \in Seq(Seq(Int))
      <3>1. Logout \in Seq(Int)
        BY DEF Logout
      <3> QED
        BY <2>1, <3>1
    <2>3. PICK msgs \in Seq(Seq(Int)) : HandOver(msgs) \/ UNCHANGED <<handed, noLimitDataList>>
      BY <2>1, <2>2 DEF ReadDry, ReadClose, ReadFails
    <2>4. handed[c] \o msgs \in Seq(Seq(Int)) /\ noLimitDataList[c] \o msgs \in Seq(Seq(Int))
      <3>1. handed[c] \in Seq(Seq(Int)) /\ noLimitDataList[c] \in Seq(Seq(Int))
        BY <1>3, <2>1
      <3> QED
        BY <3>1, JoinIs
    <2>5. \/ UNCHANGED <<handed, noLimitDataList>>
          \/ handed' = [handed EXCEPT ![c] = @ \o msgs] /\ UNCHANGED noLimitDataList
          \/ noLimitDataList' = [noLimitDataList EXCEPT ![c] = @ \o msgs] /\ UNCHANGED handed
      BY <1>1, <2>3 DEF HandOver
    <2> QED
      BY <1>3, <2>1, <2>4, <2>5
  <1>6. SocketTypes'
    BY <1>0, <1>2, <1>3, <1>4 DEF SocketTypes
  <1>7. KernelTypes' /\ watched' \in SUBSET watched /\ (\A x : x \in watched => x \in watched' \/ x = c)
        /\ \A x : Contains(ready', x) <=> Contains(ready, x) /\ x \in watched'
    <2>1. ready \in Seq(watched) /\ IsInjective(ready) /\ watched \in SUBSET (Clients \cup {Server})
      BY <1>0 DEF KernelTypes
    <2>2. \A x : Contains(ready, x) => x \in watched
      <3>1. \A i \in DOMAIN ready : ready[i] \in watched
        BY <2>1
      <3>2. DOMAIN ready = 1..Len(ready)
        BY <2>1
      <3> QED
        BY <3>1, <3>2 DEF Contains
    <2>3. CASE watched' = watched /\ ready' = ready
      BY <1>0, <1>2, <2>1, <2>2, <2>3 DEF KernelTypes
    <2>4. CASE watched' = watched \ {c} /\ ready' = Keep(ready, watched \ {c})
      <3>1. /\ Keep(ready, watched \ {c}) \in Seq(watched \cap (watched \ {c}))
            /\ IsInjective(Keep(ready, watched \ {c}))
            /\ \A x : Contains(Keep(ready, watched \ {c}), x) <=> Contains(ready, x) /\ x \in watched \ {c}
        BY <2>1, KeepIs
      <3>2. watched \cap (watched \ {c}) = watched'
        BY <2>4
      <3>3. ready' \in Seq(watched') /\ IsInjective(ready')
        BY <2>4, <3>1, <3>2
      <3> QED
        BY <1>0, <1>2, <2>1, <2>4, <3>1, <3>3 DEF KernelTypes
    <2> QED
      BY <1>4, <2>3, <2>4
  <1>8. /\ events' \in Seq([fd : Clients \cup {Server}, onlyIn : BOOLEAN])
        /\ \A i, j \in 1..Len(events)' : events'[i].fd = events'[j].fd => i = j
        /\ \A i \in 1..Len(events)' : \E j \in 1..Len(events) : events'[i] = events[j]
        /\ \A x : Pending(x)' <=> Pending(x) /\ x # c
    BY <1>0, <1>2, <1>3, TailEvents
  <1>9. ThreadTypes'
    <2>1. <<>> \in Seq(Seq(Int))
      OBVIOUS
    <2> QED
      BY <1>0, <1>2, <1>5, <1>8, <2>1 DEF ThreadTypes
  <1>10. \A d \in Clients : Placed(d)'
    BY <1>2, SamePlaced DEF EInv
  <1>11. EventsOnce'
    <2>1. \A i \in 1..Len(events') : events'[i].fd \in watched'
      <3> SUFFICES ASSUME NEW i \in 1..Len(events') PROVE events'[i].fd \in watched'
        OBVIOUS
      <3>1. events'[i].fd \in watched
        BY <1>0, <1>8 DEF EventsOnce
      <3>a. PICK x : x = events'[i].fd
        OBVIOUS
      <3>2. Pending(x)'
        BY <3>a DEF Pending
      <3>3. x # c
        BY <1>8, <3>2
      <3> QED
        BY <1>7, <3>1, <3>3, <3>a
    <2>2. \A d \in Clients \cap watched' : state'[d] = "open"
      BY <1>0, <1>3, <1>4 DEF EventsOnce, SocketTypes
    <2>3. \A i \in 1..Len(events') : events'[i].fd \in Clients /\ ~events'[i].onlyIn => reset'[events'[i].fd]
      BY <1>0, <1>2, <1>8 DEF EventsOnce
    <2>4. Pending(Server)' => backlog' # <<>>
      BY <1>0, <1>2, <1>8 DEF EventsOnce
    <2> QED
      BY <1>2, <1>8, <2>1, <2>2, <2>3, <2>4 DEF EventsOnce
  <1>12. ASSUME NEW d \in Clients, Heard(d) PROVE Heard(d)'
    <2>1. CASE d = c
      BY <1>2, <1>4, <2>1 DEF Heard
    <2>2. CASE d # c
      BY <1>2, <1>7, <1>8, <1>12, <2>2 DEF Heard
    <2> QED
      BY <2>1, <2>2
  <1> QED
    BY <1>1, <1>6, <1>7, <1>8, <1>9, <1>10, <1>11, <1>12 DEF EInv, TypeOK, Placed, IsPlaced

LEMMA EQuiet ==
  ASSUME EInv, Listen \/ ListenFails \/ WaitFails \/ ServerQuit \/ AddServer \/ UNCHANGED vars
  PROVE  \A c \in Clients : Heard(c) => Heard(c)'
  <1>1. UNCHANGED <<unread, fin, reset, events>>
    BY DEF Listen, ListenFails, WaitFails, ServerQuit, AddServer, vars, sockets, kernel, thread
  <1>2. \A x : Pending(x)' <=> Pending(x)
    BY <1>1 DEF Pending
  <1>3. CASE AddServer
    <2>1. watched' = {Server}
      BY <1>3 DEF AddServer
    <2> QED
      BY <2>1, NetworkAssumption DEF Heard
  <1>4. CASE ~AddServer
    <2>1. watched' = watched /\ ready' = ready
      BY <1>4 DEF Listen, ListenFails, WaitFails, ServerQuit, vars, sockets, kernel, thread
    <2> QED
      BY <1>1, <1>2, <2>1 DEF Heard
  <1> QED
    BY <1>3, <1>4

LEMMA EHeardOutside ==
  ASSUME EInv, Outside
  PROVE  \A c \in Clients : Heard(c) => Heard(c)'
  <1>0. SocketTypes /\ KernelTypes /\ UNCHANGED <<thread, downing, failures>>
    BY TypeParts DEF EInv, Outside
  <1>1. PICK c \in Clients : Connect(c) \/ Send(c) \/ Shut(c) \/ Reset(c)
    BY DEF Outside
  <1>2. \A x : Pending(x)' <=> Pending(x)
    BY <1>0 DEF Pending, thread
  <1>3. watched' = watched /\ \A x : Contains(ready, x) => Contains(ready', x)
    BY <1>0, <1>1, MarkIs DEF Connect, Send, Shut, Reset
  <1>4. CASE Connect(c)
    BY <1>2, <1>3, <1>4 DEF Heard, Connect
  <1>5. CASE ~Connect(c)
    <2>1. c \in watched => Contains(ready', c)
      BY <1>0, <1>1, <1>5, MarkIs DEF Send, Shut, Reset
    <2>2. \A d \in Clients : d # c => unread'[d] = unread[d] /\ fin'[d] = fin[d] /\ reset'[d] = reset[d]
      BY <1>0, <1>1, <1>5 DEF Send, Shut, Reset, SocketTypes
    <2> QED
      BY <1>2, <1>3, <2>1, <2>2 DEF Heard
  <1> QED
    BY <1>4, <1>5

LEMMA ENext ==
  ASSUME EInv, [Next]_vars
  PROVE  EInv' /\ \A c \in Clients : Heard(c) => Heard(c)'
  <1>1. CASE Outside
    BY <1>1, EOutside, EHeardOutside
  <1>2. CASE Listen \/ ListenFails \/ WaitFails \/ ServerQuit \/ AddServer \/ UNCHANGED vars
    BY <1>2, EListen, EQuiet
  <1>3. CASE EpollWait
    BY <1>3, EWait
  <1>4. CASE Accept
    BY <1>4, EAccept
  <1>5. CASE AcceptFails
    BY <1>5, EAcceptFails
  <1>6. CASE Client
    BY <1>6, EClient
  <1>7. CASE Flush
    BY <1>7, EFlush
  <1>8. CASE Recv
    BY <1>8, ERecv
  <1>9. CASE Cut
    BY <1>9, ECut
  <1>10. CASE ReadDry \/ ReadClose \/ ReadFails
    BY <1>10, EHand
  <1> QED
    BY <1>1, <1>2, <1>3, <1>4, <1>5, <1>6, <1>7, <1>8, <1>9, <1>10
       DEF Next, epollListening, StartEpoll, Read, KernelFails

(* TypeOK is an invariant; it says too that what a client has sent and the *)
(* thread has not cut yet is in the residue or in the socket's buffer.     *)
THEOREM NetworkTypeOK == Spec => []TypeOK
  <1>1. EInv /\ [Next]_vars => EInv'
    BY ENext
  <1> QED
    BY <1>1, EInit, PTL DEF Spec, EInv

(* An event of the listening socket always comes with somebody to accept:  *)
(* only the thread takes from the backlog, once for an event, and each     *)
(* round has one such event at most.                                       *)
THEOREM AcceptAlwaysFinds == Spec => []AcceptNeverBlocks
  <1>1. EInv /\ [Next]_vars => EInv'
    BY ENext
  <1>2. EInv => AcceptNeverBlocks
    <2> SUFFICES ASSUME EInv, npc = "next", events # <<>>, Head(events).fd = Server PROVE backlog # <<>>
      BY DEF AcceptNeverBlocks
    <2>1. EventsOnce /\ events \in Seq([fd : Clients \cup {Server}, onlyIn : BOOLEAN])
      BY TypeParts DEF EInv, ThreadTypes
    <2>2. Head(events) = events[1] /\ 1 \in 1..Len(events)
      BY <2>1
    <2> QED
      BY <2>1, <2>2 DEF EventsOnce, Pending
  <1> QED
    BY <1>1, <1>2, EInit, PTL DEF Spec

------------------------------------------------------------------------------
(* What is put is what was sent.                                           *)
LEMMA PrefixIs ==
  ASSUME NEW S, NEW s \in Seq(S), NEW t \in Seq(S)
  PROVE  IsPrefix(s, t) <=> Len(s) <= Len(t) /\ \A i \in 1..Len(s) : s[i] = t[i]
  <1>0. Len(s) \in Nat /\ Len(t) \in Nat /\ DOMAIN s = 1..Len(s) /\ DOMAIN t = 1..Len(t)
    OBVIOUS
  <1>1. CASE Len(s) <= Len(t)
    <2>1. SubSeq(t, 1, Len(s)) \in Seq(S) /\ Len(SubSeq(t, 1, Len(s))) = Len(s)
          /\ \A i \in 1..Len(s) : SubSeq(t, 1, Len(s))[i] = t[i]
      BY <1>0, <1>1
    <2>2. SubSeq(s, 1, Len(s)) = s
      <3>1. SubSeq(s, 1, Len(s)) \in Seq(S) /\ Len(SubSeq(s, 1, Len(s))) = Len(s)
            /\ \A i \in 1..Len(s) : SubSeq(s, 1, Len(s))[i] = s[i]
        BY <1>0
      <3> QED
        BY <3>1, SameSeq
    <2>3. (\A i \in 1..Len(s) : s[i] = t[i]) => s = SubSeq(t, 1, Len(s))
      BY <2>1, SameSeq
    <2>4. s = SubSeq(t, 1, Len(s)) => \A i \in 1..Len(s) : s[i] = t[i]
      BY <2>1
    <2> QED
      BY <1>1, <2>2, <2>3, <2>4 DEF IsPrefix
  <1> QED
    BY <1>1 DEF IsPrefix

LEMMA PrefixTrans ==
  ASSUME NEW S, NEW a \in Seq(S), NEW b \in Seq(S), NEW c \in Seq(S), IsPrefix(a, b), IsPrefix(b, c)
  PROVE  IsPrefix(a, c)
  <1>0. Len(a) \in Nat /\ Len(b) \in Nat /\ Len(c) \in Nat
    OBVIOUS
  <1>1. Len(a) <= Len(b) /\ \A i \in 1..Len(a) : a[i] = b[i]
    BY PrefixIs
  <1>2. Len(b) <= Len(c) /\ \A i \in 1..Len(b) : b[i] = c[i]
    BY PrefixIs
  <1>3. Len(a) <= Len(c) /\ \A i \in 1..Len(a) : i \in 1..Len(b)
    BY <1>0, <1>1, <1>2
  <1>4. \A i \in 1..Len(a) : a[i] = c[i]
    BY <1>1, <1>2, <1>3
  <1> QED
    BY <1>3, <1>4, PrefixIs

LEMMA PrefixJoin ==
  ASSUME NEW S, NEW s \in Seq(S), NEW t \in Seq(S)
  PROVE  IsPrefix(s, s \o t)
  <1>1. /\ s \o t \in Seq(S) /\ Len(s \o t) = Len(s) + Len(t)
        /\ \A i \in 1..Len(s) : (s \o t)[i] = s[i]
    BY JoinIs
  <1>2. Len(s) \in Nat /\ Len(t) \in Nat
    OBVIOUS
  <1>3. PICK w \in Seq(S) : w = s \o t
    BY <1>1
  <1>4. Len(s) <= Len(w) /\ \A i \in 1..Len(s) : s[i] = w[i]
    BY <1>1, <1>2, <1>3
  <1>5. IsPrefix(s, w)
    BY <1>4, PrefixIs
  <1> QED
    BY <1>3, <1>5

LEMMA OInit == Init => \A c \in Clients : InOrder(c) /\ Heard(c) /\ Accounted(c)
  <1> SUFFICES ASSUME Init, NEW c \in Clients PROVE InOrder(c) /\ Heard(c) /\ Accounted(c)
    OBVIOUS
  <1>0. /\ EInv /\ npc = "init" /\ watched = {} /\ state[c] = "new" /\ sent[c] = <<>> /\ residue[c] = <<>>
        /\ unread[c] = <<>> /\ handed[c] = <<>> /\ noLimitDataList[c] = <<>>
    BY EInit DEF Init
  <1>1. CutAt(c) = 0
    <2>1. Len(<<>>) = 0 /\ 0 - 0 - 0 = 0
      OBVIOUS
    <2> QED
      BY <1>0, <2>1 DEF CutAt
  <1>2. InOrder(c)
    <2>1. 1..Len(<<>>) = {}
      OBVIOUS
    <2> QED
      BY <1>0, <1>1, <2>1 DEF InOrder
  <1>3. Heard(c)
    BY <1>0 DEF Heard
  <1>4. Messages(Past(c)) = <<>>
    <2>1. SubSeq(<<>>, 1, 0) = <<>> /\ <<>> \in Seq(Int) /\ DOMAIN <<>> = {}
      OBVIOUS
    <2>2. Bars(<<>>) = {0}
      BY <2>1 DEF Bars
    <2>3. Cardinality({0}) = 1
      BY FS_Singleton
    <2>4. Len(Messages(<<>>)) = 0 /\ Messages(<<>>) \in Seq(Seq(Int))
      <3>1. Len(Messages(<<>>)) = 1 - 1 /\ Messages(<<>>) \in Seq(Seq(Int))
        BY <2>1, <2>2, <2>3, MessagesAre
      <3> QED
        BY <3>1
    <2>5. Messages(<<>>) = <<>>
      BY <2>4
    <2> QED
      BY <1>0, <1>1, <2>1, <2>5 DEF Past
  <1>5. Given(c) = <<>>
    <2>1. (<<>> \o <<>>) \o <<>> = <<>>
      OBVIOUS
    <2> QED
      BY <1>0, <2>1 DEF Given, InHand
  <1> QED
    BY <1>0, <1>2, <1>3, <1>4, <1>5 DEF Accounted

(* What an action may do that leaves the bytes of c and what is given.     *)
LEMMA SameOrder ==
  ASSUME NEW c \in Clients, InOrder(c), sent'[c] = sent[c], residue'[c] = residue[c], unread'[c] = unread[c],
         npc = "cut" /\ cur = c => npc' = "cut" /\ cur' = c
  PROVE  InOrder(c)'
  <1>1. CutAt(c)' = CutAt(c)
    BY DEF CutAt
  <1> QED
    BY <1>1 DEF InOrder

LEMMA SameAccount ==
  ASSUME NEW c \in Clients, Accounted(c), Past(c)' = Past(c), Given(c)' = Given(c),
         npc' \notin {"next", "recv", "cut"} \/ Pending(c)' => noLimitDataList'[c] = <<>>,
         fin[c] => fin'[c], reset[c] => reset'[c], state[c] = "closed" => unread'[c] = unread[c],
         \/ state'[c] = state[c] /\ (c \in watched' => c \in watched)
         \/ state[c] \notin {"closed", "open"} /\ state'[c] # "closed"
  PROVE  Accounted(c)'
  BY DEF Accounted

LEMMA SamePast ==
  ASSUME NEW c \in Clients, sent'[c] = sent[c], residue'[c] = residue[c], unread'[c] = unread[c]
  PROVE  Past(c)' = Past(c) /\ CutAt(c)' = CutAt(c)
  BY DEF Past, CutAt

LEMMA GivenIs ==
  ASSUME EInv, NEW c \in Clients
  PROVE  /\ handed[c] \in Seq(Seq(Int)) /\ noLimitDataList[c] \in Seq(Seq(Int)) /\ InHand(c) \in Seq(Seq(Int))
         /\ limitDataList \in Seq(Seq(Int))
         /\ handed[c] \o noLimitDataList[c] \in Seq(Seq(Int)) /\ Given(c) \in Seq(Seq(Int))
         /\ sent[c] \in Seq(Int) /\ residue[c] \in Seq(Int) /\ unread[c] \in Seq(Int)
         /\ CutAt(c) \in 0..Len(sent[c]) /\ IsPlaced(sent[c], residue[c], unread[c], CutAt(c))
         /\ Past(c) \in Seq(Int) /\ Messages(Past(c)) \in Seq(Seq(Int))
  <1>1. /\ handed[c] \in Seq(Seq(Int)) /\ noLimitDataList[c] \in Seq(Seq(Int)) /\ limitDataList \in Seq(Seq(Int))
        /\ sent[c] \in Seq(Int) /\ residue[c] \in Seq(Int) /\ unread[c] \in Seq(Int)
        /\ IsPlaced(sent[c], residue[c], unread[c], CutAt(c))
    BY TypeParts DEF EInv, SocketTypes, ThreadTypes, Placed
  <1>2. InHand(c) \in Seq(Seq(Int))
    <2>1. <<>> \in Seq(Seq(Int))
      OBVIOUS
    <2> QED
      BY <1>1, <2>1 DEF InHand
  <1>3. handed[c] \o noLimitDataList[c] \in Seq(Seq(Int)) /\ Given(c) \in Seq(Seq(Int))
    <2>1. handed[c] \o noLimitDataList[c] \in Seq(Seq(Int))
      BY <1>1, JoinIs
    <2> QED
      BY <1>2, <2>1, JoinIs DEF Given
  <1>4. CutAt(c) \in 0..Len(sent[c])
    <2>1. Len(sent[c]) \in Nat /\ Len(residue[c]) \in Nat /\ Len(unread[c]) \in Nat
      BY <1>1
    <2>2. PICK k : k = CutAt(c)
      OBVIOUS
    <2>3. k \in Nat /\ k = Len(sent[c]) - Len(residue[c]) - Len(unread[c])
      BY <1>1, <2>2 DEF IsPlaced
    <2>4. k \in 0..Len(sent[c])
      <3>1. PICK a \in Nat : a = Len(sent[c])
        BY <2>1
      <3>2. PICK b \in Nat : b = Len(residue[c])
        BY <2>1
      <3>3. PICK d \in Nat : d = Len(unread[c])
        BY <2>1
      <3>4. k = a - b - d /\ k \in Nat
        BY <2>3, <3>1, <3>2, <3>3
      <3>5. k \in 0..a
        BY <3>4
      <3> QED
        BY <3>1, <3>5
    <2> QED
      BY <2>2, <2>4
  <1>5. Past(c) \in Seq(Int)
    BY <1>1, <1>4, BarsOfPart DEF Past
  <1>6. Messages(Past(c)) \in Seq(Seq(Int))
    BY <1>5, MessagesAre
  <1> QED
    BY <1>1, <1>2, <1>3, <1>4, <1>5, <1>6

LEMMA OStill ==
  ASSUME IInv,
         \/ Listen \/ ListenFails \/ WaitFails \/ ServerQuit \/ AddServer \/ UNCHANGED vars
         \/ EpollWait \/ Accept \/ AcceptFails \/ Client,
         NEW c \in Clients
  PROVE  InOrder(c)' /\ Accounted(c)'
  <1>0. /\ EInv /\ EInv' /\ InOrder(c) /\ Accounted(c) /\ SocketTypes /\ ThreadTypes /\ EventsOnce
    <2>1. Next \/ UNCHANGED vars
      BY DEF Next, epollListening, StartEpoll, KernelFails
    <2> QED
      BY <2>1, ENext, TypeParts DEF IInv, EInv
  <1> USE DEF sockets, kernel, thread
  <1>1. /\ UNCHANGED <<sent, unread, residue, limitDataList, noLimitDataList, handed, fin, reset>>
    BY DEF Listen, ListenFails, WaitFails, ServerQuit, AddServer, vars, EpollWait, Accept, AcceptFails, Client
  <1>2. /\ npc \in {"recv", "cut"} => npc' = npc /\ events' = events
        /\ npc \notin {"recv", "cut"} =>
              \/ npc' \notin {"recv", "cut"}
              \/ npc' = "recv" /\ npc = "next"
        /\ npc' \in {"next", "recv", "cut"} => npc \in {"next", "recv", "cut", "wait"}
    BY <1>0 DEF Listen, ListenFails, WaitFails, ServerQuit, AddServer, vars, EpollWait, Accept, AcceptFails, Client,
              Loop, ThreadTypes
  <1>3. InOrder(c)'
    <2>1. npc = "cut" /\ cur = c => npc' = "cut" /\ cur' = c
      BY <1>2 DEF cur
    <2> QED
      BY <1>0, <1>1, <2>1, SameOrder
  <1>4. Given(c)' = Given(c)
    <2>1. npc \notin {"recv", "cut"} => limitDataList = <<>>
      BY <1>0 DEF ThreadTypes
    <2>2. InHand(c)' = InHand(c)
      BY <1>1, <1>2, <2>1 DEF InHand, cur
    <2> QED
      BY <1>1, <2>2 DEF Given
  <1>5. npc' \notin {"next", "recv", "cut"} \/ Pending(c)' => noLimitDataList'[c] = <<>>
    <2>1. CASE npc \notin {"next", "recv", "cut"} \/ Pending(c)
      BY <1>0, <1>1, <2>1 DEF Accounted
    <2>2. CASE npc \in {"next", "recv", "cut"} /\ ~Pending(c)
      <3>1. Pending(c)' => Pending(c)
        <4>1. UNCHANGED events \/ (events' = Tail(events) /\ events # <<>>)
          BY <2>2 DEF Listen, ListenFails, WaitFails, ServerQuit, AddServer, vars,
                        EpollWait, Accept, AcceptFails, Client
        <4>2. CASE UNCHANGED events
          BY <4>2 DEF Pending
        <4>3. CASE events' = Tail(events) /\ events # <<>>
          BY <1>0, <4>3, TailEvents
        <4> QED
          BY <4>1, <4>2, <4>3
      <3>2. npc' \in {"next", "recv", "cut"}
        BY <2>2 DEF Listen, ListenFails, WaitFails, ServerQuit, AddServer, vars, EpollWait, Accept, AcceptFails, Client
      <3> QED
        BY <2>2, <3>1, <3>2
    <2> QED
      BY <2>1, <2>2
  <1>6. \/ state'[c] = state[c] /\ (c \in watched' => c \in watched)
        \/ state[c] \notin {"closed", "open"} /\ state'[c] # "closed"
    <2>1. CASE Accept \/ AcceptFails
      <3>1. PICK d : d = Head(backlog)
        OBVIOUS
      <3>2. d \in Clients /\ state[d] = "waiting"
        <4>1. backlog \in Seq(Clients) /\ backlog # <<>>
                  /\ \A e \in Clients : Contains(backlog, e) <=> state[e] = "waiting"
          BY <1>0, <2>1 DEF SocketTypes, Accept, AcceptFails
        <4> QED
          BY <3>1, <4>1, TailIs
      <3>3. \/ state' = [state EXCEPT ![d] = "open"] /\ watched' = watched \cup {d}
            \/ state' = [state EXCEPT ![d] = "lost"] /\ watched' = watched
            \/ state' = state /\ watched' = watched
        BY <2>1, <3>1 DEF Accept, AcceptFails
      <3> QED
        BY <1>0, <3>2, <3>3 DEF SocketTypes
    <2>2. CASE ~(Accept \/ AcceptFails)
      BY <2>2, NetworkAssumption
         DEF Listen, ListenFails, WaitFails, ServerQuit, AddServer, vars, EpollWait, Client
    <2> QED
      BY <2>1, <2>2
  <1>7. Past(c)' = Past(c)
    BY <1>1, SamePast
  <1> QED
    BY <1>0, <1>1, <1>3, <1>4, <1>5, <1>6, <1>7, SameAccount

LEMMA OFlush ==
  ASSUME IInv, Flush, NEW c \in Clients
  PROVE  InOrder(c)' /\ Accounted(c)'
  <1>0. EInv /\ InOrder(c) /\ Accounted(c)
    BY DEF IInv
  <1>1. /\ npc = "next" /\ npc' \in {"wait", "end"} /\ handed'[c] = handed[c] \o noLimitDataList[c]
        /\ noLimitDataList'[c] = <<>>
        /\ UNCHANGED <<state, sent, unread, fin, reset, watched, events, residue>>
    BY DEF Flush, Loop, sockets, kernel
  <1>2. InOrder(c)'
    BY <1>0, <1>1, SameOrder
  <1>3. Given(c)' = Given(c)
    <2>1. PICK s \in Seq(Seq(Int)) : s = handed[c] \o noLimitDataList[c]
      BY <1>0, GivenIs
    <2>2. InHand(c) = <<>> /\ InHand(c)' = <<>>
      BY <1>1 DEF InHand
    <2>3. s \o <<>> = s
      OBVIOUS
    <2>4. Given(c) = s /\ Given(c)' = s
      BY <1>1, <2>1, <2>2, <2>3 DEF Given
    <2> QED
      BY <2>4
  <1>4. Past(c)' = Past(c)
    BY <1>1, SamePast
  <1> QED
    BY <1>0, <1>1, <1>2, <1>3, <1>4, SameAccount

LEMMA OOutside ==
  ASSUME IInv, Outside, NEW c \in Clients
  PROVE  InOrder(c)' /\ Accounted(c)'
  <1>0. /\ EInv /\ InOrder(c) /\ Accounted(c) /\ SocketTypes /\ UNCHANGED <<thread, downing, failures>>
    BY TypeParts DEF IInv, EInv, Outside
  <1>1. PICK d \in Clients : Connect(d) \/ Send(d) \/ Shut(d) \/ Reset(d)
    BY DEF Outside
  <1>2. /\ Given(c)' = Given(c) /\ Pending(c)' = Pending(c) /\ cur' = cur /\ npc' = npc
        /\ noLimitDataList' = noLimitDataList /\ residue' = residue /\ watched' = watched
    BY <1>0, <1>1 DEF Given, InHand, Pending, cur, thread, Connect, Send, Shut, Reset
  <1>3. /\ fin[c] => fin'[c]
        /\ reset[c] => reset'[c]
        /\ state[c] = "closed" => unread'[c] = unread[c]
    BY <1>0, <1>1 DEF SocketTypes, Connect, Send, Shut, Reset, Connected
  <1>4. state'[c] = state[c] \/ (state[c] \notin {"closed", "open"} /\ state'[c] # "closed")
    BY <1>0, <1>1 DEF SocketTypes, Connect, Send, Shut, Reset
  <1>5. npc' \notin {"next", "recv", "cut"} \/ Pending(c)' => noLimitDataList'[c] = <<>>
    BY <1>0, <1>2 DEF Accounted
  <1>6. CASE sent'[c] = sent[c] /\ unread'[c] = unread[c]
    <2>1. InOrder(c)'
      BY <1>0, <1>2, <1>6, SameOrder
    <2>2. Past(c)' = Past(c)
      BY <1>2, <1>6, SamePast
    <2> QED
      BY <1>0, <1>2, <1>3, <1>4, <1>5, <2>1, <2>2, SameAccount
  <1>7. CASE ~(sent'[c] = sent[c] /\ unread'[c] = unread[c])
    <2>1. c = d /\ Send(c)
      BY <1>0, <1>1, <1>7 DEF SocketTypes, Connect, Send, Shut, Reset
    <2>2. PICK byte \in {Bar, Len(sent[c]) + 1} :
             /\ sent' = [sent EXCEPT ![c] = Append(@, byte)]
             /\ unread' = [unread EXCEPT ![c] = Append(@, byte)]
      BY <2>1 DEF Send
    <2>3. /\ sent[c] \in Seq(Int) /\ residue[c] \in Seq(Int) /\ unread[c] \in Seq(Int)
          /\ CutAt(c) \in 0..Len(sent[c]) /\ IsPlaced(sent[c], residue[c], unread[c], CutAt(c))
      BY <1>0, GivenIs
    <2>4. byte \in Int
      BY <2>3 DEF Bar
    <2>5. sent'[c] = Append(sent[c], byte) /\ unread'[c] = Append(unread[c], byte)
      BY <1>0, <2>2 DEF SocketTypes
    <2>6. PICK k \in 0..Len(sent[c]) : k = CutAt(c)
      BY <2>3
    <2>7. CutAt(c)' = k
      <3>1. IsPlaced(Append(sent[c], byte), residue[c], Append(unread[c], byte), k)
        BY <2>3, <2>4, <2>6, PlacedSend
      <3>2. k = Len(sent'[c]) - Len(residue'[c]) - Len(unread'[c])
        BY <1>2, <2>5, <3>1 DEF IsPlaced
      <3> QED
        BY <3>2 DEF CutAt
    <2>8. PICK s \in Seq(Int) : s = sent[c]
      BY <2>3
    <2>9. SubSeq(Append(s, byte), 1, k) = SubSeq(s, 1, k) /\ (k # 0 => Append(s, byte)[k] = s[k])
      <3>1. /\ Append(s, byte) \in Seq(Int) /\ k \in 0..Len(Append(s, byte)) /\ k \in 0..Len(s)
            /\ \A i \in 1..k : Append(s, byte)[i] = s[i]
        BY <2>4, <2>6, <2>8
      <3>2. /\ SubSeq(Append(s, byte), 1, k) \in Seq(Int) /\ Len(SubSeq(Append(s, byte), 1, k)) = k
            /\ \A i \in 1..k : SubSeq(Append(s, byte), 1, k)[i] = Append(s, byte)[i]
        BY <3>1, BarsOfPart
      <3>3. /\ SubSeq(s, 1, k) \in Seq(Int) /\ Len(SubSeq(s, 1, k)) = k
            /\ \A i \in 1..k : SubSeq(s, 1, k)[i] = s[i]
        BY <3>1, BarsOfPart
      <3>4. SubSeq(Append(s, byte), 1, k) = SubSeq(s, 1, k)
        BY <3>1, <3>2, <3>3, SameSeq
      <3>5. k # 0 => k \in 1..k
        OBVIOUS
      <3> QED
        BY <3>1, <3>4, <3>5
    <2>10. Past(c)' = Past(c)
      BY <2>5, <2>6, <2>7, <2>8, <2>9 DEF Past
    <2>11. InOrder(c)'
      BY <1>0, <1>2, <2>5, <2>6, <2>7, <2>8, <2>9 DEF InOrder
    <2> QED
      BY <1>0, <1>2, <1>3, <1>4, <1>5, <2>10, <2>11, SameAccount
  <1> QED
    BY <1>6, <1>7

LEMMA CurAccount ==
  ASSUME IInv, NEW c, c = cur, npc \in {"recv", "cut"}
  PROVE  /\ c \in Clients /\ EInv /\ noLimitDataList[c] = <<>> /\ InHand(c) = limitDataList
         /\ Given(c) = Messages(Past(c)) /\ state[c] = "open" /\ c \in watched
  <1>1. EInv /\ c \in Clients /\ c \in watched /\ state[c] = "open" /\ Pending(c)
    BY CurIs DEF IInv
  <1>2. Accounted(c)
    BY <1>1 DEF IInv
  <1> QED
    BY <1>1, <1>2 DEF Accounted, InHand

(* The others, while one client is read.                                   *)
LEMMA OOthers ==
  ASSUME IInv, Read, NEW c \in Clients, c # cur
  PROVE  InOrder(c)' /\ Accounted(c)'
  <1>0. EInv /\ InOrder(c) /\ Accounted(c) /\ SocketTypes /\ KernelTypes /\ ThreadTypes /\ EventsOnce
    BY TypeParts DEF IInv, EInv
  <1>1. PICK d : d = cur
    OBVIOUS
  <1>2. npc \in {"recv", "cut"}
    BY DEF Read, Recv, Cut, ReadDry, ReadClose, ReadFails
  <1>3. d \in Clients /\ d # c /\ events # <<>>
    BY <1>0, <1>1, <1>2 DEF ThreadTypes
  <1>4. /\ sent' = sent /\ fin' = fin /\ reset' = reset
        /\ unread'[c] = unread[c] /\ residue'[c] = residue[c] /\ state'[c] = state[c]
        /\ watched' \in SUBSET watched
        /\ handed'[c] = handed[c] /\ noLimitDataList'[c] = noLimitDataList[c]
    <2>1. CASE Recv
      BY <1>0, <1>1, <1>3, <2>1 DEF Recv, SocketTypes, ThreadTypes, kernel
    <2>2. CASE Cut
      <3>1. residue'[c] = residue[c]
        <4>1. residue' = residue \/ \E i : residue' = [residue EXCEPT ![d] = SubSeq(@, i + 1, Len(@))]
          BY <1>1, <2>2 DEF Cut
        <4> QED
          BY <1>0, <1>3, <4>1 DEF ThreadTypes
      <3> QED
        BY <2>2, <3>1 DEF Cut, sockets, kernel
    <2>3. CASE ReadDry \/ ReadClose \/ ReadFails
      <3>1. /\ UNCHANGED <<sent, fin, reset, unread, residue>> /\ watched' \in SUBSET watched
            /\ state' = state \/ state' = [state EXCEPT ![d] = "closed"]
        BY <1>1, <2>3 DEF ReadDry, ReadClose, ReadFails, sockets, kernel
      <3>2. handed'[c] = handed[c] /\ noLimitDataList'[c] = noLimitDataList[c]
        <4>1. \/ UNCHANGED <<handed, noLimitDataList>>
              \/ \E msgs : HandOver(msgs)
          BY <2>3 DEF ReadDry, ReadClose, ReadFails
        <4> QED
          BY <1>0, <1>1, <1>3, <4>1 DEF HandOver, ThreadTypes
      <3> QED
        BY <1>0, <1>3, <3>1, <3>2 DEF SocketTypes
    <2> QED
      BY <2>1, <2>2, <2>3 DEF Read
  <1>5. (npc' \in {"recv", "cut"} /\ cur' = cur) \/ npc' = "next"
    <2>1. CASE Recv
      BY <2>1 DEF Recv, cur
    <2>2. CASE Cut
      BY <1>0, <2>2 DEF Cut, cur
    <2>3. CASE ReadDry \/ ReadClose \/ ReadFails
      BY <2>3 DEF ReadDry, ReadClose, ReadFails, HandOver
    <2> QED
      BY <2>1, <2>2, <2>3 DEF Read
  <1>6. InOrder(c)'
    BY <1>0, <1>1, <1>3, <1>4, SameOrder
  <1>7. InHand(c) = <<>> /\ InHand(c)' = <<>>
    BY <1>1, <1>3, <1>5 DEF InHand
  <1>8. Given(c)' = Given(c)
    BY <1>4, <1>7 DEF Given
  <1>9. Past(c)' = Past(c)
    BY <1>4, SamePast
  <1>10. Pending(c)' => Pending(c)
    <2>1. UNCHANGED events \/ events' = Tail(events)
      BY DEF Read, Recv, Cut, ReadDry, ReadClose, ReadFails, HandOver
    <2>2. CASE UNCHANGED events
      BY <2>2 DEF Pending
    <2>3. CASE events' = Tail(events)
      BY <1>0, <1>3, <2>3, TailEvents
    <2> QED
      BY <2>1, <2>2, <2>3
  <1>11. npc' \notin {"next", "recv", "cut"} \/ Pending(c)' => noLimitDataList'[c] = <<>>
    BY <1>0, <1>4, <1>5, <1>10 DEF Accounted
  <1> QED
    BY <1>0, <1>4, <1>6, <1>8, <1>9, <1>11, SameAccount

LEMMA ORecv ==
  ASSUME IInv, Recv, NEW c \in Clients, c = cur
  PROVE  InOrder(c)' /\ Accounted(c)'
  <1>0. /\ EInv /\ noLimitDataList[c] = <<>> /\ InHand(c) = limitDataList
        /\ Given(c) = Messages(Past(c)) /\ state[c] = "open" /\ InOrder(c)
    BY CurAccount DEF Recv, IInv
  <1>1. /\ npc' = "cut" /\ cur' = c
        /\ UNCHANGED <<state, sent, fin, reset, limitDataList, noLimitDataList, handed, events>>
    BY DEF Recv, cur
  <1>2. CutAt(c)' = CutAt(c)
    <2>1. CutAt(cur)' = CutAt(cur)
      BY <1>0, ERecv
    <2> QED
      BY <1>1, <2>1 DEF CutAt
  <1>3. InOrder(c)'
    BY <1>0, <1>1, <1>2 DEF InOrder
  <1>4. InHand(c)' = limitDataList
    BY <1>1 DEF InHand
  <1>5. Given(c)' = Given(c) /\ Past(c)' = Past(c)
    BY <1>0, <1>1, <1>2, <1>4 DEF Given, Past
  <1> QED
    BY <1>0, <1>1, <1>3, <1>5 DEF Accounted

LEMMA OCut ==
  ASSUME IInv, Cut, NEW c \in Clients, c = cur
  PROVE  InOrder(c)' /\ Accounted(c)'
  <1>0. /\ EInv /\ noLimitDataList[c] = <<>> /\ InHand(c) = limitDataList
        /\ Given(c) = Messages(Past(c)) /\ state[c] = "open" /\ InOrder(c)
    BY CurAccount DEF Cut, IInv
  <1>1. /\ npc = "cut" /\ npc' \in {"cut", "recv"} /\ cur' = c
        /\ UNCHANGED <<state, sent, unread, fin, reset, noLimitDataList, handed, events>>
    BY DEF Cut, cur, sockets
  <1>2. InHand(c)' = limitDataList'
    BY <1>1 DEF InHand
  <1>3. /\ sent[c] \in Seq(Int) /\ residue[c] \in Seq(Int) /\ unread[c] \in Seq(Int)
        /\ CutAt(c) \in 0..Len(sent[c]) /\ IsPlaced(sent[c], residue[c], unread[c], CutAt(c))
        /\ limitDataList \in Seq(Seq(Int)) /\ handed[c] \o noLimitDataList[c] \in Seq(Seq(Int))
    BY <1>0, GivenIs
  <1>4. CASE ~Contains(residue[c], Bar)
    <2>1. npc' = "recv" /\ UNCHANGED <<residue, limitDataList>>
      BY <1>4 DEF Cut
    <2>2. CutAt(c)' = CutAt(c)
      BY <1>1, <2>1 DEF CutAt
    <2>3. \A i \in 1..Len(residue[c]) : residue[c][i] # Bar
      <3>1. DOMAIN residue[c] = 1..Len(residue[c])
        BY <1>3
      <3> QED
        BY <1>4, <3>1 DEF Contains
    <2>4. InOrder(c)'
      BY <1>0, <1>1, <2>1, <2>2, <2>3 DEF InOrder
    <2>5. Given(c)' = Given(c) /\ Past(c)' = Past(c)
      BY <1>0, <1>1, <1>2, <2>1, <2>2 DEF Given, Past
    <2> QED
      BY <1>0, <1>1, <2>4, <2>5 DEF Accounted
  <1>5. CASE Contains(residue[c], Bar)
    <2>1. PICK i \in 1..Len(residue[c]) :
            /\ residue[c][i] = Bar /\ \A j \in 1..(i - 1) : j \in 1..Len(residue[c]) /\ residue[c][j] # Bar
            /\ limitDataList' = Append(limitDataList, SubSeq(residue[c], 1, i - 1))
            /\ residue' = [residue EXCEPT ![c] = SubSeq(@, i + 1, Len(@))]
            /\ npc' = npc
      BY <1>0, <1>5, CutIs
    <2>2. PICK k \in 0..Len(sent[c]) : k = CutAt(c)
      BY <1>3
    <2>3. PICK s \in Seq(Int) : s = sent[c]
      BY <1>3
    <2>4. PICK r \in Seq(Int) : r = residue[c]
      BY <1>3
    <2>5. PICK u \in Seq(Int) : u = unread[c]
      BY <1>3
    <2>6. IsPlaced(s, r, u, k) /\ i \in 1..Len(r)
      BY <1>3, <2>2, <2>3, <2>4, <2>5
    <2>7. \A j \in 1..Len(r) : r[j] = s[k + j]
      <3>1. k \in Nat /\ k = Len(s) - Len(r) - Len(u) /\ r \o u = SubSeq(s, k + 1, Len(s))
        BY <2>6 DEF IsPlaced
      <3> QED
        BY ONLY <3>1, s \in Seq(Int), r \in Seq(Int), u \in Seq(Int), PlacedIs
    <2>8. Len(s) \in Nat /\ Len(r) \in Nat /\ k \in Nat /\ k + Len(r) <= Len(s)
      <3>1. Len(s) \in Nat /\ Len(r) \in Nat /\ Len(u) \in Nat
        OBVIOUS
      <3> QED
        BY <2>6, <3>1 DEF IsPlaced
    <2>9. PICK l \in (k + 1)..Len(s) : l = k + i
      BY <2>6, <2>8
    <2>10. s[l] = Bar /\ \A j \in (k + 1)..(l - 1) : s[j] # Bar
      <3>1. s[l] = Bar
        BY <2>1, <2>4, <2>6, <2>7, <2>9
      <3>2. \A j \in 1..(i - 1) : s[k + j] # Bar
        BY <2>1, <2>4, <2>7
      <3>3. \A j \in (k + 1)..(l - 1) : \E h \in 1..(i - 1) : j = k + h
        <4>1. \A j \in (k + 1)..(l - 1) : j - k \in 1..(i - 1) /\ j = k + (j - k)
          BY <2>6, <2>8, <2>9
        <4> QED
          BY <4>1
      <3> QED
        BY <3>1, <3>2, <3>3
    <2>11. k # 0 => s[k] = Bar
      BY <1>0, <2>2, <2>3 DEF InOrder
    <2>12. SubSeq(r, 1, i - 1) = SubSeq(s, k + 1, l - 1)
      <3>1. i - 1 \in 0..Len(r) /\ i - 1 \in Nat
        BY <2>6, <2>8
      <3>2. /\ SubSeq(r, 1, i - 1) \in Seq(Int) /\ Len(SubSeq(r, 1, i - 1)) = i - 1
            /\ \A j \in 1..(i - 1) : SubSeq(r, 1, i - 1)[j] = r[j]
        BY <3>1, BarsOfPart
      <3>3. /\ SubSeq(s, k + 1, l - 1) \in Seq(Int) /\ Len(SubSeq(s, k + 1, l - 1)) = i - 1
            /\ \A j \in 1..(i - 1) : SubSeq(s, k + 1, l - 1)[j] = s[k + j]
        <4>1. l - 1 = k + (i - 1) /\ k + (i - 1) <= Len(s)
          BY <2>6, <2>8, <2>9
        <4>2. PICK m \in Nat : m = i - 1
          BY <3>1
        <4>3. k + m <= Len(s) /\ l - 1 = k + m
          BY <4>1, <4>2
        <4>4. /\ SubSeq(s, k + 1, k + m) \in Seq(Int) /\ Len(SubSeq(s, k + 1, k + m)) = m
              /\ \A j \in 1..m : SubSeq(s, k + 1, k + m)[j] = s[k + j]
          BY <2>8, <4>3, PartIs
        <4> QED
          BY <4>2, <4>3, <4>4
      <3>4. \A j \in 1..(i - 1) : r[j] = s[k + j]
        BY <2>1, <2>4, <2>7
      <3> DEFINE a == SubSeq(r, 1, i - 1)
                 b == SubSeq(s, k + 1, l - 1)
      <3>5. /\ a \in Seq(Int) /\ b \in Seq(Int) /\ Len(a) = i - 1 /\ Len(b) = i - 1
            /\ \A j \in 1..(i - 1) : a[j] = b[j]
        BY <3>2, <3>3, <3>4
      <3> HIDE DEF a, b
      <3>6. a = b
        BY <3>5, SameSeq
      <3> QED
        BY <3>6 DEF a, b
    <2>13. Messages(SubSeq(s, 1, l)) = Append(Messages(SubSeq(s, 1, k)), SubSeq(r, 1, i - 1))
      <3>1. k \in 0..Len(s)
        BY <2>3
      <3> QED
        BY <2>10, <2>11, <2>12, <3>1, OneMoreMessage
    <2>14. CutAt(c)' = l
      <3>1. /\ IsPlaced(s, SubSeq(r, i + 1, Len(r)), u, k + i)
        <4>1. i \in 0..Len(r)
          BY <2>6
        <4> QED
          BY <2>6, <4>1, PlacedCut
      <3>2. residue'[c] = SubSeq(r, i + 1, Len(r)) /\ sent'[c] = s /\ unread'[c] = u
        <4>1. residue \in [Clients -> Seq(Int)]
          BY <1>0, TypeParts DEF EInv, ThreadTypes
        <4> QED
          BY <1>1, <2>1, <2>3, <2>4, <2>5, <4>1
      <3>3. l = Len(sent'[c]) - Len(residue'[c]) - Len(unread'[c])
        BY <2>9, <3>1, <3>2 DEF IsPlaced
      <3> QED
        BY <3>3 DEF CutAt
    <2>15. InOrder(c)'
      BY <1>1, <2>1, <2>3, <2>10, <2>14 DEF InOrder
    <2>16. Past(c)' = SubSeq(s, 1, l) /\ Past(c) = SubSeq(s, 1, k)
      BY <1>1, <2>2, <2>3, <2>14 DEF Past
    <2>17. Given(c)' = Append(Given(c), SubSeq(r, 1, i - 1))
      <3>1. PICK h \in Seq(Seq(Int)) : h = handed[c] \o noLimitDataList[c]
        BY <1>3
      <3>2. SubSeq(r, 1, i - 1) \in Seq(Int)
        <4>1. i - 1 \in 0..Len(r)
          BY <2>6, <2>8
        <4> QED
          BY <4>1, BarsOfPart
      <3>3. PICK m \in Seq(Int) : m = SubSeq(r, 1, i - 1)
        BY <3>2
      <3>4. Given(c) = h \o limitDataList /\ Given(c)' = h \o Append(limitDataList, m)
        BY <1>0, <1>1, <1>2, <2>1, <2>4, <3>1, <3>3 DEF Given
      <3>5. h \o Append(limitDataList, m) = Append(h \o limitDataList, m)
        BY <1>3, JoinMessage
      <3> QED
        BY <3>3, <3>4, <3>5
    <2>18. Given(c)' = Messages(Past(c))'
      BY <1>0, <2>13, <2>16, <2>17
    <2> QED
      BY <1>0, <1>1, <2>15, <2>18 DEF Accounted
  <1> QED
    BY <1>4, <1>5

(* What is handed over is given, whichever way it goes.                    *)
LEMMA HandGiven ==
  ASSUME IInv, npc = "recv", NEW c \in Clients, c = cur, NEW m \in Seq(Seq(Int)), HandOver(m)
  PROVE  Given(c)' = handed[c] \o m /\ Given(c) = handed[c] \o limitDataList
  <1>0. EInv /\ noLimitDataList[c] = <<>> /\ InHand(c) = limitDataList
    BY CurAccount
  <1>1. ThreadTypes /\ handed[c] \in Seq(Seq(Int)) /\ limitDataList \in Seq(Seq(Int))
    BY <1>0, GivenIs, TypeParts DEF EInv
  <1>2. InHand(c)' = <<>>
    BY DEF HandOver, InHand
  <1>3. PICK h \in Seq(Seq(Int)) : h = handed[c]
    BY <1>1
  <1>4. (h \o m) \o <<>> = h \o m /\ h \o <<>> = h /\ <<>> \o m = m /\ (h \o m) \in Seq(Seq(Int))
    <2>1. PICK S : S = Seq(Int)
      OBVIOUS
    <2>2. h \in Seq(S) /\ m \in Seq(S)
      BY <2>1
    <2>3. (h \o m) \o <<>> = h \o m /\ h \o <<>> = h /\ <<>> \o m = m /\ (h \o m) \in Seq(S)
      BY ONLY <2>2, JoinEmpty
    <2> QED
      BY <2>1, <2>3
  <1>5. \/ handed'[c] = h \o m /\ noLimitDataList'[c] = <<>>
        \/ handed'[c] = h /\ noLimitDataList'[c] = m
    BY <1>0, <1>1, <1>3, <1>4 DEF HandOver, ThreadTypes
  <1>6. Given(c)' = h \o m
    BY <1>2, <1>4, <1>5 DEF Given
  <1>7. Given(c) = h \o limitDataList
    BY <1>0, <1>3, <1>4 DEF Given
  <1> QED
    BY <1>3, <1>6, <1>7

LEMMA OEnd ==
  ASSUME IInv, ReadDry \/ ReadClose \/ ReadFails, NEW c \in Clients, c = cur
  PROVE  InOrder(c)' /\ Accounted(c)'
  <1>0. /\ npc = "recv" /\ npc' = "next" /\ unread[c] = <<>>
        /\ UNCHANGED <<sent, unread, fin, reset, residue>>
    BY DEF ReadDry, ReadClose, ReadFails, HandOver, sockets
  <1>1. /\ EInv /\ noLimitDataList[c] = <<>> /\ InHand(c) = limitDataList /\ c \in watched
        /\ Given(c) = Messages(Past(c)) /\ state[c] = "open" /\ InOrder(c)
    BY <1>0, CurAccount DEF IInv
  <1>2. InOrder(c)'
    BY <1>0, <1>1, SameOrder
  <1>3. Past(c)' = Past(c)
    BY <1>0, SamePast
  <1>4. ~Pending(c)' /\ npc' = "next"
    BY <1>0, <1>1, EHand
  <1>5. handed[c] \in Seq(Seq(Int)) /\ limitDataList \in Seq(Seq(Int)) /\ Messages(Past(c)) \in Seq(Seq(Int))
    BY <1>1, GivenIs
  <1>a. SocketTypes /\ ThreadTypes
    BY <1>1, TypeParts DEF EInv
  <1>6. (npc' \notin {"next", "recv", "cut"} \/ Pending(c)') <=> FALSE
    BY <1>4
  <1>7. CASE ReadDry
    <2>1. HandOver(limitDataList) /\ state' = state
      BY <1>7 DEF ReadDry, sockets
    <2>2. Given(c)' = Given(c)
      BY <1>0, <1>5, <2>1, HandGiven
    <2>3. Given(c)' = Messages(Past(c))' /\ state'[c] # "closed"
      BY <1>1, <1>3, <2>1, <2>2
    <2> QED
      BY <1>2, <1>6, <2>3 DEF Accounted
  <1>8. CASE ReadClose
    <2>1. HandOver(Append(limitDataList, Logout)) /\ state' = [state EXCEPT ![c] = "closed"] /\ fin[c]
      BY <1>8 DEF ReadClose
    <2>2. Given(c)' = Append(Given(c), Logout)
      <3>1. Logout \in Seq(Int)
        BY DEF Logout
      <3>2. Append(limitDataList, Logout) \in Seq(Seq(Int))
        BY <1>5, <3>1
      <3>3. PICK m \in Seq(Seq(Int)) : m = Append(limitDataList, Logout)
        BY <3>2
      <3>4. Given(c)' = handed[c] \o m /\ Given(c) = handed[c] \o limitDataList
        BY <1>0, <2>1, <3>3, HandGiven
      <3>5. handed[c] \o Append(limitDataList, Logout) = Append(handed[c] \o limitDataList, Logout)
        BY <1>5, <3>1, JoinMessage
      <3> QED
        BY <3>3, <3>4, <3>5
    <2>3. state'[c] = "closed" /\ fin'[c] /\ unread'[c] = <<>>
      BY <1>0, <1>a, <2>1 DEF SocketTypes
    <2>4. Given(c)' = Append(Messages(Past(c))', Logout)
      BY <1>1, <1>3, <2>2
    <2> QED
      BY <1>2, <1>6, <2>3, <2>4 DEF Accounted
  <1>9. CASE ReadFails
    <2>1. /\ reset'[c] /\ c \notin watched' /\ state'[c] = "open"
          /\ handed' = handed /\ noLimitDataList' = noLimitDataList
      BY <1>1, <1>9 DEF ReadFails, sockets
    <2>2. PICK h \in Seq(Seq(Int)) : h = handed[c]
      BY <1>5
    <2>3. h \o <<>> = h
      OBVIOUS
    <2>4. Given(c)' = h
      BY <1>1, <1>4, <2>1, <2>2, <2>3 DEF Given, InHand
    <2>5. Given(c) = h \o limitDataList
      BY <1>1, <2>2, <2>3 DEF Given
    <2>6. IsPrefix(h, Messages(Past(c)))
      <3>1. /\ Len(h \o limitDataList) = Len(h) + Len(limitDataList)
            /\ \A i \in 1..Len(h) : (h \o limitDataList)[i] = h[i]
            /\ Len(h) \in Nat /\ Len(limitDataList) \in Nat
        BY <1>5, JoinIs
      <3>2. Len(h) <= Len(Messages(Past(c))) /\ \A i \in 1..Len(h) : h[i] = Messages(Past(c))[i]
        BY <1>1, <2>5, <3>1
      <3> QED
        BY <1>5, <3>2, PrefixIs
    <2>7. IsPrefix(Given(c)', Messages(Past(c))')
      BY <1>3, <2>4, <2>6
    <2> QED
      BY <1>2, <1>6, <2>1, <2>7 DEF Accounted
  <1> QED
    BY <1>7, <1>8, <1>9

LEMMA INext ==
  ASSUME IInv, [Next]_vars
  PROVE  IInv'
  <1>1. EInv' /\ \A c \in Clients : Heard(c)'
    BY ENext DEF IInv
  <1>2. ASSUME NEW c \in Clients PROVE InOrder(c)' /\ Accounted(c)'
    <2>1. CASE Outside
      BY <2>1, OOutside
    <2>2. CASE \/ Listen \/ ListenFails \/ WaitFails \/ ServerQuit \/ AddServer \/ UNCHANGED vars
               \/ EpollWait \/ Accept \/ AcceptFails \/ Client
      BY <2>2, OStill
    <2>3. CASE Flush
      BY <2>3, OFlush
    <2>4. CASE Read /\ c # cur
      BY <2>4, OOthers
    <2>5. CASE Read /\ c = cur
      BY <2>5, ORecv, OCut, OEnd DEF Read
    <2> QED
      BY <2>1, <2>2, <2>3, <2>4, <2>5 DEF Next, epollListening, StartEpoll, KernelFails
  <1> QED
    BY <1>1, <1>2 DEF IInv

LEMMA IInit == Init => IInv
  BY EInit, OInit DEF IInv

(* When nothing is unread, what is not cut is no message.                  *)
LEMMA NothingMore ==
  ASSUME EInv, NEW c \in Clients, InOrder(c), unread[c] = <<>>, ~(npc = "cut" /\ cur = c)
  PROVE  Messages(Past(c)) = Messages(sent[c])
  <1>1. /\ sent[c] \in Seq(Int) /\ residue[c] \in Seq(Int) /\ unread[c] \in Seq(Int)
        /\ CutAt(c) \in 0..Len(sent[c]) /\ IsPlaced(sent[c], residue[c], unread[c], CutAt(c))
    BY GivenIs
  <1>2. PICK k \in 0..Len(sent[c]) : k = CutAt(c)
    BY <1>1
  <1>3. PICK s \in Seq(Int) : s = sent[c]
    BY <1>1
  <1>4. PICK r \in Seq(Int) : r = residue[c]
    BY <1>1
  <1>5. PICK u \in Seq(Int) : u = unread[c]
    BY <1>1
  <1>6. k \in Nat /\ k = Len(s) - Len(r) - Len(u) /\ r \o u = SubSeq(s, k + 1, Len(s))
    <2>1. IsPlaced(s, r, u, k)
      BY <1>1, <1>2, <1>3, <1>4, <1>5
    <2> QED
      BY <2>1 DEF IsPlaced
  <1>7. \A i \in 1..Len(r) : r[i] = s[k + i]
    BY ONLY <1>6, s \in Seq(Int), r \in Seq(Int), u \in Seq(Int), PlacedIs
  <1>8. \A i \in 1..Len(r) : r[i] # Bar
    BY <1>4 DEF InOrder
  <1>9. \A i \in (k + 1)..Len(s) : \E j \in 1..Len(r) : i = k + j
    <2>1. Len(s) \in Nat /\ Len(r) \in Nat /\ Len(s) = k + Len(r)
      <3>0. Len(<<>>) = 0
        OBVIOUS
      <3>1. Len(s) \in Nat /\ Len(r) \in Nat /\ Len(u) = 0
        BY <1>5, <3>0
      <3> QED
        BY <1>6, <3>1
    <2>2. \A i \in (k + 1)..Len(s) : i - k \in 1..Len(r) /\ i = k + (i - k)
      <3>1. PICK a \in Nat : a = Len(s)
        BY <2>1
      <3>2. PICK b \in Nat : b = Len(r)
        BY <2>1
      <3>3. k \in Nat /\ a = k + b
        BY <1>6, <2>1, <3>1, <3>2
      <3>4. \A i \in (k + 1)..a : i - k \in 1..b /\ i = k + (i - k)
        BY <3>3
      <3> QED
        BY <3>1, <3>2, <3>4
    <2> QED
      BY <2>2
  <1>10. \A i \in (k + 1)..Len(s) : s[i] # Bar
    BY <1>7, <1>8, <1>9
  <1>11. Messages(SubSeq(s, 1, k)) = Messages(s)
    <2>1. k \in 0..Len(s)
      BY <1>3
    <2> QED
      BY <1>10, <2>1, MessagesWithoutRest
  <1> QED
    BY <1>2, <1>3, <1>11 DEF Past

(* What is put for a client is what it has sent, whole, in order and once, *)
(* wherever recv cut it, and nothing comes after its c_logout.             *)
THEOREM PutAsSent == Spec => []HandedAsSent
  <1>1. IInv /\ [Next]_vars => IInv'
    BY INext
  <1>2. IInv => HandedAsSent
    <2> SUFFICES ASSUME IInv, NEW c \in Clients PROVE IsPrefix(handed[c], Due(c))
      BY DEF HandedAsSent
    <2>1. EInv /\ InOrder(c) /\ Accounted(c)
      BY DEF IInv
    <2>2. /\ handed[c] \in Seq(Seq(Int)) /\ noLimitDataList[c] \in Seq(Seq(Int)) /\ InHand(c) \in Seq(Seq(Int))
          /\ Given(c) \in Seq(Seq(Int)) /\ sent[c] \in Seq(Int) /\ CutAt(c) \in 0..Len(sent[c])
          /\ Past(c) \in Seq(Int) /\ Messages(Past(c)) \in Seq(Seq(Int))
          /\ handed[c] \o noLimitDataList[c] \in Seq(Seq(Int))
      BY <2>1, GivenIs
    <2>3. PICK h \in Seq(Seq(Int)) : h = handed[c]
      BY <2>2
    <2>4. PICK g \in Seq(Seq(Int)) : g = Given(c)
      BY <2>2
    <2>5. PICK p \in Seq(Seq(Int)) : p = Messages(Past(c))
      BY <2>2
    <2>6. PICK a \in Seq(Seq(Int)) : a = Messages(sent[c])
      BY <2>2, MessagesAre
    <2>7. IsPrefix(h, g)
      <3>1. PICK k \in Seq(Seq(Int)) : k = h \o noLimitDataList[c]
        BY <2>2, <2>3
      <3>2. IsPrefix(h, k)
        BY <2>2, <3>1, PrefixJoin
      <3>3. g = k \o InHand(c)
        BY <2>3, <2>4, <3>1 DEF Given
      <3>4. IsPrefix(k, g)
        BY <2>2, <3>3, PrefixJoin
      <3> QED
        BY <3>2, <3>4, PrefixTrans
    <2>8. IsPrefix(p, a)
      <3>1. Past(c) = SubSeq(sent[c], 1, CutAt(c))
        BY DEF Past
      <3>2. Len(p) <= Len(a) /\ \A i \in 1..Len(p) : p[i] = a[i]
        BY <2>2, <2>5, <2>6, <3>1, MessagesOfPart
      <3> QED
        BY <3>2, PrefixIs
    <2>9. PICK t \in Seq(Seq(Int)) : t = IF fin[c] THEN <<Logout>> ELSE <<>>
      <3>1. Logout \in Seq(Int)
        BY DEF Logout
      <3>2. <<Logout>> \in Seq(Seq(Int)) /\ <<>> \in Seq(Seq(Int))
        BY <3>1
      <3> QED
        BY <3>2
    <2>10. PICK d \in Seq(Seq(Int)) : d = Due(c)
      BY <2>6, <2>9, JoinIs DEF Due
    <2>11. IsPrefix(a, d)
      BY <2>6, <2>9, <2>10, PrefixJoin DEF Due
    <2>12. CASE g = p
      <3>1. IsPrefix(h, a)
        BY <2>7, <2>8, <2>12, PrefixTrans
      <3> QED
        BY <2>3, <2>10, <2>11, <3>1, PrefixTrans
    <2>13. CASE IsPrefix(g, p)
      <3>1. IsPrefix(h, p)
        BY <2>7, <2>13, PrefixTrans
      <3>2. IsPrefix(h, a)
        BY <2>8, <3>1, PrefixTrans
      <3> QED
        BY <2>3, <2>10, <2>11, <3>2, PrefixTrans
    <2>14. CASE fin[c] /\ unread[c] = <<>> /\ g = Append(p, Logout) /\ state[c] = "closed"
      <3>1. ~(npc = "cut" /\ cur = c)
        BY <2>1, <2>14, CurIs
      <3>2. p = a
        BY <2>1, <2>5, <2>6, <2>14, <3>1, NothingMore
      <3>3. d = g
        <4>1. d = a \o <<Logout>>
          BY <2>6, <2>10, <2>14 DEF Due
        <4>2. p \o <<Logout>> = Append(p, Logout)
          OBVIOUS
        <4> QED
          BY <2>14, <3>2, <4>1, <4>2
      <3> QED
        BY <2>3, <2>7, <2>10, <3>3
    <2> QED
      BY <2>1, <2>4, <2>5, <2>12, <2>13, <2>14 DEF Accounted
  <1> QED
    BY <1>1, <1>2, IInit, PTL DEF Spec

(* Nothing sits in a buffer that only another message would bring out: a   *)
(* socket whose edge was seen has been read until it was empty.            *)
THEOREM NothingWaits == Spec => []NothingLeftBehind
  <1>1. IInv /\ [Next]_vars => IInv'
    BY INext
  <1>2. IInv => NothingLeftBehind
    <2> SUFFICES ASSUME IInv, npc = "wait", NEW c \in Clients, c \in watched, ~Contains(ready, c), ~reset[c]
                 PROVE  handed[c] = Due(c)
      BY DEF NothingLeftBehind
    <2>1. EInv /\ InOrder(c) /\ Heard(c) /\ Accounted(c) /\ EventsOnce
      BY DEF IInv, EInv
    <2>2. ~Pending(c)
      <3>1. Len(<<>>) = 0 /\ 1..0 = {}
        OBVIOUS
      <3> QED
        BY <2>1, <3>1 DEF EventsOnce, Pending
    <2>3. unread[c] = <<>> /\ ~fin[c] /\ noLimitDataList[c] = <<>> /\ state[c] = "open"
      BY <2>1, <2>2 DEF Heard, Accounted, EventsOnce
    <2>4. Given(c) = Messages(Past(c)) /\ InHand(c) = <<>>
      BY <2>1, <2>3 DEF Accounted, InHand
    <2>5. Messages(Past(c)) = Messages(sent[c])
      BY <2>1, <2>3, NothingMore
    <2>6. PICK h \in Seq(Seq(Int)) : h = handed[c]
      BY <2>1, GivenIs
    <2>7. PICK a \in Seq(Seq(Int)) : a = Messages(sent[c])
      BY <2>1, GivenIs, MessagesAre
    <2>8. (h \o <<>>) \o <<>> = h /\ a \o <<>> = a
      OBVIOUS
    <2> QED
      BY <2>3, <2>4, <2>5, <2>6, <2>7, <2>8 DEF Given, Due
  <1> QED
    BY <1>1, <1>2, IInit, PTL DEF Spec
==============================================================================
