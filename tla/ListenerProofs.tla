---------------------------- MODULE ListenerProofs ----------------------------
(***************************************************************************)
(* The loop never handles an event that is no longer true, and every       *)
(* connection that waits in the accept queue is accounted for: for any     *)
(* number of connections, descriptors and events, and any backlog.         *)
(***************************************************************************)
EXTENDS Listener, FiniteSetTheorems, SequenceTheorems, TLAPS

Fds == Conns \cup {Listen}

Distinct(seq) == \A i, j \in DOMAIN seq : seq[i] = seq[j] => i = j
-----------------------------------------------------------------------------
(* Sublist holds the elements at the positions P, each of them once.       *)
LEMMA SublistProperties ==
  ASSUME NEW S, NEW seq \in Seq(S), NEW P \in SUBSET DOMAIN seq, Distinct(seq)
  PROVE  /\ Sublist(seq, P) \in Seq(S)
         /\ Distinct(Sublist(seq, P))
         /\ \A x : On(Sublist(seq, P), x) <=> \E i \in P : seq[i] = x
<1> DEFINE n == Cardinality(P)
           upto(i) == {j \in P : j <= i}
           rank == [i \in P |-> Cardinality(upto(i))]
           position(k) == CHOOSE i \in P : Cardinality(upto(i)) = k
<1>1. P \subseteq 1 .. Len(seq) /\ IsFiniteSet(P) /\ n \in Nat
  <2>1. DOMAIN seq = 1 .. Len(seq) /\ Len(seq) \in Nat
    BY LenProperties
  <2>2. IsFiniteSet(1 .. Len(seq))
    BY <2>1, FS_Interval
  <2> QED
    BY <2>1, <2>2, FS_Subset, FS_CardinalityType
<1>2. \A i \in P : IsFiniteSet(upto(i)) /\ rank[i] \in 1 .. n
  <2> SUFFICES ASSUME NEW i \in P PROVE IsFiniteSet(upto(i)) /\ rank[i] \in 1 .. n
    OBVIOUS
  <2>1. upto(i) \in SUBSET P /\ i \in upto(i)
    BY <1>1
  <2>2. IsFiniteSet(upto(i)) /\ Cardinality(upto(i)) <= n
    BY <1>1, <2>1, FS_Subset
  <2>3. Cardinality(upto(i)) \in Nat /\ Cardinality(upto(i)) # 0
    BY <2>1, <2>2, FS_CardinalityType, FS_EmptySet
  <2> QED
    BY <1>1, <2>2, <2>3
<1>3. \A i, j \in P : rank[i] = rank[j] => i = j
  <2>1. ASSUME NEW i \in P, NEW j \in P, i < j, rank[i] = rank[j]
        PROVE  FALSE
    <3>1. upto(i) \in SUBSET upto(j) /\ j \in upto(j) /\ j \notin upto(i)
      BY <1>1, <2>1
    <3> QED
      BY <1>2, <2>1, <3>1, FS_Subset
  <2> QED
    BY <1>1, <2>1
<1>4. \A k \in 1 .. n : \E i \in P : rank[i] = k
  <2>1. rank \in Injection(P, 1 .. n)
    BY <1>2, <1>3 DEF Injection, IsInjective
  <2>2. IsFiniteSet(1 .. n) /\ Cardinality(1 .. n) = n
    BY <1>1, FS_Interval
  <2>3. rank \in Surjection(P, 1 .. n)
    BY <2>1, <2>2, FS_Injection
  <2> QED
    BY <2>3 DEF Surjection
<1>5. \A k \in 1 .. n : position(k) \in P /\ rank[position(k)] = k
  BY <1>4
<1>6. \A i \in P : position(rank[i]) = i
  BY <1>2, <1>3, <1>5
<1>7. /\ DOMAIN Sublist(seq, P) = 1 .. n
      /\ \A k \in 1 .. n : Sublist(seq, P)[k] = seq[position(k)]
      /\ Sublist(seq, P) = [k \in 1 .. n |-> seq[position(k)]]
  BY DEF Sublist
<1> HIDE DEF rank, position, upto
<1>8. \A k \in 1 .. n : seq[position(k)] \in S
  BY <1>1, <1>5, ElementOfSeq
<1>9. Sublist(seq, P) \in Seq(S)
  <2>1. Sublist(seq, P) \in [1 .. n -> S]
    BY <1>7, <1>8
  <2> QED
    BY <1>1, <2>1, SeqDef
<1>10. Distinct(Sublist(seq, P))
  BY <1>5, <1>7 DEF Distinct
<1>11. \A x : On(Sublist(seq, P), x) <=> \E i \in P : seq[i] = x
  BY <1>2, <1>5, <1>6, <1>7 DEF On
<1> QED
  BY <1>9, <1>10, <1>11

(* A descriptor that is woken is on the list once.                         *)
LEMMA WakeProperties ==
  ASSUME NEW list \in Seq(Fds), NEW fd \in Fds, Distinct(list)
  PROVE  /\ Wake(list, fd) \in Seq(Fds)
         /\ Distinct(Wake(list, fd))
         /\ \A x : On(Wake(list, fd), x) <=> On(list, x) \/ x = fd
<1>1. CASE On(list, fd)
  BY <1>1 DEF Wake
<1>2. CASE ~On(list, fd)
  <2> DEFINE new == Append(list, fd)
  <2>1. /\ Len(list) \in Nat /\ DOMAIN list = 1 .. Len(list)
        /\ new \in Seq(Fds) /\ DOMAIN new = 1 .. Len(list) + 1
        /\ \A i \in 1 .. Len(list) : new[i] = list[i]
        /\ new[Len(list) + 1] = fd
    OBVIOUS
  <2> HIDE DEF new
  <2>2. Distinct(new)
    BY <1>2, <2>1 DEF Distinct, On
  <2>3. \A x : On(new, x) <=> On(list, x) \/ x = fd
    BY <2>1 DEF On
  <2> QED
    BY <1>2, <2>1, <2>2, <2>3 DEF Wake, new
<1> QED
  BY <1>1, <1>2

(* The head of a list that holds nothing twice leaves it.                  *)
LEMMA TailProperties ==
  ASSUME NEW list \in Seq(Fds), Distinct(list), list # <<>>
  PROVE  /\ Head(list) \in Fds /\ Tail(list) \in Seq(Fds)
         /\ On(list, Head(list))
         /\ Distinct(Tail(list))
         /\ \A x : On(Tail(list), x) <=> On(list, x) /\ x # Head(list)
<1>1. /\ Len(list) \in Nat \ {0} /\ DOMAIN list = 1 .. Len(list)
      /\ Head(list) \in Fds /\ Tail(list) \in Seq(Fds) /\ Head(list) = list[1]
      /\ DOMAIN Tail(list) = 1 .. Len(list) - 1
      /\ \A i \in 1 .. Len(list) - 1 : Tail(list)[i] = list[i + 1]
  BY HeadTailProperties, LenProperties, EmptySeq
<1>2. Distinct(Tail(list))
  BY <1>1 DEF Distinct
<1>3. \A x : On(Tail(list), x) <=> On(list, x) /\ x # Head(list)
  <2>1. ASSUME NEW x, On(Tail(list), x) PROVE On(list, x) /\ x # Head(list)
    BY <1>1, <2>1 DEF On, Distinct
  <2>2. ASSUME NEW x, On(list, x), x # Head(list) PROVE On(Tail(list), x)
    <3>1. PICK i \in 1 .. Len(list) : list[i] = x
      BY <1>1, <2>2 DEF On
    <3>2. i # 1 /\ i - 1 \in 1 .. Len(list) - 1 /\ (i - 1) + 1 = i
      BY <1>1, <2>2, <3>1
    <3> QED
      BY <1>1, <3>1, <3>2 DEF On
  <2> QED
    BY <2>1, <2>2
<1> QED
  BY <1>1, <1>2, <1>3 DEF On

(* A list is split into its first elements and the others.                 *)
LEMMA SplitProperties ==
  ASSUME NEW list \in Seq(Fds), NEW n \in Nat, Distinct(list)
  PROVE  LET taken == Prefix(list, n)
             rest  == SubSeq(list, Len(taken) + 1, Len(list))
         IN  /\ taken \in Seq(Fds) /\ rest \in Seq(Fds)
             /\ Distinct(taken) /\ Distinct(rest)
             /\ \A x : On(list, x) <=> On(taken, x) \/ On(rest, x)
             /\ \A x : ~(On(taken, x) /\ On(rest, x))
<1> DEFINE taken == Prefix(list, n)
           m == IF Len(list) < n THEN Len(list) ELSE n
           rest == SubSeq(list, m + 1, Len(list))
<1>1. /\ Len(list) \in Nat /\ DOMAIN list = 1 .. Len(list) /\ m \in 0 .. Len(list)
      /\ \A i \in 1 .. Len(list) : list[i] \in Fds
  BY LenProperties, ElementOfSeq
<1>2. taken = SubSeq(list, 1, m)
  BY DEF Prefix
<1> HIDE DEF m, taken
<1>3. /\ taken \in Seq(Fds) /\ Len(taken) = m /\ DOMAIN taken = 1 .. m
      /\ \A i \in 1 .. m : taken[i] = list[i]
  <2>1. /\ SubSeq(list, 1, m) \in Seq(Fds)
        /\ Len(SubSeq(list, 1, m)) = IF 1 <= m THEN m - 1 + 1 ELSE 0
        /\ \A i \in 1 .. m - 1 + 1 : SubSeq(list, 1, m)[i] = list[1 + i - 1]
    <3>1. 1 \in Int /\ m \in Int /\ \A i \in 1 .. m : list[i] \in Fds
      BY <1>1
    <3> QED
      BY <3>1, SubSeqProperties
  <2> QED
    BY <1>1, <1>2, <2>1, LenProperties
<1>4. /\ rest \in Seq(Fds) /\ DOMAIN rest = 1 .. Len(list) - m
      /\ \A i \in 1 .. Len(list) - m : rest[i] = list[m + i]
  <2>1. /\ rest \in Seq(Fds)
        /\ Len(rest) = IF m + 1 <= Len(list) THEN Len(list) - (m + 1) + 1 ELSE 0
        /\ \A i \in 1 .. Len(list) - (m + 1) + 1 : rest[i] = list[m + 1 + i - 1]
    <3>1. m + 1 \in Int /\ Len(list) \in Int /\ \A i \in m + 1 .. Len(list) : list[i] \in Fds
      BY <1>1
    <3> QED
      BY <3>1, SubSeqProperties
  <2> QED
    BY <1>1, <2>1, LenProperties
<1> HIDE DEF rest
<1>5. /\ \A i \in 1 .. m : i \in 1 .. Len(list)
      /\ \A i \in 1 .. Len(list) - m : m + i \in 1 .. Len(list)
  BY <1>1
<1>6. \A x : On(taken, x) \/ On(rest, x) => On(list, x)
  BY <1>1, <1>3, <1>4, <1>5, ZenonT(40) DEF On
<1>9. Distinct(taken)
  BY <1>1, <1>3, <1>5 DEF Distinct
<1>10. Distinct(rest)
  <2> SUFFICES ASSUME NEW i \in 1 .. Len(list) - m, NEW j \in 1 .. Len(list) - m,
                      rest[i] = rest[j]
               PROVE  i = j
    BY <1>4 DEF Distinct
  <2>1. m + i = m + j
    BY <1>1, <1>4, <1>5 DEF Distinct
  <2> QED
    BY <1>1, <2>1
<1>7. ASSUME NEW x, On(list, x) PROVE On(taken, x) \/ On(rest, x)
  <2>1. PICK i \in 1 .. Len(list) : list[i] = x
    BY <1>1, <1>7 DEF On
  <2>2. CASE i <= m
    BY <1>1, <1>3, <2>1, <2>2 DEF On
  <2>3. CASE i > m
    <3>1. i - m \in 1 .. Len(list) - m /\ m + (i - m) = i
      BY <1>1, <2>3
    <3> QED
      BY <1>4, <2>1, <3>1 DEF On
  <2> QED
    BY <1>1, <2>2, <2>3
<1>8. ASSUME NEW x, On(taken, x), On(rest, x) PROVE FALSE
  <2>1. PICK i \in 1 .. m : taken[i] = x
    BY <1>3, <1>8 DEF On
  <2>2. PICK j \in 1 .. Len(list) - m : rest[j] = x
    BY <1>4, <1>8 DEF On
  <2>3. list[i] = x /\ list[m + j] = x
    BY <1>3, <1>4, <2>1, <2>2
  <2>4. i \in DOMAIN list /\ m + j \in DOMAIN list
    BY <1>1, <1>5
  <2>5. i = m + j
    BY <2>3, <2>4 DEF Distinct
  <2> QED
    BY <1>1, <2>5
<1> QED
  BY <1>3, <1>4, <1>6, <1>7, <1>8, <1>9, <1>10 DEF taken, rest

(* Two lists with no descriptor in common are joined.                      *)
LEMMA JoinProperties ==
  ASSUME NEW a \in Seq(Fds), NEW b \in Seq(Fds), Distinct(a), Distinct(b),
         \A x : ~(On(a, x) /\ On(b, x))
  PROVE  /\ a \o b \in Seq(Fds)
         /\ Distinct(a \o b)
         /\ \A x : On(a \o b, x) <=> On(a, x) \/ On(b, x)
<1> DEFINE c == a \o b
<1>1. /\ Len(a) \in Nat /\ DOMAIN a = 1 .. Len(a)
      /\ Len(b) \in Nat /\ DOMAIN b = 1 .. Len(b)
  BY LenProperties
<1>2. /\ c \in Seq(Fds) /\ DOMAIN c = 1 .. Len(a) + Len(b)
      /\ \A i \in 1 .. Len(a) + Len(b) : c[i] = IF i <= Len(a) THEN a[i] ELSE b[i - Len(a)]
  BY ConcatProperties, LenProperties
<1> HIDE DEF c
<1>3. \A i \in 1 .. Len(a) + Len(b) :
         \/ i \in 1 .. Len(a) /\ c[i] = a[i]
         \/ i - Len(a) \in 1 .. Len(b) /\ c[i] = b[i - Len(a)]
  BY <1>1, <1>2
<1>4. \A i \in 1 .. Len(b) : i + Len(a) \in 1 .. Len(a) + Len(b) /\ c[i + Len(a)] = b[i]
  <2> TAKE i \in 1 .. Len(b)
  <2>1. i + Len(a) \in 1 .. Len(a) + Len(b) /\ ~(i + Len(a) <= Len(a)) /\ i + Len(a) - Len(a) = i
    BY <1>1
  <2> QED
    BY <1>2, <2>1
<1>5. Distinct(c)
  <2> SUFFICES ASSUME NEW i \in 1 .. Len(a) + Len(b), NEW j \in 1 .. Len(a) + Len(b), c[i] = c[j]
               PROVE  i = j
    BY <1>2 DEF Distinct
  <2>1. CASE i \in 1 .. Len(a) /\ j \in 1 .. Len(a)
    BY <1>1, <1>2, <2>1 DEF Distinct
  <2>2. CASE i \notin 1 .. Len(a) /\ j \notin 1 .. Len(a)
    <3>1. i - Len(a) = j - Len(a)
      BY <1>1, <1>3, <2>2 DEF Distinct
    <3> QED
      BY <1>1, <3>1
  <2>3. CASE i \in 1 .. Len(a) /\ j \notin 1 .. Len(a)
    <3>1. On(a, c[i])
      BY <1>1, <1>2, <2>3 DEF On
    <3>2. On(b, c[j])
      BY <1>1, <1>3, <2>3 DEF On
    <3> QED
      BY <3>1, <3>2
  <2>4. CASE i \notin 1 .. Len(a) /\ j \in 1 .. Len(a)
    <3>1. On(a, c[j])
      BY <1>1, <1>2, <2>4 DEF On
    <3>2. On(b, c[i])
      BY <1>1, <1>3, <2>4 DEF On
    <3> QED
      BY <3>1, <3>2
  <2> QED
    BY <2>1, <2>2, <2>3, <2>4
<1>6. \A x : On(c, x) => On(a, x) \/ On(b, x)
  BY <1>1, <1>2, <1>3 DEF On
<1>7. \A x : On(a, x) => On(c, x)
  BY <1>1, <1>2 DEF On
<1>8. \A x : On(b, x) => On(c, x)
  BY <1>1, <1>2, <1>4 DEF On
<1> QED
  BY <1>2, <1>5, <1>6, <1>7, <1>8 DEF c
-----------------------------------------------------------------------------
(* 1 if the descriptor is on the ready list, in the events array.          *)
Queued(fd) == IF On(ready, fd) THEN 1 ELSE 0

Pending(fd) == IF On(events, fd) THEN 1 ELSE 0

(* The lists, as sets.  The array holds no descriptor twice: if it did,    *)
(* the first of the two events could take what the second one reports.     *)
ListenerInv ==
  /\ ready \in Seq(Fds) /\ events \in Seq(Fds)
  /\ conn \in [Conns -> ConnStates]
  /\ input \subseteq Conns /\ closed \subseteq Conns
  /\ backlog \in Seq(Conns) /\ Len(backlog) <= Backlog
  /\ stranded \in Nat
  /\ Distinct(ready) /\ Distinct(events)
  /\ \A fd \in Fds : On(events, fd) => Reports(fd)
  /\ Len(backlog) = stranded + Queued(Listen) + Pending(Listen)

LEMMA InvImplies == ListenerInv => TypeOK /\ EventsAreCurrent /\ BacklogAccounted
<1> SUFFICES ASSUME ListenerInv PROVE TypeOK /\ EventsAreCurrent /\ BacklogAccounted
  OBVIOUS
<1>1. TypeOK /\ BacklogAccounted
  BY DEF ListenerInv, TypeOK, BacklogAccounted, Queued, Pending, Distinct, Fds
<1>2. EventsAreCurrent
  <2>1. \A i \in DOMAIN events : events[i] \in Fds
    BY LenProperties, ElementOfSeq DEF ListenerInv
  <2> QED
    BY <2>1 DEF EventsAreCurrent, On, ListenerInv
<1> QED
  BY <1>1, <1>2

(* What is reported leaves the list, the listening socket for good; what   *)
(* is not readable leaves it as well.                                      *)
LEMMA PollProperties ==
  ASSUME ready \in Seq(Fds), Distinct(ready), EpollWait
  PROVE  /\ ready' \in Seq(Fds) /\ Distinct(ready')
         /\ events' \in Seq(Fds) /\ Distinct(events')
         /\ \A fd : On(events', fd) => On(ready, fd) /\ Reports(fd)
         /\ \A fd : On(ready', fd) <=> /\ On(ready, fd) /\ Reports(fd)
                                       /\ fd # Listen \/ ~On(events', fd)
<1> DEFINE taken == Prefix(Found, MaxEvents)
           rest  == SubSeq(Found, Len(taken) + 1, Len(Found))
           level == LevelTriggered(taken)
<1>1. /\ Found \in Seq(Fds) /\ Distinct(Found)
      /\ \A fd : On(Found, fd) <=> On(ready, fd) /\ Reports(fd)
  <2>1. {i \in DOMAIN ready : Reports(ready[i])} \in SUBSET DOMAIN ready
    OBVIOUS
  <2>2. /\ Found \in Seq(Fds) /\ Distinct(Found)
        /\ \A fd : On(Found, fd) <=> \E i \in {i \in DOMAIN ready : Reports(ready[i])} : ready[i] = fd
    BY <2>1, SublistProperties DEF Found
  <2> QED
    BY <2>2 DEF On
<1>2. /\ taken \in Seq(Fds) /\ rest \in Seq(Fds)
      /\ Distinct(taken) /\ Distinct(rest)
      /\ \A fd : On(Found, fd) <=> On(taken, fd) \/ On(rest, fd)
      /\ \A fd : ~(On(taken, fd) /\ On(rest, fd))
  <2>1. MaxEvents \in Nat
    BY BoundAssumption
  <2> QED
    BY <1>1, <2>1, SplitProperties
<1>3. events' = taken /\ ready' = rest \o level
  BY DEF EpollWait
<1> HIDE DEF taken, rest
<1>4. /\ level \in Seq(Fds) /\ Distinct(level)
      /\ \A fd : On(level, fd) <=> On(taken, fd) /\ fd # Listen
  <2>1. {i \in DOMAIN taken : taken[i] # Listen} \in SUBSET DOMAIN taken
    OBVIOUS
  <2>2. /\ level \in Seq(Fds) /\ Distinct(level)
        /\ \A fd : On(level, fd) <=> \E i \in {i \in DOMAIN taken : taken[i] # Listen} : taken[i] = fd
    BY <1>2, <2>1, SublistProperties DEF LevelTriggered
  <2> QED
    BY <2>2 DEF On
<1> HIDE DEF level
<1>5. \A fd : ~(On(rest, fd) /\ On(level, fd))
  BY <1>2, <1>4
<1>6. /\ rest \o level \in Seq(Fds) /\ Distinct(rest \o level)
      /\ \A fd : On(rest \o level, fd) <=> On(rest, fd) \/ On(level, fd)
  BY <1>2, <1>4, <1>5, JoinProperties
<1> QED
  BY <1>1, <1>2, <1>3, <1>4, <1>6
-----------------------------------------------------------------------------
LEMMA ListenerInit == Init => ListenerInv
<1> SUFFICES ASSUME Init PROVE ListenerInv
  OBVIOUS
<1>1. /\ ready = <<>> /\ events = <<>> /\ backlog = <<>> /\ stranded = 0
      /\ conn = [c \in Conns |-> "none"] /\ input = {} /\ closed = {}
  BY DEF Init
<1>2. Distinct(ready) /\ Distinct(events) /\ ~On(ready, Listen) /\ \A fd : ~On(events, fd)
  BY <1>1 DEF Distinct, On
<1> QED
  BY <1>1, <1>2, BoundAssumption DEF ListenerInv, ConnStates, Queued, Pending

LEMMA ListenerNext == ListenerInv /\ [Next]_vars => ListenerInv'
<1> SUFFICES ASSUME ListenerInv, [Next]_vars
             PROVE  ListenerInv'
  OBVIOUS
<1>1. /\ ready \in Seq(Fds) /\ events \in Seq(Fds)
      /\ conn \in [Conns -> ConnStates]
      /\ input \subseteq Conns /\ closed \subseteq Conns
      /\ backlog \in Seq(Conns) /\ Len(backlog) <= Backlog /\ Len(backlog) \in Nat
      /\ stranded \in Nat
      /\ Distinct(ready) /\ Distinct(events)
      /\ \A fd \in Fds : On(events, fd) => Reports(fd)
      /\ Len(backlog) = stranded + Queued(Listen) + Pending(Listen)
  BY DEF ListenerInv
<1>2. Listen \in Fds /\ Conns \subseteq Fds /\ Listen \notin Conns
  BY ListenAssumption DEF Fds
<1>3. ASSUME NEW c \in Conns, Connect(c) PROVE ListenerInv'
  <2>1. /\ conn[c] = "none" /\ Len(backlog) < Backlog
        /\ conn' = [conn EXCEPT ![c] = "queued"]
        /\ backlog' = Append(backlog, c)
        /\ ready' = Wake(ready, Listen)
        /\ stranded' = IF On(ready, Listen) THEN stranded + 1 ELSE stranded
        /\ UNCHANGED <<input, closed, events>>
    BY <1>3 DEF Connect
  <2>2. /\ backlog' \in Seq(Conns) /\ Len(backlog') = Len(backlog) + 1 /\ backlog' # <<>>
        /\ conn' \in [Conns -> ConnStates]
    BY <1>1, <2>1 DEF ConnStates
  <2>3. /\ ready' \in Seq(Fds) /\ Distinct(ready') /\ On(ready', Listen)
    BY <1>1, <1>2, <2>1, WakeProperties
  <2>4. \A fd \in Fds : Reports(fd) => Reports(fd)'
    BY <1>1, <1>2, <2>1, <2>2 DEF Reports, Readable
  <2>5. Len(backlog') = stranded' + Queued(Listen)' + Pending(Listen)'
    BY <1>1, <2>1, <2>2, <2>3 DEF Queued, Pending
  <2>6. Len(backlog') <= Backlog /\ stranded' \in Nat
    BY <1>1, <2>1, <2>2, BoundAssumption
  <2> QED
    BY <1>1, <2>1, <2>2, <2>3, <2>4, <2>5, <2>6 DEF ListenerInv
<1>4. ASSUME NEW c \in Conns, WakeIfOpen(c), UNCHANGED <<conn, backlog, events, stranded>>,
             input \subseteq input', closed \subseteq closed',
             input' \subseteq Conns, closed' \subseteq Conns
      PROVE  ListenerInv'
  <2>1. /\ ready' \in Seq(Fds) /\ Distinct(ready')
        /\ On(ready', Listen) <=> On(ready, Listen)
    BY <1>1, <1>2, <1>4, WakeProperties, ZenonT(40) DEF WakeIfOpen
  <2>2. \A fd \in Fds : Reports(fd) => Reports(fd)'
    BY <1>4 DEF Reports, Readable
  <2>3. Queued(Listen)' = Queued(Listen) /\ Pending(Listen)' = Pending(Listen)
    BY <1>4, <2>1 DEF Queued, Pending
  <2> QED
    BY <1>1, <1>4, <2>1, <2>2, <2>3 DEF ListenerInv
<1>5. ASSUME NEW c \in Conns, Send(c) PROVE ListenerInv'
  BY <1>1, <1>4, <1>5 DEF Send
<1>6. ASSUME NEW c \in Conns, Close(c) PROVE ListenerInv'
  BY <1>1, <1>4, <1>6 DEF Close
<1>7. CASE EpollWait
  <2>1. UNCHANGED <<conn, input, closed, backlog, stranded>> /\ events = <<>>
    BY <1>7 DEF EpollWait
  <2>2. /\ ready' \in Seq(Fds) /\ Distinct(ready')
        /\ events' \in Seq(Fds) /\ Distinct(events')
        /\ \A fd : On(events', fd) => On(ready, fd) /\ Reports(fd)
        /\ \A fd : On(ready', fd) <=> /\ On(ready, fd) /\ Reports(fd)
                                      /\ fd # Listen \/ ~On(events', fd)
    BY <1>1, <1>7, PollProperties
  <2>3. \A fd \in Fds : On(events', fd) => Reports(fd)'
    BY <2>1, <2>2 DEF Reports, Readable
  <2>4. On(ready, Listen) => Reports(Listen)
    <3>1. On(ready, Listen) => Len(backlog) # 0
      BY <1>1 DEF Queued, Pending
    <3> QED
      BY <3>1 DEF Reports
  <2>5. Queued(Listen)' + Pending(Listen)' = Queued(Listen) + Pending(Listen)
    <3>1. ~On(events, Listen)
      BY <2>1 DEF On
    <3> QED
      BY <2>2, <2>4, <3>1 DEF Queued, Pending
  <2> QED
    <3>1. /\ Queued(Listen) \in Nat /\ Pending(Listen) \in Nat
          /\ Queued(Listen)' \in Nat /\ Pending(Listen)' \in Nat
      BY DEF Queued, Pending
    <3>2. Len(backlog') = stranded' + Queued(Listen)' + Pending(Listen)'
      BY <1>1, <2>1, <2>5, <3>1
    <3> QED
      BY <1>1, <2>1, <2>2, <2>3, <3>2 DEF ListenerInv
<1>8. CASE AcceptClient
  <2>1. /\ events # <<>> /\ Head(events) = Listen
        /\ events' = Tail(events)
        /\ UNCHANGED <<input, closed>>
    BY <1>8 DEF AcceptClient
  <2>2. /\ events' \in Seq(Fds) /\ Distinct(events')
        /\ On(events, Listen)
        /\ \A fd : On(events', fd) <=> On(events, fd) /\ fd # Listen
    BY <1>1, <2>1, TailProperties
  <2>3. backlog # <<>>
    BY <1>1, <1>2, <2>2 DEF Reports
  <2>4. CASE Cardinality(OpenFds) < MaxFds
    <3> DEFINE c == Head(backlog)
    <3>1. /\ conn' = [conn EXCEPT ![c] = "open"]
          /\ backlog' = Tail(backlog)
          /\ ready' = IF c \in input \cup closed THEN Wake(ready, c) ELSE ready
          /\ UNCHANGED stranded
      BY <1>8, <2>4 DEF AcceptClient
    <3>2. c \in Conns /\ backlog' \in Seq(Conns) /\ Len(backlog') = Len(backlog) - 1
      BY <1>1, <2>3, <3>1, HeadTailProperties
    <3> HIDE DEF c
    <3>3. /\ ready' \in Seq(Fds) /\ Distinct(ready')
          /\ On(ready', Listen) <=> On(ready, Listen)
      BY <1>1, <1>2, <3>1, <3>2, WakeProperties
    <3>4. conn' \in [Conns -> ConnStates]
      BY <1>1, <3>1 DEF ConnStates
    <3>5. \A fd \in Fds : On(events', fd) => Reports(fd)'
      <4>1. \A fd \in Fds : On(events', fd) => fd \in Conns /\ Readable(fd)
        BY <1>1, <2>2 DEF Reports, Fds
      <4>2. \A fd \in Conns : Readable(fd) => Readable(fd)'
        BY <1>1, <2>1, <3>1, <3>2 DEF Readable
      <4> QED
        BY <1>2, <4>1, <4>2 DEF Reports
    <3>6. Len(backlog') = stranded' + Queued(Listen)' + Pending(Listen)'
      BY <1>1, <2>2, <3>1, <3>2, <3>3 DEF Queued, Pending
    <3>7. Len(backlog') <= Backlog /\ stranded' \in Nat
      BY <1>1, <3>1, <3>2, BoundAssumption
    <3> QED
      BY <1>1, <2>1, <2>2, <3>1, <3>2, <3>3, <3>4, <3>5, <3>6, <3>7 DEF ListenerInv
  <2>5. CASE ~(Cardinality(OpenFds) < MaxFds)
    <3>1. stranded' = stranded + 1 /\ UNCHANGED <<conn, backlog, ready>>
      BY <1>8, <2>5 DEF AcceptClient
    <3>2. \A fd \in Fds : On(events', fd) => Reports(fd)'
      BY <1>1, <2>1, <2>2, <3>1 DEF Reports, Readable
    <3>3. Len(backlog') = stranded' + Queued(Listen)' + Pending(Listen)'
      BY <1>1, <2>2, <3>1 DEF Queued, Pending
    <3> QED
      BY <1>1, <2>1, <2>2, <3>1, <3>2, <3>3 DEF ListenerInv
  <2> QED
    BY <2>4, <2>5
<1>9. CASE HandleClient
  <2> DEFINE c == Head(events)
  <2>1. /\ events # <<>> /\ c # Listen
        /\ events' = Tail(events)
        /\ UNCHANGED <<closed, backlog, ready, stranded>>
        /\ \/ input' = input \ {c} /\ conn' = conn
           \/ conn' = [conn EXCEPT ![c] = "dead"] /\ input' = input
    BY <1>9 DEF HandleClient
  <2>2. /\ c \in Conns
        /\ events' \in Seq(Fds) /\ Distinct(events')
        /\ \A fd : On(events', fd) <=> On(events, fd) /\ fd # c
    BY <1>1, <2>1, TailProperties DEF Fds
  <2> HIDE DEF c
  <2>3. conn' \in [Conns -> ConnStates] /\ input' \subseteq Conns
    BY <1>1, <2>1 DEF ConnStates
  <2>4. \A fd \in Fds : On(events', fd) => Reports(fd)'
    <3>1. \A fd \in Fds : On(events', fd) => fd # c /\ Reports(fd)
      BY <1>1, <2>2
    <3>2. \A fd \in Fds : fd # c /\ Reports(fd) => Reports(fd)'
      BY <1>1, <2>1 DEF Reports, Readable, Fds
    <3> QED
      BY <3>1, <3>2
  <2>5. Len(backlog') = stranded' + Queued(Listen)' + Pending(Listen)'
    BY <1>1, <2>1, <2>2 DEF Queued, Pending
  <2> QED
    BY <1>1, <2>1, <2>2, <2>3, <2>4, <2>5 DEF ListenerInv
<1>10. CASE UNCHANGED vars
  BY <1>10
  DEF vars, ListenerInv, Reports, Readable, Queued, Pending
<1> QED
  BY <1>3, <1>5, <1>6, <1>7, <1>8, <1>9, <1>10 DEF Next, Loop

(* The invariant behind the next theorems.                                 *)
THEOREM ListenerCorrect == Spec => []ListenerInv
BY ListenerInit, ListenerNext, PTL DEF Spec

(* The variables keep their types, and the ready list of epoll holds no    *)
(* descriptor twice.                                                       *)
THEOREM TypeCorrect == Spec => []TypeOK
<1>1. ListenerInv => TypeOK
  BY InvImplies
<1> QED
  BY <1>1, ListenerCorrect, PTL

(* recv and accept on the blocking sockets never block: an event is still  *)
(* true when handle_client or accept_client gets to it.                    *)
THEOREM NeverBlocks == Spec => []EventsAreCurrent
<1>1. ListenerInv => EventsAreCurrent
  BY InvImplies
<1> QED
  BY <1>1, ListenerCorrect, PTL

(* The accept queue holds a connection per event to come, and those whose  *)
(* event was coalesced or whose accept failed: nobody else is forgotten,   *)
(* and they are for ever.                                                  *)
THEOREM AccountsForBacklog == Spec => []BacklogAccounted
<1>1. ListenerInv => BacklogAccounted
  BY InvImplies
<1> QED
  BY <1>1, ListenerCorrect, PTL
=============================================================================
