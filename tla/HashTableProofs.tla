---------------------------- MODULE HashTableProofs ----------------------------
(***************************************************************************)
(* The hash tables of tool/hash.h: whatever the keys, their hash values    *)
(* and the number of buckets are, the lists of a table stay intact, no     *)
(* chain gets longer than expansion allows, and to its callers the table   *)
(* is a function from keys to values.                                      *)
(***************************************************************************)
EXTENDS HashTable, UtHashProofs

-----------------------------------------------------------------------------
(* A table that is not empty: its lists, no key twice, chains bounded.     *)
Keeps(t, h, order) ==
  /\ \E chains : Represents(t, h, order, chains)
  /\ UniqueKeys(order)
  /\ Bounded(t)

LEMMA MaxChainIsNat ==
  ASSUME NEW t, IsTable(t)
  PROVE  MaxChain(t) \in Nat \ {0} /\ MaxChain(t) >= CapacityThresh
BY TableAssumption DEF MaxChain, IsTable

(* A product grows with its factor.                                        *)
LEMMA Multiples ==
  ASSUME NEW m \in Nat, NEW p \in Nat, NEW q \in Nat, p <= q
  PROVE  (m + 1) * p <= (m + 1) * q /\ (m + 1) * p \in Nat /\ (m + 1) * q \in Nat
         /\ p <= (m + 1) * p
<1> DEFINE k == m + 1
           d == q - p
<1>1. k \in Nat /\ d \in Nat /\ q = p + d
  OBVIOUS
<1> HIDE DEF k, d
<1>2. k * d \in Nat /\ k * (p + d) = k * p + k * d /\ k * p \in Nat
  BY <1>1
<1>3. k * p <= k * q /\ k * q \in Nat
  BY <1>1, <1>2
<1>4. m * p \in Nat /\ (m + 1) * p = m * p + p
  OBVIOUS
<1> QED
  BY <1>2, <1>3, <1>4 DEF k

(* One bucket's bound.                                                     *)
WithinBound(t, b) ==
  t.tbl.buckets[b].count <= (t.tbl.buckets[b].expand_mult + 1) * MaxChain(t)

LEMMA BucketsBound ==
  ASSUME NEW t, IsTable(t)
  PROVE  /\ Bounded(t) <=> (~t.tbl.noexpand =>
                              \A b \in 0 .. t.tbl.num_buckets - 1 : WithinBound(t, b))
         /\ t.tbl.noexpand \in BOOLEAN
         /\ \A b \in 0 .. t.tbl.num_buckets - 1 : t.tbl.buckets[b] \in Bucket
<1>1. DOMAIN t.tbl.buckets = 0 .. t.tbl.num_buckets - 1 /\ t.tbl.noexpand \in BOOLEAN
  BY DEF IsTable
<1>2. \A b \in 0 .. t.tbl.num_buckets - 1 : t.tbl.buckets[b] \in Bucket
  BY DEF IsTable
<1> QED
  BY <1>1, <1>2 DEF Bounded, WithinBound

(* Where a bucket is not due for an expansion, it is within its bound.     *)
LEMMA NotDue ==
  ASSUME NEW t, IsTable(t), NEW b \in 0 .. t.tbl.num_buckets - 1,
         ~MayExpand(t, b), ~t.tbl.noexpand
  PROVE  WithinBound(t, b)
<1> DEFINE c == t.tbl.buckets[b].count
           m == t.tbl.buckets[b].expand_mult
           max == MaxChain(t)
<1>1. c \in Int /\ m \in Nat
  BY BucketsBound DEF Bucket
<1>2. max \in Nat /\ max >= CapacityThresh /\ CapacityThresh \in Nat
  BY MaxChainIsNat, TableAssumption
<1>3. ~(c >= (m + 1) * CapacityThresh)
  BY DEF MayExpand
<1> HIDE DEF c, m, max
<1>4. /\ (m + 1) * CapacityThresh <= (m + 1) * max
      /\ (m + 1) * CapacityThresh \in Nat /\ (m + 1) * max \in Nat
  BY <1>1, <1>2, Multiples
<1>5. c <= (m + 1) * max
  <2> DEFINE p == (m + 1) * CapacityThresh
             q == (m + 1) * max
  <2>1. ~(c >= p) /\ p <= q /\ p \in Nat /\ q \in Nat
    BY <1>3, <1>4
  <2> HIDE DEF p, q
  <2>2. c <= q
    BY <1>1, <2>1
  <2> QED
    BY <2>2 DEF q
<1> QED
  BY <1>5 DEF WithinBound, c, m, max

(* Buckets that did not get longer stay within their bounds.               *)
LEMMA BoundStays ==
  ASSUME NEW t, NEW u, IsTable(t), IsTable(u), SameLimits(t, u),
         NEW b \in 0 .. t.tbl.num_buckets - 1,
         WithinBound(t, b), u.tbl.buckets[b].count <= t.tbl.buckets[b].count
  PROVE  WithinBound(u, b)
<1>1. t.tbl.buckets[b] \in Bucket /\ u.tbl.buckets[b] \in Bucket
  BY BucketsBound DEF SameLimits
<1>2. MaxChain(u) = MaxChain(t) /\ MaxChain(t) \in Nat
  BY MaxChainIsNat DEF SameLimits, MaxChain
<1> DEFINE c == t.tbl.buckets[b].count
           d == u.tbl.buckets[b].count
           m == t.tbl.buckets[b].expand_mult
           bound == (m + 1) * MaxChain(t)
<1>3. c \in Int /\ d \in Int /\ m \in Nat /\ u.tbl.buckets[b].expand_mult = m
  BY <1>1 DEF Bucket, SameLimits
<1>4. c <= bound /\ d <= c
  BY DEF WithinBound
<1> HIDE DEF c, d, m
<1>5. bound \in Nat
  BY <1>2, <1>3
<1> HIDE DEF bound
<1>6. d <= bound
  BY <1>3, <1>4, <1>5
<1> QED
  BY <1>2, <1>3, <1>6 DEF WithinBound, bound, d
-----------------------------------------------------------------------------
(* What the operations do to a table.                                      *)

LEMMA ListedOnce ==
  ASSUME NEW t, NEW h, NEW order, NEW chains, Represents(t, h, order, chains),
         NEW c \in DOMAIN chains
  PROVE  /\ DOMAIN chains = 0 .. t.tbl.num_buckets - 1
         /\ t.tbl.buckets[c].count = Len(chains[c])
         /\ chains[c] \in Seq(Items)
BY DEF Represents, ChainsAre, ChainIs, Linked

(* HASH_ADD_TO_BKT in a table t that has everything else of the item: the  *)
(* lists are those after the push, or the table is expanded.               *)
LEMMA AddToBktKeeps ==
  ASSUME NEW h \in [Keys -> Nat], NEW t, NEW x \in Items, NEW order, NEW chains,
         NEW b, b = ToBkt(t, h[KeyOf(x)]),
         Represents(PushInBkt(t, b, x), h, order, chains), UniqueKeys(order),
         t.tbl.num_buckets = PushInBkt(t, b, x).tbl.num_buckets,
         ~t.tbl.noexpand =>
           \A c \in (0 .. t.tbl.num_buckets - 1) \ {b} : WithinBound(PushInBkt(t, b, x), c),
         t.tbl.noexpand = PushInBkt(t, b, x).tbl.noexpand
  PROVE  Keeps(AddToBkt(t, h, x), h, order)
<1> DEFINE u == PushInBkt(t, b, x)
<1>1. AddToBkt(t, h, x) = IF MayExpand(u, b) THEN ExpandBuckets(u, h) ELSE u
  BY DEF AddToBkt
<1>2. IsTable(u)
  BY DEF Represents
<1> HIDE DEF u
<1>3. CASE MayExpand(u, b)
  <2>1. /\ \E after : Represents(ExpandBuckets(u, h), h, order, after)
        /\ Bounded(ExpandBuckets(u, h))
    BY ExpandKeepsTable DEF u
  <2> QED
    BY <1>1, <1>3, <2>1 DEF Keeps
<1>4. CASE ~MayExpand(u, b)
  <2>1. ASSUME ~u.tbl.noexpand, NEW c \in 0 .. u.tbl.num_buckets - 1
        PROVE  WithinBound(u, c)
    <3>1. CASE c = b
      BY <1>2, <1>4, <2>1, <3>1, NotDue
    <3>2. CASE c # b
      BY <2>1, <3>2 DEF u
    <3> QED
      BY <3>1, <3>2
  <2>2. Bounded(u)
    BY <1>2, <2>1, BucketsBound
  <2>3. Represents(u, h, order, chains)
    BY DEF u
  <2> QED
    BY <1>1, <1>4, <2>2, <2>3 DEF Keeps
<1> QED
  BY <1>3, <1>4

(* In a table whose lists got one item more, all chains but that item's    *)
(* are within their bounds.                                                *)
LEMMA OthersBound ==
  ASSUME NEW h \in [Keys -> Nat], NEW t, NEW u, NEW order, NEW after, NEW chains,
         Represents(t, h, order, chains), Bounded(t), SameLimits(t, u),
         NEW x \in Items, NEW b, b = ToBkt(t, h[KeyOf(x)]),
         Represents(u, h, after, [chains EXCEPT ![b] = InsertAt(@, 1, x)])
  PROVE  ~u.tbl.noexpand =>
           \A c \in (0 .. u.tbl.num_buckets - 1) \ {b} : WithinBound(u, c)
<1> DEFINE more == [chains EXCEPT ![b] = InsertAt(@, 1, x)]
<1>1. IsTable(t) /\ IsTable(u)
  BY DEF Represents
<1>2. /\ DOMAIN chains = 0 .. t.tbl.num_buckets - 1
      /\ u.tbl.num_buckets = t.tbl.num_buckets /\ u.tbl.noexpand = t.tbl.noexpand
  BY DEF Represents, ChainsAre, SameLimits
<1>3. ASSUME ~u.tbl.noexpand, NEW c \in (0 .. u.tbl.num_buckets - 1) \ {b}
      PROVE  WithinBound(u, c)
  <2>1. c \in DOMAIN chains /\ c \in DOMAIN more /\ more[c] = chains[c]
    BY <1>2
  <2> HIDE DEF more
  <2>2. Represents(u, h, after, more)
    BY DEF more
  <2>3. /\ t.tbl.buckets[c].count = Len(chains[c]) /\ chains[c] \in Seq(Items)
        /\ u.tbl.buckets[c].count = Len(more[c])
    BY <2>1, <2>2, ListedOnce
  <2>4. WithinBound(t, c)
    BY <1>1, <1>2, <1>3, BucketsBound
  <2>5. u.tbl.buckets[c].count <= t.tbl.buckets[c].count
    BY <2>1, <2>3
  <2> QED
    BY <1>1, <1>2, <1>3, <2>4, <2>5, BoundStays
<1> QED
  BY <1>3

LEMMA NewKey ==
  ASSUME NEW order \in Seq(Items), NEW x \in Items,
         \A i \in DOMAIN order : KeyOf(order[i]) # KeyOf(x)
  PROVE  ~Has(order, x)
BY DEF Has

LEMMA InsertUnique ==
  ASSUME NEW order \in Seq(Items), NEW i \in 1 .. Len(order) + 1, NEW x \in Items,
         UniqueKeys(order), \A k \in DOMAIN order : KeyOf(order[k]) # KeyOf(x)
  PROVE  UniqueKeys(InsertAt(order, i, x))
<1> DEFINE new == InsertAt(order, i, x)
<1>1. /\ DOMAIN new = 1 .. Len(order) + 1
      /\ \A k \in 1 .. Len(order) + 1 :
           new[k] = IF k < i THEN order[k] ELSE IF k = i THEN x ELSE order[k - 1]
  <2>1. /\ new \in Seq(Items) /\ Len(new) = Len(order) + 1
        /\ \A k \in 1 .. Len(order) + 1 :
             new[k] = IF k < i THEN order[k] ELSE IF k = i THEN x ELSE order[k - 1]
    BY InsertElements
  <2> HIDE DEF new
  <2> QED
    BY <2>1
<1> HIDE DEF new
<1> DEFINE old(k) == IF k < i THEN k ELSE k - 1
<1>2. \A k \in DOMAIN new : k # i => old(k) \in DOMAIN order /\ new[k] = order[old(k)]
  BY <1>1
<1>3. new[i] = x /\ i \in DOMAIN new
  BY <1>1
<1>4. \A j, k \in DOMAIN new : j # i /\ k # i /\ old(j) = old(k) => j = k
  BY <1>1
<1> HIDE DEF old
<1>5. ASSUME NEW j \in DOMAIN new, NEW k \in DOMAIN new, KeyOf(new[j]) = KeyOf(new[k])
      PROVE  j = k
  <2>1. CASE j = i /\ k = i
    BY <2>1
  <2>2. CASE j = i /\ k # i
    BY <1>2, <1>3, <1>5, <2>2
  <2>3. CASE j # i /\ k = i
    BY <1>2, <1>3, <1>5, <2>3
  <2>4. CASE j # i /\ k # i
    <3>1. old(j) = old(k)
      BY <1>2, <1>5, <2>4 DEF UniqueKeys
    <3> QED
      BY <1>4, <2>4, <3>1
  <2> QED
    BY <2>1, <2>2, <2>3, <2>4
<1> QED
  BY <1>5 DEF UniqueKeys, new

LEMMA KeepsLists ==
  ASSUME NEW t, NEW h, NEW order, Keeps(t, h, order)
  PROVE  /\ IsTable(t) /\ OrderIs(t, order) /\ order \in Seq(Items)
         /\ Len(order) \in Nat \ {0} /\ DOMAIN order = 1 .. Len(order)
         /\ t.head = order[1] /\ order[1] \in Items /\ t.head # NULL
         /\ AppOrder(t) = order /\ Members(t) = {y \in Items : Has(order, y)}
         /\ t.tbl.num_items = Len(order)
<1>1. PICK chains : Represents(t, h, order, chains)
  BY DEF Keeps
<1>2. /\ IsTable(t) /\ OrderIs(t, order) /\ order \in Seq(Items)
      /\ t.tbl.num_items = Len(order)
  BY <1>1, RepresentsLists
<1>3. /\ Len(order) \in Nat \ {0} /\ DOMAIN order = 1 .. Len(order)
      /\ t.head = order[1] /\ order[1] \in Items
  BY <1>2 DEF OrderIs
<1>4. t.head # NULL
  BY <1>3, TableAssumption
<1>5. AppOrder(t) = order
  <2>1. Linked(order, t.next, t.prev) /\ UniqueKeys(order)
    BY <1>2 DEF OrderIs, Keeps
  <2>2. Follow(t.next, NodeAt(order, 1)) = order
    BY <2>1, FollowList
  <2>3. NodeAt(order, 1) = t.head
    BY <1>3 DEF NodeAt
  <2> QED
    BY <2>2, <2>3 DEF AppOrder
<1>6. ToSet(order) = {y \in Items : Has(order, y)}
  BY <1>2 DEF ToSet, Has
<1> QED
  BY <1>2, <1>3, <1>4, <1>5, <1>6 DEF Members

(* HASH_FIND finds the item of the application order that has the key.     *)
LEMMA FindHangs ==
  ASSUME NEW t, t.head # NULL, NEW h \in [Keys -> Nat], NEW order \in Seq(Items),
         UniqueKeys(order), NEW chains, Hung(t, h, order, chains), NEW key \in Keys
  PROVE  /\ \A i \in DOMAIN order : KeyOf(order[i]) = key => Find(t, h, key) = order[i]
         /\ (\A i \in DOMAIN order : KeyOf(order[i]) # key) => Find(t, h, key) = NULL
<1> DEFINE b == ToBkt(t, h[key])
<1>2. IsTable(t) /\ DOMAIN order = 1 .. Len(order)
  BY DEF Hung
<1>3. b \in DOMAIN chains
  <2>1. h[key] \in Nat /\ t.tbl.num_buckets \in Nat \ {0}
    BY <1>2 DEF IsTable
  <2>2. b \in 0 .. t.tbl.num_buckets - 1
    BY <2>1 DEF ToBkt
  <2> QED
    BY <2>2 DEF Hung, ChainsAre
<1>4. /\ ChainIs(t, b, chains[b]) /\ UniqueKeys(chains[b]) /\ chains[b] \in Seq(Items)
  BY <1>2, <1>3, ChainsUnique DEF Hung, ChainsAre, ChainIs, Linked
<1>5. \A y \in Items : KeyOf(y) = key => (Has(order, y) <=> Has(chains[b], y))
  BY DEF Hung
<1>6. /\ \A i \in DOMAIN chains[b] :
           KeyOf(chains[b][i]) = key => Find(t, h, key) = chains[b][i]
      /\ (\A i \in DOMAIN chains[b] : KeyOf(chains[b][i]) # key) => Find(t, h, key) = NULL
  BY <1>2, <1>4, FindInChain
<1>7. ASSUME NEW i \in DOMAIN order, KeyOf(order[i]) = key
      PROVE  Find(t, h, key) = order[i]
  <2>1. order[i] \in Items /\ Has(order, order[i])
    BY <1>2 DEF Has
  <2>2. Has(chains[b], order[i])
    BY <1>5, <1>7, <2>1
  <2> QED
    BY <1>6, <1>7, <2>2 DEF Has
<1>8. ASSUME \A i \in DOMAIN order : KeyOf(order[i]) # key
      PROVE  Find(t, h, key) = NULL
  <2>1. ASSUME NEW i \in DOMAIN chains[b] PROVE KeyOf(chains[b][i]) # key
    <3>1. chains[b][i] \in Items /\ Has(chains[b], chains[b][i])
      BY <1>4 DEF Has
    <3> QED
      BY <1>5, <1>8, <3>1 DEF Has
  <2> QED
    BY <1>6, <2>1
<1> QED
  BY <1>7, <1>8

LEMMA FindKeeps ==
  ASSUME NEW t, NEW h \in [Keys -> Nat], NEW order, Keeps(t, h, order), NEW key \in Keys
  PROVE  /\ \A i \in DOMAIN order : KeyOf(order[i]) = key => Find(t, h, key) = order[i]
         /\ (\A i \in DOMAIN order : KeyOf(order[i]) # key) => Find(t, h, key) = NULL
<1>1. PICK chains : Represents(t, h, order, chains)
  BY DEF Keeps
<1>2. order \in Seq(Items) /\ t.head # NULL /\ UniqueKeys(order)
  BY KeepsLists DEF Keeps
<1>3. Hung(t, h, order, chains)
  BY <1>1 DEF Represents, Hung
<1> QED
  BY <1>2, <1>3, FindHangs

(* HASH_ADD to a null head pointer.                                        *)
LEMMA AddFirst ==
  ASSUME NEW t, IsEmpty(t), NEW h \in [Keys -> Nat], NEW x \in Items
  PROVE  Keeps(AddToTable(MakeTable(t, x), h, x), h, <<x>>)
<1> DEFINE m == [MakeTable(t, x) EXCEPT !.tbl.num_items = @ + 1]
           b == h[KeyOf(x)] % InitialBuckets
           u == PushInBkt(m, b, x)
           chains == [c \in 0 .. InitialBuckets - 1 |-> IF c = b THEN <<x>> ELSE <<>>]
<1>1. Represents(u, h, <<x>>, chains)
  BY FirstMakesTable
<1>2. /\ m.tbl.num_buckets = InitialBuckets /\ ToBkt(m, h[KeyOf(x)]) = b
      /\ m.tbl.noexpand = FALSE
  BY DEF MakeTable, IsEmpty, ToBkt
<1>3. IsTable(m)
  <2> DEFINE n == MakeTable(t, x)
  <2>1. IsTable(n) /\ n.tbl.num_items = 0
    BY FirstIsTable
  <2> HIDE DEF n
  <2>2. n.tbl.num_items + 1 \in Int
    BY <2>1
  <2>3. IsTable(WithCount(n, n.tbl.num_items + 1))
    BY <2>1, <2>2, CountWritten
  <2>4. m = WithCount(n, n.tbl.num_items + 1)
    BY DEF WithCount, n
  <2> QED
    BY <2>3, <2>4
<1> HIDE DEF m
<1>4. b \in 0 .. m.tbl.num_buckets - 1
  BY <1>2, <1>3, BktInRange
<1>5. SameSize(m, u)
  BY <1>3, <1>4, PushWrites
<1>6. UniqueKeys(<<x>>)
  BY DEF UniqueKeys
<1>7. IsTable(u) /\ u.tbl.num_buckets = InitialBuckets
  BY <1>1, <1>2, <1>5 DEF Represents, SameSize
<1>8. ASSUME NEW c \in 0 .. u.tbl.num_buckets - 1 PROVE WithinBound(u, c)
  <2>1. c \in DOMAIN chains /\ Len(chains[c]) <= 1
    BY <1>7
  <2> HIDE DEF chains, u
  <2>2. u.tbl.buckets[c].count = Len(chains[c]) /\ chains[c] \in Seq(Items)
    BY <1>1, <2>1, ListedOnce
  <2> DEFINE k == u.tbl.buckets[c].expand_mult
             n == u.tbl.buckets[c].count
             max == MaxChain(u)
  <2>3. k \in Nat /\ max \in Nat /\ max >= 1 /\ n \in Int /\ n <= 1
    BY <1>7, <2>1, <2>2, BucketsBound, MaxChainIsNat DEF Bucket
  <2> HIDE DEF k, n, max
  <2>4. max <= (k + 1) * max /\ (k + 1) * max \in Nat
    BY <2>3, Multiples
  <2> DEFINE p == (k + 1) * max
  <2> HIDE DEF p
  <2>5. n <= p
    BY <2>3, <2>4 DEF p
  <2> QED
    BY <2>5 DEF WithinBound, k, n, max, p
<1>9. Keeps(AddToBkt(m, h, x), h, <<x>>)
  <2>1. m.tbl.noexpand = u.tbl.noexpand /\ m.tbl.num_buckets = u.tbl.num_buckets
    BY <1>5 DEF SameSize
  <2>2. \A c \in (0 .. m.tbl.num_buckets - 1) \ {b} : WithinBound(u, c)
    BY <1>8, <2>1
  <2> HIDE DEF chains
  <2> QED
    BY <1>1, <1>2, <1>6, <2>1, <2>2, AddToBktKeeps
<1> QED
  BY <1>9 DEF AddToTable, m

LEMMA Counted ==
  ASSUME NEW t, NEW m, IsTable(t), IsTable(m), SameSize(t, m),
         NEW n, n = WithCount(m, m.tbl.num_items + 1)
  PROVE  /\ n.tbl.num_buckets = t.tbl.num_buckets
         /\ n.tbl.noexpand = t.tbl.noexpand
         /\ \A y : ToBkt(n, y) = ToBkt(t, y)
<1>1. m.tbl.num_items + 1 \in Int
  BY DEF IsTable
<1>2. n.tbl.num_buckets = m.tbl.num_buckets /\ SameLimits(m, n)
  BY <1>1, CountWritten
<1>3. n.tbl.num_buckets = t.tbl.num_buckets /\ n.tbl.noexpand = t.tbl.noexpand
  BY <1>2 DEF SameSize, SameLimits
<1>4. \A y : ToBkt(n, y) = ToBkt(t, y)
  BY <1>3 DEF ToBkt
<1> QED
  BY <1>3, <1>4

(* HASH_ADD of a new key to a table that is not empty.                     *)
LEMMA AddLastKeeps ==
  ASSUME NEW t, NEW h \in [Keys -> Nat], NEW order, Keeps(t, h, order),
         NEW x \in Items, \A k \in DOMAIN order : KeyOf(order[k]) # KeyOf(x)
  PROVE  Keeps(AddToTable(AppendList(t, x), h, x), h, Append(order, x))
<1> DEFINE m == AppendList(t, x)
           n == [m EXCEPT !.tbl.num_items = @ + 1]
           b == ToBkt(t, h[KeyOf(x)])
           u == PushInBkt(n, b, x)
<1>1. PICK chains : Represents(t, h, order, chains)
  BY DEF Keeps
<1>2. IsTable(t) /\ order \in Seq(Items) /\ UniqueKeys(order) /\ Bounded(t)
  BY KeepsLists DEF Keeps
<1>3. ~Has(order, x)
  BY <1>2, NewKey
<1> DEFINE more == [chains EXCEPT ![b] = InsertAt(@, 1, x)]
<1>4. Represents(u, h, Append(order, x), more) /\ SameLimits(t, u)
  BY <1>1, <1>3, AddKeepsTable
<1>5. IsTable(m) /\ SameSize(t, m)
  BY <1>2, AppendWrites
<1>a. n = WithCount(m, m.tbl.num_items + 1)
  BY DEF WithCount
<1> HIDE DEF m, n
<1>6. /\ n.tbl.num_buckets = t.tbl.num_buckets /\ n.tbl.noexpand = t.tbl.noexpand
      /\ ToBkt(n, h[KeyOf(x)]) = b
  BY <1>2, <1>5, <1>a, Counted
<1>7. u.tbl.num_buckets = n.tbl.num_buckets /\ u.tbl.noexpand = n.tbl.noexpand
  BY <1>4, <1>6 DEF SameLimits
<1> HIDE DEF u
<1>8. ~u.tbl.noexpand => \A c \in (0 .. u.tbl.num_buckets - 1) \ {b} : WithinBound(u, c)
  BY <1>1, <1>2, <1>4, OthersBound
<1>9. UniqueKeys(Append(order, x))
  <2> DEFINE i == Len(order) + 1
  <2>1. i \in 1 .. Len(order) + 1 /\ i > Len(order)
    BY <1>2
  <2> HIDE DEF i
  <2>2. InsertAt(order, i, x) = Append(order, x)
    BY <1>2, <2>1, AppendIsInsert
  <2>3. UniqueKeys(InsertAt(order, i, x))
    BY <1>2, <2>1, InsertUnique
  <2> QED
    BY <2>2, <2>3
<1>10. Keeps(AddToBkt(n, h, x), h, Append(order, x))
  <2>1. b = ToBkt(n, h[KeyOf(x)]) /\ u = PushInBkt(n, b, x)
    BY <1>6 DEF u
  <2> HIDE DEF b, more
  <2> QED
    BY <1>4, <1>7, <1>8, <1>9, <2>1, AddToBktKeeps
<1> QED
  BY <1>10 DEF AddToTable, m, n

(* HASH_ADD_INORDER of a new key in front of an item.                      *)
LEMMA AddBeforeKeeps ==
  ASSUME NEW t, NEW h \in [Keys -> Nat], NEW order, Keeps(t, h, order),
         NEW x \in Items, \A k \in DOMAIN order : KeyOf(order[k]) # KeyOf(x),
         NEW i \in DOMAIN order
  PROVE  Keeps(AddToTable(InsertBefore(t, order[i], x), h, x), h, InsertAt(order, i, x))
<1> DEFINE m == InsertBefore(t, order[i], x)
           n == [m EXCEPT !.tbl.num_items = @ + 1]
           b == ToBkt(t, h[KeyOf(x)])
           u == PushInBkt(n, b, x)
           new == InsertAt(order, i, x)
<1>1. PICK chains : Represents(t, h, order, chains)
  BY DEF Keeps
<1>2. /\ IsTable(t) /\ order \in Seq(Items) /\ UniqueKeys(order) /\ Bounded(t)
      /\ i \in 1 .. Len(order) /\ i \in 1 .. Len(order) + 1 /\ order[i] \in Items
  <2>1. /\ IsTable(t) /\ order \in Seq(Items) /\ UniqueKeys(order) /\ Bounded(t)
        /\ i \in 1 .. Len(order)
    BY KeepsLists DEF Keeps
  <2> QED
    BY <2>1
<1>3. ~Has(order, x)
  BY <1>2, NewKey
<1> DEFINE more == [chains EXCEPT ![b] = InsertAt(@, 1, x)]
<1>4. Represents(u, h, new, more) /\ SameLimits(t, u)
  BY <1>1, <1>2, <1>3, AddInOrderKeepsTable
<1>5. IsTable(m) /\ SameSize(t, m)
  BY <1>2, InsertWrites
<1>a. n = WithCount(m, m.tbl.num_items + 1)
  BY DEF WithCount
<1> HIDE DEF m, n
<1>6. /\ n.tbl.num_buckets = t.tbl.num_buckets /\ n.tbl.noexpand = t.tbl.noexpand
      /\ ToBkt(n, h[KeyOf(x)]) = b
  BY <1>2, <1>5, <1>a, Counted
<1>7. u.tbl.num_buckets = n.tbl.num_buckets /\ u.tbl.noexpand = n.tbl.noexpand
  BY <1>4, <1>6 DEF SameLimits
<1> HIDE DEF u, new
<1>8. ~u.tbl.noexpand => \A c \in (0 .. u.tbl.num_buckets - 1) \ {b} : WithinBound(u, c)
  BY <1>1, <1>2, <1>4, OthersBound
<1>9. UniqueKeys(new)
  BY <1>2, InsertUnique DEF new
<1>10. Keeps(AddToBkt(n, h, x), h, new)
  <2>1. b = ToBkt(n, h[KeyOf(x)]) /\ u = PushInBkt(n, b, x)
    BY <1>6 DEF u
  <2> HIDE DEF b, more
  <2> QED
    BY <1>4, <1>7, <1>8, <1>9, <2>1, AddToBktKeeps
<1> QED
  BY <1>10 DEF AddToTable, m, n, new

LEMMA RemoveUnique ==
  ASSUME NEW order \in Seq(Items), NEW i \in 1 .. Len(order), UniqueKeys(order)
  PROVE  UniqueKeys(RemoveAt(order, i))
<1> DEFINE new == RemoveAt(order, i)
           old(k) == IF k < i THEN k ELSE k + 1
<1>1. /\ DOMAIN new = 1 .. Len(order) - 1
      /\ \A k \in 1 .. Len(order) - 1 :
           new[k] = IF k < i THEN order[k] ELSE order[k + 1]
  <2>1. /\ new \in Seq(Items) /\ Len(new) = Len(order) - 1
        /\ \A k \in 1 .. Len(order) - 1 :
             new[k] = IF k < i THEN order[k] ELSE order[k + 1]
    BY RemoveElements
  <2> HIDE DEF new
  <2> QED
    BY <2>1
<1> HIDE DEF new
<1>2. \A k \in DOMAIN new : old(k) \in DOMAIN order /\ new[k] = order[old(k)]
  BY <1>1
<1>3. \A j, k \in DOMAIN new : old(j) = old(k) => j = k
  BY <1>1
<1> HIDE DEF old
<1>4. ASSUME NEW j \in DOMAIN new, NEW k \in DOMAIN new, KeyOf(new[j]) = KeyOf(new[k])
      PROVE  j = k
  <2>1. old(j) = old(k)
    BY <1>2, <1>4 DEF UniqueKeys
  <2> QED
    BY <1>3, <2>1
<1> QED
  BY <1>4 DEF UniqueKeys, new

(* HASH_DEL and the free of the item: it was the only one, or the table is *)
(* kept without it.                                                        *)
LEMMA DeleteEmpties ==
  ASSUME NEW t, NEW h, NEW order, Keeps(t, h, order), Len(order) = 1
  PROVE  IsEmpty(Free(Delete(t, h, order[1]), order[1]))
<1> DEFINE u == Delete(t, h, order[1])
<1>1. IsEmpty(u)
  BY DeleteLastEmpties DEF Keeps
<1> HIDE DEF u
<1>2. IsEmpty(Free(u, order[1]))
  BY <1>1 DEF IsEmpty, Free, Links
<1> QED
  BY <1>2 DEF u

LEMMA DeleteKeeps ==
  ASSUME NEW t, NEW h \in [Keys -> Nat], NEW order, Keeps(t, h, order),
         Len(order) > 1, NEW i \in DOMAIN order
  PROVE  Keeps(Free(Delete(t, h, order[i]), order[i]), h, RemoveAt(order, i))
<1> DEFINE x == order[i]
           b == ToBkt(t, h[KeyOf(x)])
           d == Delete(t, h, x)
           u == Free(d, x)
           new == RemoveAt(order, i)
<1>1. PICK chains : Represents(t, h, order, chains)
  BY DEF Keeps
<1>2. /\ IsTable(t) /\ order \in Seq(Items) /\ UniqueKeys(order) /\ Bounded(t)
      /\ i \in 1 .. Len(order) /\ x \in Items
      /\ \A j, k \in DOMAIN order : order[j] = order[k] => j = k
  BY <1>1, KeepsLists, RepresentsLists DEF Keeps
<1>3. PICK j \in DOMAIN chains[b] :
        /\ Represents(d, h, new, [chains EXCEPT ![b] = RemoveAt(@, j)])
        /\ SameLimits(t, d)
  BY <1>1, <1>2, DeleteKeepsTable
<1> DEFINE after == [chains EXCEPT ![b] = RemoveAt(@, j)]
<1>4. ~Has(new, x)
  BY <1>2, HasRemove
<1> HIDE DEF d
<1>5. Represents(u, h, new, after) /\ SameLimits(d, u)
  <2> HIDE DEF after, new, x
  <2> QED
    BY <1>2, <1>3, <1>4, FreeKeepsTable DEF after
<1> HIDE DEF u
<1>6. SameLimits(t, u) /\ IsTable(u)
  BY <1>3, <1>5, LimitsAfter DEF Represents
<1>7. UniqueKeys(new)
  BY <1>2, RemoveUnique
<1>8. /\ DOMAIN chains = 0 .. t.tbl.num_buckets - 1
      /\ \A c \in DOMAIN chains : chains[c] \in Seq(Items)
  BY <1>1 DEF Represents, ChainsAre, ChainIs, Linked
<1>9. ASSUME NEW c \in DOMAIN chains PROVE Len(after[c]) <= Len(chains[c])
  <2>1. CASE c # b
    BY <1>8, <2>1
  <2>2. CASE c = b
    <3>1. Len(RemoveAt(chains[b], j)) = Len(chains[b]) - 1 /\ Len(chains[b]) \in Nat
      BY <1>8, <2>2, RemoveElements
    <3>2. after[b] = RemoveAt(chains[b], j)
      BY <2>2
    <3> QED
      BY <2>2, <3>1, <3>2
  <2> QED
    BY <2>1, <2>2
<1>10. ASSUME NEW c \in DOMAIN chains
       PROVE  u.tbl.buckets[c].count <= t.tbl.buckets[c].count
  <2>1. c \in DOMAIN after
    OBVIOUS
  <2> HIDE DEF after, new
  <2>2. u.tbl.buckets[c].count = Len(after[c]) /\ t.tbl.buckets[c].count = Len(chains[c])
    BY <1>1, <1>5, <2>1, ListedOnce
  <2> QED
    BY <1>9, <2>2
<1>11. Bounded(u)
  <2>1. ASSUME ~u.tbl.noexpand, NEW c \in 0 .. u.tbl.num_buckets - 1
        PROVE  WithinBound(u, c)
    <3>1. c \in 0 .. t.tbl.num_buckets - 1 /\ c \in DOMAIN chains /\ ~t.tbl.noexpand
      BY <1>6, <1>8, <2>1 DEF SameLimits
    <3>2. WithinBound(t, c)
      BY <1>2, <3>1, BucketsBound
    <3> QED
      BY <1>2, <1>6, <1>10, <3>1, <3>2, BoundStays
  <2> QED
    BY <1>6, <2>1, BucketsBound
<1>12. Keeps(u, h, new)
  <2> HIDE DEF after, new
  <2> QED
    BY <1>5, <1>7, <1>11 DEF Keeps
<1> QED
  BY <1>12 DEF u, d
-----------------------------------------------------------------------------
(* Tables of any size.                                                     *)

Holds(t, h, order) ==
  \/ order = <<>> /\ IsEmpty(t)
  \/ Keeps(t, h, order)

LEMMA HoldsLists ==
  ASSUME NEW t, NEW h, NEW order, Holds(t, h, order)
  PROVE  /\ order \in Seq(Items) /\ UniqueKeys(order) /\ AppOrder(t) = order
         /\ Len(order) \in Nat /\ DOMAIN order = 1 .. Len(order)
         /\ (order = <<>> <=> IsEmpty(t)) /\ (IsEmpty(t) <=> t.head = NULL)
         /\ (~IsEmpty(t) => Keeps(t, h, order))
<1>1. CASE Keeps(t, h, order)
  <2>1. /\ order \in Seq(Items) /\ AppOrder(t) = order /\ t.head # NULL
        /\ UniqueKeys(order) /\ Len(order) \in Nat \ {0}
        /\ DOMAIN order = 1 .. Len(order)
    BY <1>1, KeepsLists DEF Keeps
  <2>2. order # <<>> /\ ~IsEmpty(t)
    BY <2>1 DEF IsEmpty
  <2> QED
    BY <1>1, <2>1, <2>2
<1>2. CASE order = <<>> /\ IsEmpty(t)
  <2>1. t.head = NULL
    BY <1>2 DEF IsEmpty
  <2>2. /\ order \in Seq(Items) /\ UniqueKeys(order) /\ Linked(order, t.next, t.prev)
        /\ NodeAt(order, 1) = NULL /\ Len(order) \in Nat /\ DOMAIN order = 1 .. Len(order)
    BY <1>2 DEF UniqueKeys, Linked, NodeAt
  <2>3. AppOrder(t) = order
    <3> HIDE <1>2
    <3>1. Follow(t.next, NodeAt(order, 1)) = order
      BY <2>2, FollowList
    <3> QED
      BY <2>1, <2>2, <3>1 DEF AppOrder
  <2> QED
    BY <1>2, <2>1, <2>2, <2>3
<1> QED
  BY <1>1, <1>2 DEF Holds

LEMMA FindHolds ==
  ASSUME NEW t, NEW h \in [Keys -> Nat], NEW order, Holds(t, h, order), NEW key \in Keys
  PROVE  /\ \A i \in DOMAIN order : KeyOf(order[i]) = key => Find(t, h, key) = order[i]
         /\ (\A i \in DOMAIN order : KeyOf(order[i]) # key) => Find(t, h, key) = NULL
<1>1. CASE Keeps(t, h, order)
  BY <1>1, FindKeeps
<1>2. CASE order = <<>> /\ IsEmpty(t)
  <2>1. t.head = NULL
    BY <1>2 DEF IsEmpty
  <2>2. Find(t, h, key) = NULL
    BY <2>1 DEF Find
  <2> QED
    BY <1>2, <2>2
<1> QED
  BY <1>1, <1>2 DEF Holds

(* HASH_ADD: the new item comes last.                                      *)
LEMMA AddKeeps ==
  ASSUME NEW t, NEW h \in [Keys -> Nat], NEW order, Holds(t, h, order),
         NEW x \in Items, \A k \in DOMAIN order : KeyOf(order[k]) # KeyOf(x)
  PROVE  Keeps(Add(t, h, x), h, Append(order, x))
<1>1. CASE Keeps(t, h, order)
  <2>1. t.head # NULL
    BY <1>1, KeepsLists
  <2>2. Add(t, h, x) = AddToTable(AppendList(t, x), h, x)
    BY <2>1 DEF Add
  <2> QED
    BY <1>1, <2>2, AddLastKeeps
<1>2. CASE order = <<>> /\ IsEmpty(t)
  <2>1. Add(t, h, x) = AddToTable(MakeTable(t, x), h, x)
    BY <1>2 DEF Add, IsEmpty
  <2>2. Append(order, x) = <<x>>
    BY <1>2
  <2>3. Keeps(AddToTable(MakeTable(t, x), h, x), h, <<x>>)
    BY <1>2, AddFirst
  <2> QED
    BY <2>1, <2>2, <2>3
<1> QED
  BY <1>1, <1>2 DEF Holds

(* Where HASH_ADD_INORDER puts an item in a list.                          *)
Place(order, x, greater) ==
  SelectInSeq(order, LAMBDA other : <<other, x>> \in greater)

PlacedIn(order, x, greater) ==
  IF Place(order, x, greater) = 0 THEN Append(order, x)
                                  ELSE InsertAt(order, Place(order, x, greater), x)

LEMMA PlaceInRange ==
  ASSUME NEW order \in Seq(Items), NEW x, NEW greater
  PROVE  /\ Place(order, x, greater) = 0 \/ Place(order, x, greater) \in 1 .. Len(order)
         /\ Len(order) = 0 => Place(order, x, greater) = 0
<1> DEFINE I == {i \in 1 .. Len(order) : <<order[i], x>> \in greater}
<1>1. Place(order, x, greater) = IF I # {} THEN Min(I) ELSE 0
  BY DEF Place, SelectInSeq
<1>2. I \subseteq Nat /\ I \subseteq 1 .. Len(order)
  OBVIOUS
<1>3. Len(order) = 0 => I = {}
  OBVIOUS
<1> HIDE DEF I
<1>4. ASSUME I # {} PROVE Min(I) \in I
  <2>1. PICK k \in I : \A y \in I : ~(y < k)
    BY <1>2, <1>4, LeastNumber
  <2>2. \A y \in I : k =< y
    BY <1>2, <2>1
  <2>3. \E k2 \in I : \A y \in I : k2 =< y
    BY <2>2
  <2> QED
    BY <2>3 DEF Min
<1> QED
  BY <1>1, <1>2, <1>3, <1>4

(* HASH_ADD_INORDER: the new item comes before the first greater one.      *)
LEMMA AddInOrderKeeps ==
  ASSUME NEW t, NEW h \in [Keys -> Nat], NEW order, Holds(t, h, order), NEW greater,
         NEW x \in Items, \A k \in DOMAIN order : KeyOf(order[k]) # KeyOf(x)
  PROVE  Keeps(AddInOrder(t, h, x, greater), h, PlacedIn(order, x, greater))
<1> DEFINE place == Place(order, x, greater)
<1>1. order \in Seq(Items) /\ AppOrder(t) = order
  BY HoldsLists
<1>2. /\ place = 0 \/ place \in DOMAIN order
      /\ order = <<>> => place = 0
  BY <1>1, PlaceInRange
<1>3. AddInOrder(t, h, x, greater) =
        AddToTable(CASE t.head = NULL -> MakeTable(t, x)
                     [] t.head # NULL /\ place # 0 -> InsertBefore(t, order[place], x)
                     [] OTHER -> AppendList(t, x), h, x)
  BY <1>1 DEF AddInOrder, Place
<1> HIDE DEF place
<1>4. PlacedIn(order, x, greater) =
        IF place = 0 THEN Append(order, x) ELSE InsertAt(order, place, x)
  BY DEF PlacedIn, place
<1>5. CASE Keeps(t, h, order) /\ place # 0
  <2>1. t.head # NULL
    BY <1>5, KeepsLists
  <2>2. AddInOrder(t, h, x, greater) = AddToTable(InsertBefore(t, order[place], x), h, x)
    BY <1>3, <1>5, <2>1
  <2>3. place \in DOMAIN order
    BY <1>2, <1>5
  <2>4. Keeps(AddToTable(InsertBefore(t, order[place], x), h, x), h,
              InsertAt(order, place, x))
    BY <1>5, <2>3, AddBeforeKeeps
  <2> QED
    BY <1>4, <1>5, <2>2, <2>4
<1>6. CASE Keeps(t, h, order) /\ place = 0
  <2>1. t.head # NULL
    BY <1>6, KeepsLists
  <2>2. AddInOrder(t, h, x, greater) = AddToTable(AppendList(t, x), h, x)
    BY <1>3, <1>6, <2>1
  <2> QED
    BY <1>4, <1>6, <2>2, AddLastKeeps
<1>7. CASE order = <<>> /\ IsEmpty(t)
  <2>1. AddInOrder(t, h, x, greater) = AddToTable(MakeTable(t, x), h, x)
    BY <1>3, <1>7 DEF IsEmpty
  <2>2. Append(order, x) = <<x>> /\ place = 0
    BY <1>2, <1>7
  <2>3. Keeps(AddToTable(MakeTable(t, x), h, x), h, <<x>>)
    BY <1>7, AddFirst
  <2> QED
    BY <1>4, <2>1, <2>2, <2>3
<1> QED
  BY <1>5, <1>6, <1>7 DEF Holds

(* HASH_DEL of an item and its free.                                       *)
LEMMA DeleteHolds ==
  ASSUME NEW t, NEW h \in [Keys -> Nat], NEW order, Keeps(t, h, order),
         NEW i \in DOMAIN order
  PROVE  Holds(Free(Delete(t, h, order[i]), order[i]), h, RemoveAt(order, i))
<1>1. order \in Seq(Items) /\ Len(order) \in Nat \ {0} /\ i \in 1 .. Len(order)
  BY KeepsLists
<1>2. CASE Len(order) > 1
  BY <1>2, DeleteKeeps DEF Holds
<1>3. CASE Len(order) = 1
  <2>1. i = 1 /\ RemoveAt(order, i) \in Seq(Items) /\ Len(RemoveAt(order, i)) = 0
    BY <1>1, <1>3, RemoveElements
  <2>2. RemoveAt(order, i) = <<>>
    BY <2>1
  <2>3. IsEmpty(Free(Delete(t, h, order[1]), order[1]))
    BY <1>3, DeleteEmpties
  <2> QED
    BY <2>1, <2>2, <2>3 DEF Holds
<1>4. \A n \in Nat \ {0} : n = 1 \/ n > 1
  OBVIOUS
<1> QED
  BY <1>1, <1>2, <1>3, <1>4

(* A list without the item of the key.                                     *)
PlaceOf(order, key) == CHOOSE i \in DOMAIN order : KeyOf(order[i]) = key

Without(order, key) ==
  IF \E i \in DOMAIN order : KeyOf(order[i]) = key
    THEN RemoveAt(order, PlaceOf(order, key)) ELSE order

LEMMA WithoutKeyHolds ==
  ASSUME NEW t, NEW h \in [Keys -> Nat], NEW order, Holds(t, h, order), NEW key \in Keys
  PROVE  /\ Holds(WithoutKey(t, h, key), h, Without(order, key))
         /\ \A i \in DOMAIN Without(order, key) : KeyOf(Without(order, key)[i]) # key
<1>1. /\ order \in Seq(Items) /\ UniqueKeys(order) /\ DOMAIN order = 1 .. Len(order)
      /\ Len(order) \in Nat
  BY HoldsLists
<1>2. /\ \A i \in DOMAIN order : KeyOf(order[i]) = key => Find(t, h, key) = order[i]
      /\ (\A i \in DOMAIN order : KeyOf(order[i]) # key) => Find(t, h, key) = NULL
  BY FindHolds
<1>3. CASE \A i \in DOMAIN order : KeyOf(order[i]) # key
  <2>1. WithoutKey(t, h, key) = t /\ Without(order, key) = order
    BY <1>2, <1>3 DEF WithoutKey, Without
  <2> QED
    BY <1>3, <2>1
<1>4. CASE \E i \in DOMAIN order : KeyOf(order[i]) = key
  <2> DEFINE i == PlaceOf(order, key)
             new == RemoveAt(order, i)
  <2>1. i \in DOMAIN order /\ KeyOf(order[i]) = key /\ Without(order, key) = new
    BY <1>4 DEF PlaceOf, Without
  <2> HIDE DEF i
  <2>2. order[i] \in Items /\ order[i] # NULL /\ order # <<>>
    BY <1>1, <2>1, TableAssumption
  <2>3. WithoutKey(t, h, key) = Free(Delete(t, h, order[i]), order[i])
    BY <1>2, <2>1, <2>2 DEF WithoutKey
  <2>4. Keeps(t, h, order)
    BY <2>2 DEF Holds
  <2>5. Holds(WithoutKey(t, h, key), h, new)
    BY <2>1, <2>3, <2>4, DeleteHolds
  <2>6. ASSUME NEW k \in DOMAIN new PROVE KeyOf(new[k]) # key
    <3>1. /\ new \in Seq(Items) /\ Len(new) = Len(order) - 1
          /\ \A l \in 1 .. Len(order) - 1 : new[l] = IF l < i THEN order[l] ELSE order[l + 1]
      BY <1>1, <2>1, RemoveElements
    <3> HIDE DEF new
    <3>2. k \in 1 .. Len(order) - 1
      BY <3>1
    <3>3. PICK l \in DOMAIN order : l # i /\ new[k] = order[l]
      BY <1>1, <2>1, <3>1, <3>2, SMTT(30)
    <3> QED
      BY <1>1, <2>1, <3>3 DEF UniqueKeys
  <2> QED
    BY <2>1, <2>5, <2>6
<1> QED
  BY <1>3, <1>4
-----------------------------------------------------------------------------
(* HASH_SRT with the comparison of ranks.                                  *)

Rank(item) == Ranks[KeyOf(item)]

(* The order that a stable sort by rank gives to a list.                   *)
Stably(list) ==
  {pair \in Items \X Items :
     \/ Rank(pair[1]) < Rank(pair[2])
     \/ /\ Rank(pair[1]) = Rank(pair[2])
        /\ \E i, j \in DOMAIN list : i < j /\ list[i] = pair[1] /\ list[j] = pair[2]}

LEMMA Ranked ==
  /\ \A x \in Items : Rank(x) \in Nat
  /\ \A x, y : <<x, y>> \in ByRank <=> x \in Items /\ y \in Items /\ Rank(x) > Rank(y)
<1>1. \A x \in Items : KeyOf(x) \in Keys
  BY DEF Items, KeyOf
<1>2. \A x, y : <<x, y>>[1] = x /\ <<x, y>>[2] = y
  OBVIOUS
<1> QED
  BY <1>1, <1>2, FunctionAssumption DEF Rank, ByRank

LEMMA StablyPairs ==
  ASSUME NEW list, NEW x, NEW y
  PROVE  <<x, y>> \in Stably(list) <=>
           /\ x \in Items /\ y \in Items
           /\ \/ Rank(x) < Rank(y)
              \/ /\ Rank(x) = Rank(y)
                 /\ \E i, j \in DOMAIN list : i < j /\ list[i] = x /\ list[j] = y
<1>1. <<x, y>>[1] = x /\ <<x, y>>[2] = y
  OBVIOUS
<1>2. <<x, y>> \in Items \X Items <=> x \in Items /\ y \in Items
  OBVIOUS
<1> QED
  BY <1>1, <1>2 DEF Stably

LEMMA StablyIsOrder ==
  ASSUME NEW list \in Seq(Items), Distinct(list)
  PROVE  /\ Transitive(Stably(list))
         /\ Decides(list, ByRank, Stably(list))
         /\ \A x, y : ~(<<x, y>> \in Stably(list) /\ <<y, x>> \in Stably(list))
<1> DEFINE Earlier(x, y) ==
             \E i, j \in DOMAIN list : i < j /\ list[i] = x /\ list[j] = y
           R == Stably(list)
<1>1. \A x, y : <<x, y>> \in R <=>
        /\ x \in Items /\ y \in Items
        /\ Rank(x) < Rank(y) \/ (Rank(x) = Rank(y) /\ Earlier(x, y))
  BY StablyPairs
<1>2. \A i \in DOMAIN list : i \in Nat /\ list[i] \in Items
  OBVIOUS
<1>3. \A x, y, z : Earlier(x, y) /\ Earlier(y, z) => Earlier(x, z)
  <2>1. ASSUME NEW x, NEW y, NEW z, Earlier(x, y), Earlier(y, z) PROVE Earlier(x, z)
    <3>1. PICK i, j \in DOMAIN list : i < j /\ list[i] = x /\ list[j] = y
      BY <2>1
    <3>2. PICK k, l \in DOMAIN list : k < l /\ list[k] = y /\ list[l] = z
      BY <2>1
    <3>3. j = k
      BY <3>1, <3>2 DEF Distinct
    <3>4. i < l
      BY <1>2, <3>1, <3>2, <3>3
    <3> QED
      BY <3>1, <3>2, <3>4
  <2> QED
    BY <2>1
<1>4. \A x, y : ~(Earlier(x, y) /\ Earlier(y, x))
  <2>1. ASSUME NEW x, Earlier(x, x) PROVE FALSE
    <3>1. PICK i, j \in DOMAIN list : i < j /\ list[i] = x /\ list[j] = x
      BY <2>1
    <3> QED
      BY <1>2, <3>1 DEF Distinct
  <2> HIDE DEF Earlier
  <2> QED
    BY <1>3, <2>1
<1>5. \A i, j \in DOMAIN list : i < j => Earlier(list[i], list[j])
  OBVIOUS
<1> HIDE DEF R, Earlier
<1>6. Transitive(R)
  <2>1. ASSUME NEW x, NEW y, NEW z, <<x, y>> \in R, <<y, z>> \in R PROVE <<x, z>> \in R
    <3>1. /\ x \in Items /\ y \in Items /\ z \in Items
          /\ Rank(x) < Rank(y) \/ (Rank(x) = Rank(y) /\ Earlier(x, y))
          /\ Rank(y) < Rank(z) \/ (Rank(y) = Rank(z) /\ Earlier(y, z))
      BY <1>1, <2>1
    <3>2. Rank(x) \in Nat /\ Rank(y) \in Nat /\ Rank(z) \in Nat
      BY <3>1, Ranked
    <3>3. Rank(x) < Rank(z) \/ (Rank(x) = Rank(z) /\ Earlier(x, z))
      BY <1>3, <3>1, <3>2
    <3> QED
      BY <1>1, <3>1, <3>3
  <2> QED
    BY <2>1 DEF Transitive
<1>7. Decides(list, ByRank, R)
  <2>1. ASSUME NEW i \in DOMAIN list, NEW j \in DOMAIN list, i < j
        PROVE  IF <<list[i], list[j]>> \in ByRank THEN <<list[j], list[i]>> \in R
                                                  ELSE <<list[i], list[j]>> \in R
    <3> DEFINE x == list[i]
               y == list[j]
    <3>1. /\ x \in Items /\ y \in Items /\ Earlier(x, y)
          /\ Rank(x) \in Nat /\ Rank(y) \in Nat
          /\ <<x, y>> \in ByRank <=> Rank(x) > Rank(y)
      BY <1>2, <1>5, <2>1, Ranked
    <3> HIDE DEF x, y
    <3>2. IF <<x, y>> \in ByRank THEN <<y, x>> \in R ELSE <<x, y>> \in R
      BY <1>1, <3>1
    <3> QED
      BY <3>2 DEF x, y
  <2> QED
    BY <2>1 DEF Decides
<1>8. ASSUME NEW x, NEW y, <<x, y>> \in R, <<y, x>> \in R PROVE FALSE
  <2>1. /\ x \in Items /\ y \in Items
        /\ Rank(x) < Rank(y) \/ (Rank(x) = Rank(y) /\ Earlier(x, y))
        /\ Rank(y) < Rank(x) \/ (Rank(y) = Rank(x) /\ Earlier(y, x))
    BY <1>1, <1>8
  <2>2. Rank(x) \in Nat /\ Rank(y) \in Nat
    BY <2>1, Ranked
  <2> QED
    BY <1>4, <2>1, <2>2
<1> QED
  BY <1>6, <1>7, <1>8 DEF R

LEMMA SortedList ==
  ASSUME NEW order \in Seq(Items), UniqueKeys(order),
         NEW list, list = SortList(order, ByRank)
  PROVE  /\ list \in Seq(Items) /\ Distinct(list) /\ UniqueKeys(list)
         /\ Len(list) = Len(order)
         /\ \A y : Has(list, y) <=> Has(order, y)
         /\ InOrder(list, Stably(order))
<1>1. Distinct(order)
  BY DEF Distinct, UniqueKeys
<1>2. Transitive(Stably(order)) /\ Decides(order, ByRank, Stably(order))
  BY <1>1, StablyIsOrder
<1>3. /\ list \in Seq(Items) /\ Distinct(list) /\ Len(list) = Len(order)
      /\ \A y : Has(list, y) <=> Has(order, y)
      /\ InOrder(list, Stably(order))
  BY <1>1, <1>2, SortListSorts
<1>4. UniqueKeys(list)
  <2>1. ASSUME NEW i \in DOMAIN list, NEW j \in DOMAIN list,
               KeyOf(list[i]) = KeyOf(list[j])
        PROVE  i = j
    <3>1. Has(order, list[i]) /\ Has(order, list[j])
      BY <1>3 DEF Has
    <3>2. PICK k \in DOMAIN order : order[k] = list[i]
      BY <3>1 DEF Has
    <3>3. PICK l \in DOMAIN order : order[l] = list[j]
      BY <3>1 DEF Has
    <3>4. k = l
      BY <2>1, <3>2, <3>3 DEF UniqueKeys
    <3> QED
      BY <1>3, <3>2, <3>3, <3>4 DEF Distinct
  <2> QED
    BY <2>1 DEF UniqueKeys
<1> QED
  BY <1>3, <1>4

LEMMA SortHolds ==
  ASSUME NEW t, NEW h \in [Keys -> Nat], NEW order, Holds(t, h, order)
  PROVE  \E list : /\ Holds(Sort(t, ByRank), h, list)
                   /\ list = IF order = <<>> THEN <<>> ELSE SortList(order, ByRank)
<1>1. CASE order = <<>> /\ IsEmpty(t)
  <2>1. Sort(t, ByRank) = t
    BY <1>1 DEF Sort, IsEmpty
  <2> QED
    BY <1>1, <2>1
<1>2. CASE Keeps(t, h, order)
  <2> DEFINE list == SortList(order, ByRank)
             u == Relink(t, list)
  <2>1. /\ order \in Seq(Items) /\ UniqueKeys(order) /\ AppOrder(t) = order
        /\ t.head # NULL /\ IsTable(t) /\ Bounded(t) /\ Len(order) \in Nat \ {0}
    BY <1>2, KeepsLists DEF Keeps
  <2>2. PICK chains : Represents(t, h, order, chains)
    BY <1>2 DEF Keeps
  <2>3. Sort(t, ByRank) = u
    BY <2>1 DEF Sort
  <2> HIDE DEF list
  <2>4. /\ list \in Seq(Items) /\ Distinct(list) /\ UniqueKeys(list)
        /\ Len(list) = Len(order)
        /\ \A y : Has(list, y) <=> Has(order, y)
    BY <2>1, SortedList DEF list
  <2>5. /\ Represents(u, h, list, chains) /\ SameLimits(t, u)
        /\ u.tbl.buckets = t.tbl.buckets
    BY <2>2, <2>4, RelinkKeepsTable
  <2> HIDE DEF u
  <2>6. Bounded(u)
    BY <2>1, <2>5 DEF Bounded, SameLimits, MaxChain
  <2>7. Keeps(u, h, list)
    BY <2>4, <2>5, <2>6 DEF Keeps
  <2>8. order # <<>>
    BY <2>1
  <2> QED
    BY <2>3, <2>7, <2>8 DEF Holds, list
<1> QED
  BY <1>1, <1>2 DEF Holds
-----------------------------------------------------------------------------
(* The program's table.                                                    *)

HasKey(order, key) == \E i \in DOMAIN order : KeyOf(order[i]) = key

(* clear_hash is at the first item, and knows the second one.              *)
AtFirst ==
  IF current = NULL THEN tmp = NULL
  ELSE current = table.head /\ tmp = NodeAt(AppOrder(table), 2)

IInv ==
  /\ hash \in HashFunctions
  /\ Holds(table, hash, AppOrder(table))
  /\ AtFirst

LEMMA EmptyHolds == \A h : Holds(EmptyTable, h, <<>>)
<1>1. Unlinked \in Links
  BY DEF Unlinked, Links
<1>2. IsEmpty(EmptyTable)
  BY <1>1 DEF IsEmpty, EmptyTable
<1> QED
  BY <1>2 DEF Holds

LEMMA FindTells ==
  ASSUME NEW t, NEW h \in [Keys -> Nat], NEW order, Holds(t, h, order), NEW key \in Keys
  PROVE  /\ Find(t, h, key) = NULL <=> ~HasKey(order, key)
         /\ Find(t, h, key) # NULL =>
              \E i \in DOMAIN order : KeyOf(order[i]) = key /\ Find(t, h, key) = order[i]
<1>1. /\ \A i \in DOMAIN order : KeyOf(order[i]) = key => Find(t, h, key) = order[i]
      /\ (\A i \in DOMAIN order : KeyOf(order[i]) # key) => Find(t, h, key) = NULL
  BY FindHolds
<1>2. \A i \in DOMAIN order : order[i] # NULL
  <2>1. order \in Seq(Items)
    BY HoldsLists
  <2> QED
    BY <2>1, TableAssumption
<1> QED
  BY <1>1, <1>2 DEF HasKey

LEMMA KeyOfItem ==
  ASSUME NEW key \in Keys, NEW value \in Values
  PROVE  <<key, value>> \in Items /\ KeyOf(<<key, value>>) = key
                                  /\ ValueOf(<<key, value>>) = value
BY DEF Items, KeyOf, ValueOf

LEMMA HashIsFunction == IInv => hash \in [Keys -> Nat]
BY FunctionAssumption DEF IInv

(* The application order after add_to_hash, and after the other ways to    *)
(* add an item.                                                            *)
LEMMA AddToHashOrder ==
  ASSUME IInv, NEW key \in Keys, NEW value \in Values, AddToHash(key, value)
  PROVE  Holds(table', hash, IF HasKey(AppOrder(table), key) THEN AppOrder(table)
                             ELSE Append(AppOrder(table), <<key, value>>))
<1> DEFINE order == AppOrder(table)
           x == <<key, value>>
<1>1. Holds(table, hash, order) /\ hash \in [Keys -> Nat]
  BY HashIsFunction DEF IInv
<1>2. x \in Items /\ KeyOf(x) = key
  BY KeyOfItem
<1>3. table' = IF Find(table, hash, key) = NULL THEN Add(table, hash, x) ELSE table
  BY DEF AddToHash
<1> HIDE DEF order, x
<1>4. CASE HasKey(order, key)
  <2>1. table' = table
    BY <1>1, <1>3, <1>4, FindTells
  <2> QED
    BY <1>1, <1>4, <2>1 DEF order
<1>5. CASE ~HasKey(order, key)
  <2>1. table' = Add(table, hash, x)
    BY <1>1, <1>3, <1>5, FindTells
  <2>2. \A k \in DOMAIN order : KeyOf(order[k]) # KeyOf(x)
    BY <1>2, <1>5 DEF HasKey
  <2>3. Keeps(Add(table, hash, x), hash, Append(order, x))
    BY <1>1, <1>2, <2>2, AddKeeps
  <2> QED
    BY <1>5, <2>1, <2>3 DEF Holds, order, x
<1> QED
  BY <1>4, <1>5

LEMMA InOrderOrder ==
  ASSUME IInv, NEW key \in Keys, NEW value \in Values, UseInOrder(key, value)
  PROVE  /\ Holds(table', hash, PlacedIn(AppOrder(table), <<key, value>>, ByRank))
         /\ ~HasKey(AppOrder(table), key)
<1> DEFINE order == AppOrder(table)
           x == <<key, value>>
<1>1. Holds(table, hash, order) /\ hash \in [Keys -> Nat]
  BY HashIsFunction DEF IInv
<1>2. x \in Items /\ KeyOf(x) = key
  BY KeyOfItem
<1>3. /\ Find(table, hash, key) = NULL
      /\ table' = AddInOrder(table, hash, x, ByRank)
  BY DEF UseInOrder
<1> HIDE DEF order, x
<1>4. ~HasKey(order, key)
  BY <1>1, <1>3, FindTells
<1>5. \A k \in DOMAIN order : KeyOf(order[k]) # KeyOf(x)
  BY <1>2, <1>4 DEF HasKey
<1>6. Keeps(AddInOrder(table, hash, x, ByRank), hash, PlacedIn(order, x, ByRank))
  BY <1>1, <1>2, <1>5, AddInOrderKeeps
<1> QED
  BY <1>3, <1>4, <1>6 DEF Holds, order, x

LEMMA ReplaceOrder ==
  ASSUME IInv, NEW key \in Keys, NEW value \in Values, UseReplace(key, value)
  PROVE  LET others == Without(AppOrder(table), key)
         IN \/ Holds(table', hash, Append(others, <<key, value>>))
            \/ Holds(table', hash, PlacedIn(others, <<key, value>>, ByRank))
<1> DEFINE order == AppOrder(table)
           others == Without(order, key)
           x == <<key, value>>
           t == WithoutKey(table, hash, key)
<1>1. Holds(table, hash, order) /\ hash \in [Keys -> Nat]
  BY HashIsFunction DEF IInv
<1>2. x \in Items /\ KeyOf(x) = key
  BY KeyOfItem
<1>3. table' = Replace(table, hash, x) \/ table' = ReplaceInOrder(table, hash, x, ByRank)
  BY DEF UseReplace
<1> HIDE DEF order, x
<1>4. Holds(t, hash, others) /\ \A i \in DOMAIN others : KeyOf(others[i]) # key
  BY <1>1, WithoutKeyHolds
<1>5. table' = Add(t, hash, x) \/ table' = AddInOrder(t, hash, x, ByRank)
  BY <1>2, <1>3 DEF Replace, ReplaceInOrder
<1> HIDE DEF others, t
<1>6. Keeps(Add(t, hash, x), hash, Append(others, x))
  BY <1>1, <1>2, <1>4, AddKeeps
<1>7. Keeps(AddInOrder(t, hash, x, ByRank), hash, PlacedIn(others, x, ByRank))
  BY <1>1, <1>2, <1>4, AddInOrderKeeps
<1>8. Holds(table', hash, Append(others, x))
      \/ Holds(table', hash, PlacedIn(others, x, ByRank))
  BY <1>5, <1>6, <1>7 DEF Holds
<1> QED
  BY <1>8 DEF others, order, x

LEMMA DeleteFromHashOrder ==
  ASSUME IInv, NEW key \in Keys, DeleteFromHash(key)
  PROVE  /\ HasKey(AppOrder(table), key)
         /\ Holds(table', hash, Without(AppOrder(table), key))
<1> DEFINE order == AppOrder(table)
<1>1. Holds(table, hash, order) /\ hash \in [Keys -> Nat]
  BY HashIsFunction DEF IInv
<1>2. /\ Find(table, hash, key) # NULL
      /\ table' = Free(Delete(table, hash, Find(table, hash, key)), Find(table, hash, key))
  BY DEF DeleteFromHash
<1>3. table' = WithoutKey(table, hash, key)
  BY <1>2 DEF WithoutKey
<1> HIDE DEF order
<1>4. HasKey(order, key)
  BY <1>1, <1>2, FindTells
<1>5. Holds(table', hash, Without(order, key))
  BY <1>1, <1>3, WithoutKeyHolds
<1> QED
  BY <1>4, <1>5 DEF order

(* A round of clear_hash takes the first item, and the next round is at    *)
(* the one that comes first then.                                          *)
LEMMA ClearOneOrder ==
  ASSUME IInv, ClearOne
  PROVE  /\ AppOrder(table) # <<>>
         /\ Holds(table', hash, RemoveAt(AppOrder(table), 1))
         /\ current' = NodeAt(RemoveAt(AppOrder(table), 1), 1)
         /\ current' # NULL => table'.head = current'
         /\ tmp' = NodeAt(RemoveAt(AppOrder(table), 1), 2)
         /\ tmp = NULL => RemoveAt(AppOrder(table), 1) = <<>>
<1> DEFINE order == AppOrder(table)
           rest == RemoveAt(order, 1)
<1>1. /\ Holds(table, hash, order) /\ hash \in [Keys -> Nat]
      /\ current # NULL /\ current = table.head /\ tmp = NodeAt(order, 2)
      /\ table' = Free(Delete(table, hash, current), current)
      /\ current' = tmp /\ tmp' = IF tmp = NULL THEN NULL ELSE table'.next[tmp]
  BY HashIsFunction DEF IInv, AtFirst, ClearOne
<1> HIDE DEF order
<1>2. Keeps(table, hash, order)
  BY <1>1, HoldsLists
<1>3. /\ order \in Seq(Items) /\ Len(order) \in Nat \ {0} /\ current = order[1]
      /\ DOMAIN order = 1 .. Len(order) /\ 1 \in DOMAIN order
  BY <1>1, <1>2, KeepsLists
<1>4. Holds(table', hash, rest)
  BY <1>1, <1>2, <1>3, DeleteHolds
<1>5. /\ rest \in Seq(Items) /\ Len(rest) = Len(order) - 1
      /\ DOMAIN rest = 1 .. Len(order) - 1
      /\ \A k \in 1 .. Len(order) - 1 : rest[k] = order[k + 1]
  <2>1. 1 \in 1 .. Len(order)
    BY <1>3
  <2>2. /\ rest \in Seq(Items) /\ Len(rest) = Len(order) - 1
        /\ \A k \in 1 .. Len(order) - 1 :
             rest[k] = IF k < 1 THEN order[k] ELSE order[k + 1]
    BY <1>3, <2>1, RemoveElements
  <2> HIDE DEF rest
  <2>3. \A k \in 1 .. Len(order) - 1 : ~(k < 1)
    BY <1>3
  <2> QED
    BY <2>2, <2>3
<1> HIDE DEF rest
<1>6. tmp = NodeAt(rest, 1)
  <2>1. 2 \in DOMAIN order <=> 1 \in DOMAIN rest
    BY <1>3, <1>5
  <2>2. 1 \in DOMAIN rest => rest[1] = order[2]
    BY <1>5
  <2> QED
    BY <1>1, <2>1, <2>2 DEF NodeAt
<1>7. \A k \in DOMAIN rest : rest[k] \in Items /\ rest[k] # NULL
  BY <1>5, TableAssumption
<1>8. CASE 1 \in DOMAIN rest
  <2>1. Keeps(table', hash, rest)
    <3>1. rest # <<>>
      BY <1>8
    <3> QED
      BY <1>4, <3>1 DEF Holds
  <2>2. tmp = rest[1] /\ tmp # NULL
    BY <1>6, <1>7, <1>8 DEF NodeAt
  <2>3. /\ table'.head = rest[1]
        /\ \A i \in DOMAIN rest : table'.next[rest[i]] = NodeAt(rest, i + 1)
    BY <2>1, KeepsLists DEF OrderIs, Linked
  <2>4. tmp' = NodeAt(rest, 2)
    BY <1>1, <1>8, <2>2, <2>3
  <2> QED
    BY <1>1, <1>3, <1>4, <1>6, <2>2, <2>3, <2>4 DEF order, rest
<1>9. CASE 1 \notin DOMAIN rest
  <2>1. 2 \notin DOMAIN rest /\ Len(rest) = 0
    BY <1>3, <1>5, <1>9
  <2>2. tmp = NULL /\ NodeAt(rest, 2) = NULL
    BY <1>6, <1>9, <2>1 DEF NodeAt
  <2>3. rest = <<>>
    BY <1>5, <2>1
  <2>4. /\ order # <<>> /\ current' = NodeAt(rest, 1) /\ current' = NULL
        /\ tmp' = NodeAt(rest, 2)
    BY <1>1, <1>3, <1>6, <2>2
  <2> QED
    BY <1>4, <2>3, <2>4 DEF order, rest
<1> QED
  BY <1>8, <1>9

LEMMA SortOrder ==
  ASSUME IInv, UseSort
  PROVE  Holds(table', hash, IF AppOrder(table) = <<>> THEN <<>>
                             ELSE SortList(AppOrder(table), ByRank))
<1> DEFINE order == AppOrder(table)
<1>1. Holds(table, hash, order) /\ hash \in [Keys -> Nat]
  BY HashIsFunction DEF IInv
<1>2. table' = Sort(table, ByRank)
  BY DEF UseSort
<1> HIDE DEF order
<1>3. Holds(table', hash, IF order = <<>> THEN <<>> ELSE SortList(order, ByRank))
  BY <1>1, <1>2, SortHolds
<1> QED
  BY <1>3 DEF order

LEMMA ClearOrder ==
  ASSUME IInv, UseClear
  PROVE  Holds(table', hash, <<>>)
<1> DEFINE order == AppOrder(table)
<1>1. Holds(table, hash, order)
  BY DEF IInv
<1>2. table' = IF table.head = NULL THEN table ELSE EmptyTable
  BY DEF UseClear, Clear
<1> HIDE DEF order
<1>3. CASE table.head = NULL
  BY <1>1, <1>2, <1>3, HoldsLists
<1>4. CASE table.head # NULL
  BY <1>2, <1>4, EmptyHolds
<1> QED
  BY <1>3, <1>4
-----------------------------------------------------------------------------
(* The invariant.                                                          *)

LEMMA InitHolds == Init => IInv
<1> SUFFICES ASSUME Init PROVE IInv
  OBVIOUS
<1>1. hash \in HashFunctions /\ table = EmptyTable /\ current = NULL /\ tmp = NULL
  BY DEF Init
<1>2. Holds(table, hash, <<>>)
  BY <1>1, EmptyHolds
<1>3. Holds(table, hash, AppOrder(table))
  BY <1>2, HoldsLists
<1> QED
  BY <1>1, <1>3 DEF IInv, AtFirst

(* An operation that leaves the table whole while clear_hash is not at it. *)
LEMMA IdleKeeps ==
  ASSUME IInv, Idle, UNCHANGED <<hash, current, tmp>>,
         NEW order, Holds(table', hash, order)
  PROVE  IInv'
<1>1. AppOrder(table') = order
  BY HoldsLists
<1>2. Holds(table', hash', AppOrder(table'))
  BY <1>1
<1>3. AtFirst'
  BY DEF IInv, AtFirst, Idle
<1>4. hash' \in HashFunctions
  BY DEF IInv
<1> QED
  BY <1>2, <1>3, <1>4 DEF IInv

LEMMA StartClearKeeps == IInv /\ StartClear => IInv'
<1> SUFFICES ASSUME IInv, StartClear PROVE IInv'
  OBVIOUS
<1> DEFINE order == AppOrder(table)
<1>1. /\ Holds(table, hash, order) /\ hash \in HashFunctions
      /\ table.head # NULL
      /\ current' = table.head /\ tmp' = table.next[table.head]
      /\ hash' = hash /\ table' = table
  BY DEF IInv, StartClear
<1> HIDE DEF order
<1>2. Keeps(table, hash, order)
  BY <1>1, HoldsLists
<1>3. /\ table.head = order[1] /\ 1 \in DOMAIN order
      /\ \A i \in DOMAIN order : table.next[order[i]] = NodeAt(order, i + 1)
  BY <1>2, KeepsLists DEF OrderIs, Linked
<1>4. tmp' = NodeAt(order, 2)
  BY <1>1, <1>3
<1>5. AtFirst'
  BY <1>1, <1>4 DEF AtFirst, order
<1>6. Holds(table', hash', AppOrder(table'))
  BY <1>1 DEF order
<1> QED
  BY <1>1, <1>5, <1>6 DEF IInv

LEMMA ClearOneKeeps == IInv /\ ClearOne => IInv'
<1> SUFFICES ASSUME IInv, ClearOne PROVE IInv'
  OBVIOUS
<1> DEFINE rest == RemoveAt(AppOrder(table), 1)
<1>1. /\ Holds(table', hash, rest) /\ current' = NodeAt(rest, 1)
      /\ current' # NULL => table'.head = current'
      /\ tmp' = NodeAt(rest, 2)
  BY ClearOneOrder
<1> HIDE DEF rest
<1>2. AppOrder(table') = rest /\ DOMAIN rest = 1 .. Len(rest) /\ rest \in Seq(Items)
      /\ Len(rest) \in Nat
  BY <1>1, HoldsLists
<1>3. hash' = hash /\ hash \in HashFunctions
  BY DEF IInv, ClearOne
<1>4. AtFirst'
  <2>1. CASE current' = NULL
    <3>1. 1 \notin DOMAIN rest
      BY <1>1, <1>2, <2>1, TableAssumption DEF NodeAt
    <3>2. 2 \notin DOMAIN rest
      BY <1>2, <3>1
    <3> QED
      BY <1>1, <2>1, <3>2 DEF AtFirst, NodeAt
  <2>2. CASE current' # NULL
    BY <1>1, <1>2, <2>2 DEF AtFirst
  <2> QED
    BY <2>1, <2>2
<1>5. Holds(table', hash', AppOrder(table'))
  BY <1>1, <1>2, <1>3
<1> QED
  BY <1>3, <1>4, <1>5 DEF IInv

LEMMA NextHolds == IInv /\ [Next]_vars => IInv'
<1> SUFFICES ASSUME IInv, [Next]_vars PROVE IInv'
  OBVIOUS
<1>1. ASSUME NEW key \in Keys, NEW value \in Values, AddToHash(key, value) PROVE IInv'
  <2>1. Idle /\ UNCHANGED <<hash, current, tmp>>
    BY <1>1 DEF AddToHash, MayAdd
  <2> QED
    BY <1>1, <2>1, AddToHashOrder, IdleKeeps
<1>2. ASSUME NEW key \in Keys, NEW value \in Values, UseInOrder(key, value) PROVE IInv'
  <2>1. Idle /\ UNCHANGED <<hash, current, tmp>>
    BY <1>2 DEF UseInOrder, MayAdd
  <2> QED
    BY <1>2, <2>1, InOrderOrder, IdleKeeps
<1>3. ASSUME NEW key \in Keys, NEW value \in Values, UseReplace(key, value) PROVE IInv'
  <2>1. Idle /\ UNCHANGED <<hash, current, tmp>>
    BY <1>3 DEF UseReplace, MayAdd
  <2>2. \E order : Holds(table', hash, order)
    BY <1>3, ReplaceOrder
  <2> QED
    BY <2>1, <2>2, IdleKeeps
<1>4. ASSUME NEW key \in Keys, DeleteFromHash(key) PROVE IInv'
  <2>1. Idle /\ UNCHANGED <<hash, current, tmp>>
    BY <1>4 DEF DeleteFromHash
  <2> QED
    BY <1>4, <2>1, DeleteFromHashOrder, IdleKeeps
<1>5. CASE UseSort
  <2>1. Idle /\ UNCHANGED <<hash, current, tmp>>
    BY <1>5 DEF UseSort
  <2> QED
    BY <1>5, <2>1, SortOrder, IdleKeeps
<1>6. CASE UseClear
  <2>1. Idle /\ UNCHANGED <<hash, current, tmp>>
    BY <1>6 DEF UseClear
  <2> QED
    BY <1>6, <2>1, ClearOrder, IdleKeeps
<1>7. CASE UNCHANGED vars
  <2>1. table' = table /\ hash' = hash /\ current' = current /\ tmp' = tmp
    BY <1>7 DEF vars
  <2>2. Holds(table', hash', AppOrder(table'))
    BY <2>1 DEF IInv
  <2> QED
    BY <2>1, <2>2 DEF IInv, AtFirst
<1> QED
  BY <1>1, <1>2, <1>3, <1>4, <1>5, <1>6, <1>7, StartClearKeeps, ClearOneKeeps DEF Next

(* The table always is what its lists, its chains and the walk of          *)
(* clear_hash say it is.                                                   *)
THEOREM TableInvariant == Spec => []IInv
<1>1. Init => IInv
  BY InitHolds
<1>2. IInv /\ [Next]_vars => IInv'
  BY NextHolds
<1> QED
  BY <1>1, <1>2, PTL DEF Spec

(* No chain gets longer than its bucket's bound, unless expansion is       *)
(* inhibited: what the comment of HASH_EXPAND_BUCKETS promises.            *)
THEOREM ChainsAreBounded == Spec => []ChainsBounded
<1>1. IInv => ChainsBounded
  <2> SUFFICES ASSUME IInv, table.head # NULL PROVE Bounded(table)
    BY DEF ChainsBounded
  <2>1. Holds(table, hash, AppOrder(table))
    BY DEF IInv
  <2>2. Keeps(table, hash, AppOrder(table))
    BY <2>1, HoldsLists
  <2> QED
    BY <2>2 DEF Keeps
<1> QED
  BY <1>1, TableInvariant, PTL

(* What HASH_FSCK checks, and the lists that a walk along the pointers     *)
(* finds.                                                                  *)
LEMMA HungIsIntact ==
  ASSUME NEW t, NEW h \in [Keys -> Nat], NEW order, UniqueKeys(order),
         Linked(order, t.next, t.prev), t.head = NodeAt(order, 1),
         t.tbl.num_items = Len(order), NEW chains, Hung(t, h, order, chains)
  PROVE  /\ Fsck(t) /\ AppOrder(t) = order
         /\ Hung(t, h, order, Chains(t))
<1>1. order \in Seq(Items) /\ IsTable(t) /\ Distinct(order)
  BY DEF Linked, Hung, Distinct
<1>2. AppOrder(t) = order
  BY FollowList DEF AppOrder
<1>3. /\ ChainsAre(t, h, chains) /\ DOMAIN chains = 0 .. t.tbl.num_buckets - 1
      /\ DOMAIN t.tbl.buckets = 0 .. t.tbl.num_buckets - 1
      /\ \A b \in DOMAIN chains : UniqueKeys(chains[b])
  BY <1>1, ChainsUnique DEF Hung, ChainsAre, IsTable
<1>4. ASSUME NEW b \in DOMAIN chains PROVE Chain(t, b) = chains[b]
  <2>1. UniqueKeys(chains[b]) /\ ChainsAre(t, h, chains)
    BY <1>3
  <2> QED
    BY <2>1, ChainFollowed
<1>5. /\ DOMAIN Chains(t) = DOMAIN chains
      /\ \A b \in DOMAIN chains : Chains(t)[b] = chains[b]
  BY <1>3, <1>4 DEF Chains
<1>6. ASSUME NEW list, NEW next, NEW prev, Linked(list, next, prev)
      PROVE  BackLinked(list, prev)
  <2>1. list \in Seq(Items) /\ \A i \in DOMAIN list : prev[list[i]] = NodeAt(list, i - 1)
    BY <1>6 DEF Linked
  <2>2. \A i \in DOMAIN list :
          NodeAt(list, i - 1) = IF i = 1 THEN NULL ELSE list[i - 1]
    BY <2>1 DEF NodeAt
  <2> QED
    BY <2>1, <2>2 DEF BackLinked
<1>7. ASSUME NEW b \in DOMAIN chains
      PROVE  /\ BackLinked(Chain(t, b), t.hh_prev)
             /\ t.tbl.buckets[b].count = Len(Chain(t, b))
  BY <1>3, <1>4, <1>6 DEF ChainsAre, ChainIs
<1>8. Len(AllItems(t)) = t.tbl.num_items
  BY <1>1, <1>3, AllItemsAreOrder
<1>9. BackLinked(AppOrder(t), t.prev) /\ Len(AppOrder(t)) = t.tbl.num_items
  BY <1>2, <1>6
<1>10. Fsck(t)
  BY <1>3, <1>7, <1>8, <1>9 DEF Fsck
<1>11. ChainsAre(t, h, Chains(t))
  BY <1>3, <1>5 DEF ChainsAre
<1>12. \A item \in Items :
         Has(order, item) <=> Has(Chains(t)[ToBkt(t, h[KeyOf(item)])], item)
  <2>1. ASSUME NEW item \in Items PROVE ToBkt(t, h[KeyOf(item)]) \in DOMAIN chains
    BY <1>1, <1>3, BktInRange
  <2> QED
    BY <1>5, <2>1 DEF Hung
<1>13. Hung(t, h, order, Chains(t))
  BY <1>1, <1>11, <1>12 DEF Hung
<1> QED
  BY <1>2, <1>10, <1>13

LEMMA KeepsIsIntact ==
  ASSUME NEW t, NEW h \in [Keys -> Nat], NEW order, Keeps(t, h, order)
  PROVE  Fsck(t) /\ Represents(t, h, order, Chains(t))
<1>1. PICK chains : Represents(t, h, order, chains)
  BY DEF Keeps
<1>2. /\ OrderIs(t, order) /\ t.tbl.num_items = Len(order) /\ UniqueKeys(order)
      /\ Linked(order, t.next, t.prev) /\ t.head = NodeAt(order, 1)
  <2>1. /\ OrderIs(t, order) /\ t.tbl.num_items = Len(order)
        /\ Len(order) \in Nat \ {0} /\ DOMAIN order = 1 .. Len(order)
        /\ t.head = order[1]
    BY KeepsLists
  <2>2. t.head = NodeAt(order, 1)
    BY <2>1 DEF NodeAt
  <2> QED
    BY <2>1, <2>2 DEF Keeps, OrderIs
<1>3. Hung(t, h, order, chains)
  BY <1>1 DEF Represents, Hung
<1>4. Fsck(t) /\ Hung(t, h, order, Chains(t))
  BY <1>2, <1>3, HungIsIntact
<1> QED
  BY <1>2, <1>4 DEF Hung, Represents

(* After every operation HASH_FSCK would pass, each item is found, and the *)
(* walk of clear_hash is at items that are in the table.                   *)
THEOREM TableIsIntact == Spec => []Intact
<1>1. IInv => Intact
  <2> SUFFICES ASSUME IInv PROVE Intact
    OBVIOUS
  <2> DEFINE order == AppOrder(table)
  <2>1. Holds(table, hash, order) /\ hash \in [Keys -> Nat] /\ AtFirst
    BY HashIsFunction DEF IInv
  <2>2. CASE table.head = NULL
    <3>1. Fsck(table)
      BY <2>2 DEF Fsck
    <3>2. order = <<>>
      <4> HIDE DEF order
      <4> QED
        BY <2>1, <2>2, HoldsLists
    <3>3. current = NULL /\ tmp = NULL
      BY <2>1, <2>2, <3>2 DEF AtFirst, NodeAt
    <3> QED
      BY <2>2, <3>1, <3>3 DEF Intact
  <2>3. CASE table.head # NULL
    <3> HIDE DEF order
    <3>1. Keeps(table, hash, order)
      BY <2>1, <2>3, HoldsLists
    <3>2. Fsck(table) /\ Represents(table, hash, order, Chains(table))
      BY <2>1, <3>1, KeepsIsIntact
    <3>3. /\ order \in Seq(Items) /\ table.head = order[1]
          /\ Members(table) = {y \in Items : Has(order, y)}
          /\ 1 \in DOMAIN order
      BY <3>1, KeepsLists
    <3>4. {current, tmp} \subseteq Members(table) \cup {NULL}
      <4>1. current = NULL \/ current = order[1]
        BY <2>1, <3>3 DEF AtFirst
      <4>2. tmp = NULL \/ (2 \in DOMAIN order /\ tmp = order[2])
        BY <2>1 DEF AtFirst, NodeAt, order
      <4>3. \A i \in DOMAIN order : order[i] \in Members(table)
        BY <3>3 DEF Has
      <4> QED
        BY <3>3, <4>1, <4>2, <4>3
    <3>5. ASSUME NEW item \in Members(table)
          PROVE  Find(table, hash, KeyOf(item)) = item
      <4>1. PICK i \in DOMAIN order : order[i] = item
        BY <3>3 DEF Has
      <4>2. KeyOf(item) \in Keys
        BY <3>3 DEF Items, KeyOf
      <4> QED
        BY <2>1, <4>1, <4>2, FindHolds
    <3> QED
      BY <3>2, <3>4, <3>5 DEF Intact, order
  <2> QED
    BY <2>2, <2>3
<1> QED
  BY <1>1, TableInvariant, PTL
-----------------------------------------------------------------------------
(* What the callers see.                                                   *)

FoundIn(t, h) ==
  [key \in {k \in Keys : Find(t, h, k) # NULL} |-> ValueOf(Find(t, h, key))]

(* The function from the keys of a list to their values.                   *)
IsContents(f, order) ==
  /\ f = [key \in {k \in Keys : HasKey(order, k)} |-> f[key]]
  /\ \A i \in DOMAIN order : f[KeyOf(order[i])] = ValueOf(order[i])

LEMMA OneContents ==
  ASSUME NEW f, NEW g, NEW order, IsContents(f, order), IsContents(g, order)
  PROVE  f = g
<1>1. \A k \in {k \in Keys : HasKey(order, k)} : f[k] = g[k]
  BY DEF IsContents, HasKey
<1> QED
  BY <1>1 DEF IsContents

LEMMA FoundIsContents ==
  ASSUME NEW t, NEW h \in [Keys -> Nat], NEW order, Holds(t, h, order)
  PROVE  IsContents(FoundIn(t, h), order)
<1>1. \A k \in Keys : Find(t, h, k) # NULL <=> HasKey(order, k)
  BY FindTells
<1> DEFINE f == FoundIn(t, h)
           D == {k \in Keys : Find(t, h, k) # NULL}
<1>2. D = {k \in Keys : HasKey(order, k)}
  BY <1>1
<1>3. f = [key \in D |-> f[key]] /\ \A k \in D : f[k] = ValueOf(Find(t, h, k))
  BY DEF FoundIn
<1> HIDE DEF f
<1>4. ASSUME NEW i \in DOMAIN order PROVE f[KeyOf(order[i])] = ValueOf(order[i])
  <2>1. order[i] \in Items
    BY HoldsLists
  <2>2. KeyOf(order[i]) \in Keys /\ HasKey(order, KeyOf(order[i]))
    BY <2>1 DEF Items, KeyOf, HasKey
  <2>3. Find(t, h, KeyOf(order[i])) = order[i]
    BY <2>2, FindHolds
  <2> QED
    BY <1>2, <1>3, <2>2, <2>3
<1> QED
  BY <1>2, <1>3, <1>4 DEF IsContents, f

LEMMA AppendElements ==
  ASSUME NEW order \in Seq(Items), NEW x \in Items, NEW new, new = Append(order, x)
  PROVE  /\ \A i \in DOMAIN order : i \in DOMAIN new /\ new[i] = order[i]
         /\ \A i \in DOMAIN new : new[i] = x \/ (i \in DOMAIN order /\ new[i] = order[i])
         /\ Len(new) \in DOMAIN new /\ new[Len(new)] = x
  OBVIOUS

LEMMA ContentsAdded ==
  ASSUME NEW order \in Seq(Items), NEW f, IsContents(f, order),
         NEW key \in Keys, NEW value \in Values, ~HasKey(order, key),
         NEW g, g = [k \in DOMAIN f \cup {key} |-> IF k = key THEN value ELSE f[k]]
  PROVE  IsContents(g, Append(order, <<key, value>>))
<1> DEFINE x == <<key, value>>
           new == Append(order, x)
<1>1. x \in Items /\ KeyOf(x) = key /\ ValueOf(x) = value
  BY KeyOfItem
<1> HIDE DEF x
<1>2. /\ \A i \in DOMAIN order : i \in DOMAIN new /\ new[i] = order[i]
      /\ \A i \in DOMAIN new : new[i] = x \/ (i \in DOMAIN order /\ new[i] = order[i])
      /\ Len(new) \in DOMAIN new /\ new[Len(new)] = x
  BY <1>1, AppendElements
<1> HIDE DEF new
<1>3. \A k \in Keys : HasKey(new, k) <=> k = key \/ HasKey(order, k)
  <2>1. ASSUME NEW k \in Keys PROVE HasKey(new, k) => k = key \/ HasKey(order, k)
    BY <1>1, <1>2 DEF HasKey
  <2>2. ASSUME NEW k \in Keys PROVE k = key \/ HasKey(order, k) => HasKey(new, k)
    BY <1>1, <1>2 DEF HasKey
  <2> QED
    BY <2>1, <2>2
<1>4. DOMAIN f = {k \in Keys : HasKey(order, k)}
  BY DEF IsContents
<1>5. {k \in Keys : HasKey(new, k)} = DOMAIN f \cup {key}
  BY <1>3, <1>4
<1>6. g = [k \in {k \in Keys : HasKey(new, k)} |-> g[k]]
  BY <1>5
<1>7. ASSUME NEW i \in DOMAIN new PROVE g[KeyOf(new[i])] = ValueOf(new[i])
  <2>1. CASE new[i] = x
    BY <1>1, <2>1
  <2>2. CASE i \in DOMAIN order /\ new[i] = order[i]
    <3>1. f[KeyOf(order[i])] = ValueOf(order[i])
      BY <2>2 DEF IsContents
    <3>2. KeyOf(order[i]) # key
      BY <2>2 DEF HasKey
    <3>3. KeyOf(order[i]) \in DOMAIN f
      <4>1. order[i] \in Items
        BY <2>2
      <4> QED
        BY <1>4, <2>2, <4>1 DEF HasKey, Items, KeyOf
    <3> QED
      BY <2>2, <3>1, <3>2, <3>3
  <2> QED
    BY <1>2, <2>1, <2>2
<1>8. IsContents(g, new)
  BY <1>6, <1>7 DEF IsContents
<1> QED
  BY <1>8 DEF new, x

(* A list without a key has the other items.                               *)
LEMMA WithoutElements ==
  ASSUME NEW order \in Seq(Items), UniqueKeys(order), NEW key \in Keys,
         NEW new, new = Without(order, key)
  PROVE  /\ \A i \in DOMAIN new : \E k \in DOMAIN order :
              KeyOf(order[k]) # key /\ new[i] = order[k]
         /\ \A k \in DOMAIN order : KeyOf(order[k]) # key =>
              \E i \in DOMAIN new : new[i] = order[k]
<1>1. CASE HasKey(order, key)
  <2> DEFINE p == PlaceOf(order, key)
  <2>1. p \in 1 .. Len(order) /\ KeyOf(order[p]) = key /\ new = RemoveAt(order, p)
    BY <1>1 DEF HasKey, PlaceOf, Without
  <2> HIDE DEF p
  <2>2. /\ Len(new) = Len(order) - 1 /\ DOMAIN new = 1 .. Len(order) - 1
        /\ \A k \in 1 .. Len(order) - 1 : new[k] = IF k < p THEN order[k] ELSE order[k + 1]
    <3>1. /\ RemoveAt(order, p) \in Seq(Items) /\ Len(RemoveAt(order, p)) = Len(order) - 1
          /\ \A k \in 1 .. Len(order) - 1 :
               RemoveAt(order, p)[k] = IF k < p THEN order[k] ELSE order[k + 1]
      BY <2>1, RemoveElements
    <3> QED
      BY <2>1, <3>1
  <2>3. DOMAIN order = 1 .. Len(order) /\ Len(order) \in Nat
    OBVIOUS
  <2>4. \A k \in DOMAIN order : k # p => KeyOf(order[k]) # key
    BY <2>1, <2>3 DEF UniqueKeys
  <2>5. ASSUME NEW i \in DOMAIN new
        PROVE  \E k \in DOMAIN order : KeyOf(order[k]) # key /\ new[i] = order[k]
    <3>1. i \in DOMAIN order /\ i + 1 \in DOMAIN order
      BY <2>2, <2>3
    <3>2. CASE i < p
      BY <2>2, <2>3, <2>4, <3>1, <3>2
    <3>3. CASE ~(i < p)
      BY <2>1, <2>2, <2>3, <2>4, <3>1, <3>3
    <3> QED
      BY <3>2, <3>3
  <2>6. ASSUME NEW k \in DOMAIN order, KeyOf(order[k]) # key
        PROVE  \E i \in DOMAIN new : new[i] = order[k]
    <3>1. k # p
      BY <2>1, <2>6
    <3>2. CASE k < p
      BY <2>1, <2>2, <2>3, <3>2
    <3>3. CASE k > p
      <4>1. k - 1 \in DOMAIN new /\ ~(k - 1 < p) /\ k - 1 + 1 = k
        BY <2>1, <2>2, <2>3, <3>3
      <4> QED
        BY <2>2, <4>1
    <3> QED
      BY <2>1, <2>3, <3>1, <3>2, <3>3
  <2> QED
    BY <2>5, <2>6
<1>2. CASE ~HasKey(order, key)
  <2>1. new = order
    BY <1>2 DEF HasKey, Without
  <2> QED
    BY <1>2, <2>1 DEF HasKey
<1> QED
  BY <1>1, <1>2

LEMMA ContentsRemoved ==
  ASSUME NEW order \in Seq(Items), UniqueKeys(order), NEW f, IsContents(f, order),
         NEW key \in Keys, NEW g, g = [k \in DOMAIN f \ {key} |-> f[k]]
  PROVE  IsContents(g, Without(order, key))
<1> DEFINE new == Without(order, key)
<1>1. /\ \A i \in DOMAIN new : \E k \in DOMAIN order :
           KeyOf(order[k]) # key /\ new[i] = order[k]
      /\ \A k \in DOMAIN order : KeyOf(order[k]) # key =>
           \E i \in DOMAIN new : new[i] = order[k]
  BY WithoutElements
<1> HIDE DEF new
<1>2. DOMAIN f = {k \in Keys : HasKey(order, k)}
  BY DEF IsContents
<1>3. \A k \in Keys : HasKey(new, k) <=> k # key /\ HasKey(order, k)
  BY <1>1 DEF HasKey
<1>4. {k \in Keys : HasKey(new, k)} = DOMAIN f \ {key}
  BY <1>2, <1>3
<1>5. g = [k \in {k \in Keys : HasKey(new, k)} |-> g[k]]
  BY <1>4
<1>6. ASSUME NEW i \in DOMAIN new PROVE g[KeyOf(new[i])] = ValueOf(new[i])
  <2>1. PICK k \in DOMAIN order : KeyOf(order[k]) # key /\ new[i] = order[k]
    BY <1>1
  <2>2. f[KeyOf(order[k])] = ValueOf(order[k])
    BY DEF IsContents
  <2>3. KeyOf(order[k]) \in DOMAIN f
    <3>1. order[k] \in Items
      OBVIOUS
    <3> QED
      BY <1>2, <3>1 DEF HasKey, Items, KeyOf
  <2> QED
    BY <2>1, <2>2, <2>3
<1> QED
  BY <1>5, <1>6 DEF IsContents, new

(* To its callers the table is a function: add_to_hash and                 *)
(* delete_from_hash do what IntHash says, and clear_hash empties it.       *)
THEOREM TableIsFunction == Spec => IsTheFunctionOfIntHash
<1> DEFINE Acts ==
      /\ \A key \in Keys, value \in Values :
           AddToHash(key, value) =>
             Contents' = Function!AddToHash(Contents, key, value)
      /\ \A key \in Keys :
           DeleteFromHash(key) => Contents' = Function!DeleteFromHash(Contents, key)
      /\ (ClearOne /\ tmp = NULL) => Contents' = Function!EmptyHash
<1>1. IInv => Acts
  <2> SUFFICES ASSUME IInv PROVE Acts
    OBVIOUS
  <2> DEFINE order == AppOrder(table)
             f == FoundIn(table, hash)
             g == FoundIn(table', hash)
  <2>1. Holds(table, hash, order) /\ hash \in [Keys -> Nat]
    BY HashIsFunction DEF IInv
  <2>2. Contents = f
    BY DEF Contents, FoundIn
  <2>3. hash' = hash => Contents' = g
    BY DEF Contents, FoundIn
  <2> HIDE DEF f, g
  <2>4. order \in Seq(Items) /\ UniqueKeys(order) /\ IsContents(f, order)
    <3> HIDE DEF order
    <3> QED
      BY <2>1, HoldsLists, FoundIsContents DEF f
  <2>5. DOMAIN f = {k \in Keys : HasKey(order, k)}
    BY <2>4 DEF IsContents
  <2>6. \A list : Holds(table', hash, list) => IsContents(g, list)
    BY <2>1, FoundIsContents DEF g
  <2>7. ASSUME NEW key \in Keys, NEW value \in Values, AddToHash(key, value)
        PROVE  Contents' = Function!AddToHash(Contents, key, value)
    <3> DEFINE added == [k \in DOMAIN f \cup {key} |-> IF k = key THEN value ELSE f[k]]
    <3>1. hash' = hash
      BY <2>7 DEF AddToHash
    <3>2. Holds(table', hash, IF HasKey(order, key) THEN order
                              ELSE Append(order, <<key, value>>))
      BY <2>7, AddToHashOrder
    <3>3. Function!AddToHash(f, key, value) = IF key \in DOMAIN f THEN f ELSE added
      BY DEF Function!AddToHash, Function!InHash
    <3> HIDE DEF order, added
    <3>4. CASE HasKey(order, key)
      <4>1. g = f
        BY <2>4, <2>6, <3>2, <3>4, OneContents
      <4> QED
        BY <2>2, <2>3, <2>5, <3>1, <3>3, <3>4, <4>1
    <3>5. CASE ~HasKey(order, key)
      <4>1. IsContents(added, Append(order, <<key, value>>))
        BY <2>4, <3>5, ContentsAdded DEF added
      <4>2. g = added
        BY <2>6, <3>2, <3>5, <4>1, OneContents
      <4> QED
        BY <2>2, <2>3, <2>5, <3>1, <3>3, <3>5, <4>2
    <3> QED
      BY <3>4, <3>5
  <2>8. ASSUME NEW key \in Keys, DeleteFromHash(key)
        PROVE  Contents' = Function!DeleteFromHash(Contents, key)
    <3> DEFINE removed == [k \in DOMAIN f \ {key} |-> f[k]]
    <3>1. hash' = hash
      BY <2>8 DEF DeleteFromHash
    <3>2. Holds(table', hash, Without(order, key))
      BY <2>8, DeleteFromHashOrder
    <3>3. Function!DeleteFromHash(f, key) = removed
      BY DEF Function!DeleteFromHash, Function!Restrict
    <3> HIDE DEF order, removed
    <3>4. IsContents(removed, Without(order, key))
      BY <2>4, ContentsRemoved DEF removed
    <3>5. g = removed
      BY <2>6, <3>2, <3>4, OneContents
    <3> QED
      BY <2>2, <2>3, <3>1, <3>3, <3>5
  <2>9. ASSUME ClearOne, tmp = NULL PROVE Contents' = Function!EmptyHash
    <3>1. hash' = hash
      BY <2>9 DEF ClearOne
    <3>2. Holds(table', hash, <<>>)
      <4>1. Holds(table', hash, RemoveAt(order, 1)) /\ RemoveAt(order, 1) = <<>>
        BY <2>9, ClearOneOrder
      <4> QED
        BY <4>1
    <3>3. IsContents(Function!EmptyHash, <<>>)
      BY DEF Function!EmptyHash, IsContents, HasKey
    <3>4. g = Function!EmptyHash
      BY <2>6, <3>2, <3>3, OneContents
    <3> QED
      BY <2>3, <3>1, <3>4
  <2> QED
    BY <2>7, <2>8, <2>9
<1>2. IInv /\ [Next]_vars => [Acts]_vars
  BY <1>1
<1> QED
  BY <1>2, TableInvariant, PTL DEF Spec, IsTheFunctionOfIntHash
-----------------------------------------------------------------------------
(* The table implements OrderedHash.                                       *)

LEMMA OrderedTerms ==
  /\ \A key : Ordered!HasKey(key) <=> HasKey(AppOrder(table), key)
  /\ \A key : Ordered!Others(key) = Without(AppOrder(table), key)
  /\ \A seq, x : Ordered!Placed(seq, x) = PlacedIn(seq, x, ByRank)
<1>1. \A key : Ordered!HasKey(key) <=> HasKey(AppOrder(table), key)
  BY DEF Ordered!HasKey, Ordered!Key, HasKey, KeyOf
<1>2. \A seq, i : Ordered!RemoveAt(seq, i) = RemoveAt(seq, i)
  BY DEF Ordered!RemoveAt, RemoveAt
<1>3. \A key : Ordered!Others(key) = Without(AppOrder(table), key)
  BY <1>1, <1>2 DEF Ordered!Others, Without, PlaceOf, Ordered!Key, HasKey, KeyOf
<1>4. \A seq, x : Ordered!Placed(seq, x) = PlacedIn(seq, x, ByRank)
  <2>1. \A seq, i, x : Ordered!InsertAt(seq, i, x) = InsertAt(seq, i, x)
    BY DEF Ordered!InsertAt, InsertAt
  <2>2. ASSUME NEW seq, NEW x PROVE Ordered!Placed(seq, x) = PlacedIn(seq, x, ByRank)
    <3> DEFINE I == {i \in 1 .. Len(seq) : <<seq[i], x>> \in ByRank}
               place == IF I # {} THEN Min(I) ELSE 0
    <3>1. Place(seq, x, ByRank) = place
      BY DEF Place, SelectInSeq
    <3>2. Ordered!Min(I) = Min(I)
      BY DEF Ordered!Min, Min
    <3>3. Ordered!Placed(seq, x) = IF place = 0 THEN Append(seq, x)
                                   ELSE Ordered!InsertAt(seq, place, x)
      <4>1. Ordered!Placed(seq, x) =
              LET p == IF I # {} THEN Ordered!Min(I) ELSE 0
              IN IF p = 0 THEN Append(seq, x) ELSE Ordered!InsertAt(seq, p, x)
        BY DEF Ordered!Placed, Ordered!SelectInSeq
      <4> HIDE DEF I
      <4> QED
        BY <3>2, <4>1
    <3> HIDE DEF place
    <3> QED
      BY <2>1, <3>1, <3>3 DEF PlacedIn
  <2> QED
    BY <2>2
<1> QED
  BY <1>1, <1>3, <1>4

(* HASH_SRT is a stable sort.                                              *)
LEMMA SortIsStable ==
  ASSUME NEW order \in Seq(Items), UniqueKeys(order),
         NEW list, list = SortList(order, ByRank)
  PROVE  /\ Len(list) = Len(order) /\ ToSet(list) = ToSet(order)
         /\ \A i, j \in DOMAIN list : i < j => <<list[i], list[j]>> \notin ByRank
         /\ \A i, j \in DOMAIN order : i < j =>
              \/ <<order[i], order[j]>> \in ByRank
              \/ \E m, n \in DOMAIN list :
                   m < n /\ list[m] = order[i] /\ list[n] = order[j]
<1> DEFINE R == Stably(order)
<1>1. /\ list \in Seq(Items) /\ Distinct(list) /\ Len(list) = Len(order)
      /\ \A y : Has(list, y) <=> Has(order, y)
      /\ InOrder(list, R)
  BY SortedList
<1>2. /\ Decides(order, ByRank, R)
      /\ \A x, y : ~(<<x, y>> \in R /\ <<y, x>> \in R)
  <2>1. Distinct(order)
    BY DEF Distinct, UniqueKeys
  <2> QED
    BY <2>1, StablyIsOrder
<1>3. \A x, y : <<x, y>> \in R => Rank(x) <= Rank(y) /\ x \in Items /\ y \in Items
  <2>1. ASSUME NEW x, NEW y, <<x, y>> \in R
        PROVE  Rank(x) <= Rank(y) /\ x \in Items /\ y \in Items
    <3>1. x \in Items /\ y \in Items /\ (Rank(x) < Rank(y) \/ Rank(x) = Rank(y))
      BY <2>1, StablyPairs
    <3>2. Rank(x) \in Nat /\ Rank(y) \in Nat
      BY <3>1, Ranked
    <3> QED
      BY <3>1, <3>2
  <2> HIDE DEF R
  <2> QED
    BY <2>1
<1> HIDE DEF R
<1>4. ToSet(list) = ToSet(order)
  <2>1. \A y : y \in ToSet(list) <=> Has(list, y)
    BY DEF ToSet, Has
  <2>2. \A y : y \in ToSet(order) <=> Has(order, y)
    BY DEF ToSet, Has
  <2> QED
    BY <1>1, <2>1, <2>2
<1>5. ASSUME NEW i \in DOMAIN list, NEW j \in DOMAIN list, i < j
      PROVE  <<list[i], list[j]>> \notin ByRank
  <2> DEFINE x == list[i]
             y == list[j]
  <2>1. <<x, y>> \in R
    BY <1>1, <1>5 DEF InOrder
  <2>2. Rank(x) <= Rank(y) /\ Rank(x) \in Nat /\ Rank(y) \in Nat
    BY <1>3, <2>1, Ranked
  <2>3. <<x, y>> \in ByRank => Rank(x) > Rank(y)
    BY Ranked
  <2> HIDE DEF x, y
  <2>4. <<x, y>> \notin ByRank
    BY <2>2, <2>3
  <2> QED
    BY <2>4 DEF x, y
<1>6. ASSUME NEW i \in DOMAIN order, NEW j \in DOMAIN order, i < j,
             <<order[i], order[j]>> \notin ByRank
      PROVE  \E m, n \in DOMAIN list :
               m < n /\ list[m] = order[i] /\ list[n] = order[j]
  <2>1. <<order[i], order[j]>> \in R
    BY <1>2, <1>6 DEF Decides
  <2>2. Has(list, order[i]) /\ Has(list, order[j])
    BY <1>1 DEF Has
  <2>3. PICK m \in DOMAIN list : list[m] = order[i]
    BY <2>2 DEF Has
  <2>4. PICK n \in DOMAIN list : list[n] = order[j]
    BY <2>2 DEF Has
  <2>5. m # n
    BY <1>6, <2>3, <2>4 DEF UniqueKeys
  <2>6. ~(n < m)
    <3>1. n < m => <<order[j], order[i]>> \in R
      BY <1>1, <2>3, <2>4 DEF InOrder
    <3> QED
      BY <1>2, <2>1, <3>1
  <2>7. m \in Nat /\ n \in Nat
    BY <1>1
  <2>8. m < n
    BY <2>5, <2>6, <2>7
  <2> QED
    BY <2>3, <2>4, <2>8
<1> QED
  BY <1>1, <1>4, <1>5, <1>6

(* The first item is the one that goes with its key.                       *)
LEMMA WithoutFirst ==
  ASSUME NEW order \in Seq(Items), UniqueKeys(order), order # <<>>
  PROVE  /\ KeyOf(order[1]) \in Keys /\ HasKey(order, KeyOf(order[1]))
         /\ Without(order, KeyOf(order[1])) = RemoveAt(order, 1)
<1> DEFINE key == KeyOf(order[1])
<1>1. 1 \in DOMAIN order /\ order[1] \in Items
  OBVIOUS
<1>2. key \in Keys
  BY <1>1 DEF Items, KeyOf
<1>3. HasKey(order, key)
  BY <1>1 DEF HasKey
<1>4. \A i \in DOMAIN order : KeyOf(order[i]) = key => i = 1
  BY <1>1 DEF UniqueKeys
<1> HIDE DEF key
<1>5. PlaceOf(order, key) = 1
  BY <1>3, <1>4 DEF PlaceOf, HasKey
<1>6. Without(order, key) = RemoveAt(order, 1)
  BY <1>3, <1>5 DEF Without, HasKey
<1> QED
  BY <1>2, <1>3, <1>6 DEF key

(* A table is a sequence of items: each operation adds, takes or           *)
(* rearranges the items as OrderedHash says, and nothing else changes it.  *)
THEOREM TableIsSequence == Spec => ImplementsOrderedHash
<1> DEFINE order == AppOrder(table)
           after == AppOrder(table')
<1>1. Init => Ordered!Init
  <2> SUFFICES ASSUME Init PROVE AppOrder(table) = <<>>
    BY DEF Ordered!Init
  <2>1. Holds(table, hash, <<>>)
    BY EmptyHolds DEF Init
  <2> QED
    BY <2>1, HoldsLists
<1>2. IInv /\ [Next]_vars => [Ordered!Next]_(AppOrder(table))
  <2> SUFFICES ASSUME IInv, [Next]_vars PROVE Ordered!Next \/ after = order
    BY DEF Ordered!Next
  <2>1. /\ Holds(table, hash, order) /\ order \in Seq(Items) /\ UniqueKeys(order)
    <3>1. Holds(table, hash, order)
      BY DEF IInv
    <3> QED
      BY <3>1, HoldsLists
  <2>2. \A list : Holds(table', hash, list) => after = list
    BY HoldsLists
  <2> HIDE DEF order, after
  <2>3. ASSUME NEW key \in Keys, NEW value \in Values,
               ~HasKey(order, key),
               \/ after = Append(order, <<key, value>>)
               \/ after = PlacedIn(order, <<key, value>>, ByRank)
        PROVE  Ordered!Next
    <3> DEFINE x == <<key, value>>
    <3>1. x \in Keys \X Values /\ Ordered!Key(x) = key
      BY DEF Ordered!Key
    <3>2. Ordered!Add(x)
      BY <2>3, <3>1, OrderedTerms DEF Ordered!Add, order, after
    <3> QED
      BY <3>1, <3>2 DEF Ordered!Next
  <2>4. ASSUME NEW key \in Keys, HasKey(order, key), after = Without(order, key)
        PROVE  Ordered!Next
    <3>1. Ordered!Remove1(key)
      BY <2>4, OrderedTerms DEF Ordered!Remove1, order, after
    <3> QED
      BY <3>1 DEF Ordered!Next
  <2>5. ASSUME after = <<>> PROVE Ordered!Next
    BY <2>5 DEF Ordered!Next, Ordered!Empty, after
  <2>6. ASSUME NEW key \in Keys, NEW value \in Values, AddToHash(key, value)
        PROVE  Ordered!Next \/ after = order
    <3>1. after = IF HasKey(order, key) THEN order ELSE Append(order, <<key, value>>)
      BY <2>2, <2>6, AddToHashOrder DEF order
    <3> QED
      BY <2>3, <3>1
  <2>7. ASSUME NEW key \in Keys, NEW value \in Values, UseInOrder(key, value)
        PROVE  Ordered!Next
    <3>1. after = PlacedIn(order, <<key, value>>, ByRank) /\ ~HasKey(order, key)
      BY <2>2, <2>7, InOrderOrder DEF order
    <3> QED
      BY <2>3, <3>1
  <2>8. ASSUME NEW key \in Keys, NEW value \in Values, UseReplace(key, value)
        PROVE  Ordered!Next
    <3> DEFINE x == <<key, value>>
               others == Without(order, key)
    <3>1. after = Append(others, x) \/ after = PlacedIn(others, x, ByRank)
      BY <2>2, <2>8, ReplaceOrder DEF order
    <3>2. x \in Keys \X Values /\ Ordered!Key(x) = key
      BY DEF Ordered!Key
    <3>3. Ordered!Replace(x)
      BY <3>1, <3>2, OrderedTerms DEF Ordered!Replace, order, after
    <3> QED
      BY <3>2, <3>3 DEF Ordered!Next
  <2>9. ASSUME NEW key \in Keys, DeleteFromHash(key) PROVE Ordered!Next
    <3>1. HasKey(order, key) /\ after = Without(order, key)
      BY <2>2, <2>9, DeleteFromHashOrder DEF order
    <3> QED
      BY <2>4, <3>1
  <2>10. CASE StartClear
    BY <2>10 DEF StartClear, order, after
  <2>11. CASE ClearOne
    <3>1. order # <<>> /\ after = RemoveAt(order, 1)
      BY <2>2, <2>11, ClearOneOrder DEF order
    <3>2. /\ KeyOf(order[1]) \in Keys /\ HasKey(order, KeyOf(order[1]))
          /\ after = Without(order, KeyOf(order[1]))
      BY <2>1, <3>1, WithoutFirst
    <3> QED
      BY <2>4, <3>2
  <2>12. CASE UseSort
    <3>1. after = IF order = <<>> THEN <<>> ELSE SortList(order, ByRank)
      BY <2>2, <2>12, SortOrder DEF order
    <3>2. CASE order = <<>>
      BY <2>5, <3>1, <3>2
    <3>3. CASE order # <<>>
      <4>1. /\ Len(after) = Len(order) /\ ToSet(after) = ToSet(order)
            /\ \A i, j \in DOMAIN after : i < j => <<after[i], after[j]>> \notin ByRank
            /\ \A i, j \in DOMAIN order : i < j =>
                 \/ <<order[i], order[j]>> \in ByRank
                 \/ \E m, n \in DOMAIN after :
                      m < n /\ after[m] = order[i] /\ after[n] = order[j]
        BY <2>1, <3>1, <3>3, SortIsStable
      <4>2. \A list : Ordered!ToSet(list) = ToSet(list)
        BY DEF Ordered!ToSet, ToSet
      <4>3. Ordered!SortStably
        BY <4>1, <4>2 DEF Ordered!SortStably, order, after
      <4> QED
        BY <4>3 DEF Ordered!Next
    <3> QED
      BY <3>2, <3>3
  <2>13. CASE UseClear
    BY <2>2, <2>5, <2>13, ClearOrder
  <2>14. CASE UNCHANGED vars
    BY <2>14 DEF vars, order, after
  <2> QED
    BY <2>6, <2>7, <2>8, <2>9, <2>10, <2>11, <2>12, <2>13, <2>14 DEF Next
<1> QED
  BY <1>1, <1>2, TableInvariant, PTL DEF Spec, ImplementsOrderedHash, Ordered!Spec
-----------------------------------------------------------------------------
(* What HASH_SELECT makes of a table.                                      *)

LEMMA EmptySelection ==
  Fsck(EmptyTable) /\ Members(EmptyTable) = {}
<1>1. EmptyTable.head = NULL
  BY DEF EmptyTable
<1>2. AppOrder(EmptyTable) = <<>>
  BY EmptyHolds, HoldsLists
<1>3. Fsck(EmptyTable)
  BY <1>1 DEF Fsck
<1>4. ToSet(<<>>) = {}
  BY DEF ToSet
<1> QED
  BY <1>2, <1>3, <1>4 DEF Members

(* The items of a table, bucket after bucket.                              *)
LEMMA ItemsOfTable ==
  ASSUME NEW t, NEW h \in [Keys -> Nat], NEW order, Keeps(t, h, order)
  PROVE  /\ AllItems(t) \in Seq(Items) /\ UniqueKeys(AllItems(t))
         /\ \A y : Has(AllItems(t), y) <=> y \in Members(t)
<1> DEFINE items == AllItems(t)
<1>1. PICK chains : Represents(t, h, order, chains)
  BY DEF Keeps
<1>2. /\ order \in Seq(Items) /\ UniqueKeys(order) /\ Distinct(order)
      /\ Members(t) = {y \in Items : Has(order, y)}
  BY KeepsLists DEF Keeps, UniqueKeys, Distinct
<1>3. Hung(t, h, order, chains)
  BY <1>1 DEF Represents, Hung
<1>4. \A b \in DOMAIN chains : UniqueKeys(chains[b])
  BY <1>2, <1>3, ChainsUnique
<1>5. /\ items \in Seq(Items) /\ Distinct(items)
      /\ \A y \in Items : Has(items, y) <=> Has(order, y)
  BY <1>2, <1>3, <1>4, AllItemsAreOrder
<1> HIDE DEF items
<1>6. \A i \in DOMAIN items : items[i] \in Items /\ Has(order, items[i])
  BY <1>5 DEF Has
<1>7. ASSUME NEW i \in DOMAIN items, NEW j \in DOMAIN items,
             KeyOf(items[i]) = KeyOf(items[j])
      PROVE  i = j
  <2>1. PICK k \in DOMAIN order : order[k] = items[i]
    BY <1>6 DEF Has
  <2>2. PICK l \in DOMAIN order : order[l] = items[j]
    BY <1>6 DEF Has
  <2>3. k = l
    BY <1>2, <1>7, <2>1, <2>2 DEF UniqueKeys
  <2> QED
    BY <1>5, <2>1, <2>2, <2>3 DEF Distinct
<1>8. UniqueKeys(items)
  BY <1>7 DEF UniqueKeys
<1>9. \A y : Has(items, y) => y \in Items
  BY <1>6 DEF Has
<1>10. \A y : Has(items, y) <=> y \in Members(t)
  BY <1>2, <1>5, <1>9
<1> QED
  BY <1>5, <1>8, <1>10 DEF items

LEMMA SelectionIsRight ==
  ASSUME NEW t, NEW h \in [Keys -> Nat], NEW list, NEW last, Selected(t, h, list, last),
         NEW chosen, \A y : Has(list, y) <=> y \in chosen
  PROVE  /\ Fsck(t) /\ Members(t) = chosen
         /\ \A item \in chosen : Find(t, h, KeyOf(item)) = item
<1>1. list \in Seq(Items) /\ UniqueKeys(list)
  BY DEF Selected
<1>2. CASE list = <<>>
  <2>1. t = EmptyTable /\ chosen = {}
    BY <1>2 DEF Selected, Has
  <2> QED
    BY <2>1, EmptySelection
<1>3. CASE list # <<>>
  <2>1. /\ Linked(list, t.next, t.prev) /\ t.head = list[1]
        /\ t.tbl.num_items = Len(list) /\ 1 \in DOMAIN list
        /\ \E c : Hung(t, h, list, c)
    BY <1>1, <1>3 DEF Selected
  <2>2. PICK chains : Hung(t, h, list, chains)
    BY <2>1
  <2>3. t.head = NodeAt(list, 1) /\ t.head # NULL
    BY <1>1, <2>1, TableAssumption DEF NodeAt
  <2>4. Fsck(t) /\ AppOrder(t) = list
    BY <1>1, <2>1, <2>2, <2>3, HungIsIntact
  <2>5. Members(t) = chosen
    <3>1. ToSet(list) = {y \in Items : Has(list, y)}
      BY <1>1 DEF ToSet, Has
    <3>2. \A y : Has(list, y) => y \in Items
      BY <1>1 DEF Has
    <3> QED
      BY <2>4, <3>1, <3>2 DEF Members
  <2>6. ASSUME NEW item \in chosen PROVE Find(t, h, KeyOf(item)) = item
    <3>1. PICK i \in DOMAIN list : list[i] = item
      BY DEF Has
    <3>2. KeyOf(item) \in Keys
      BY <1>1, <3>1 DEF Items, KeyOf
    <3> QED
      BY <1>1, <2>2, <2>3, <3>1, <3>2, FindHangs
  <2> QED
    BY <2>4, <2>5, <2>6
<1> QED
  BY <1>2, <1>3

(* HASH_SELECT makes a table that HASH_FSCK passes and that has exactly    *)
(* the items that meet the condition, although it counts an item after it  *)
(* has added it and leaves tbl->tail behind.                               *)
THEOREM SelectIsRight == Spec => []SelectsChosen
<1>1. IInv => SelectsChosen
  <2> SUFFICES ASSUME IInv, NEW chosen \in SUBSET Members(table)
               PROVE  LET dst == Select(table, hash, chosen)
                      IN /\ Fsck(dst)
                         /\ Members(dst) = chosen
                         /\ \A item \in chosen : Find(dst, hash, KeyOf(item)) = item
    BY DEF SelectsChosen
  <2> DEFINE dst == Select(table, hash, chosen)
             order == AppOrder(table)
  <2>1. Holds(table, hash, order) /\ hash \in [Keys -> Nat]
    BY HashIsFunction DEF IInv
  <2>2. CASE table.head = NULL
    <3>1. dst = EmptyTable
      BY <2>2 DEF Select
    <3>2. order = <<>>
      <4> HIDE DEF order
      <4> QED
        BY <2>1, <2>2, HoldsLists
    <3>3. chosen = {}
      BY <3>2 DEF Members, ToSet
    <3> HIDE DEF dst, order
    <3>4. /\ Fsck(dst) /\ Members(dst) = {}
          /\ \A item \in {} : Find(dst, hash, KeyOf(item)) = item
      <4>1. Fsck(dst) /\ Members(dst) = {}
        BY <3>1, EmptySelection
      <4> QED
        BY <4>1
    <3>5. /\ Fsck(dst) /\ Members(dst) = chosen
          /\ \A item \in chosen : Find(dst, hash, KeyOf(item)) = item
      BY <3>3, <3>4
    <3> QED
      BY <3>5 DEF dst
  <2>3. CASE table.head # NULL
    <3> HIDE DEF order
    <3>1. Keeps(table, hash, order)
      BY <2>1, <2>3, HoldsLists
    <3> DEFINE items == AllItems(table)
    <3>2. /\ items \in Seq(Items) /\ UniqueKeys(items)
          /\ \A y : Has(items, y) <=> y \in Members(table)
      BY <2>1, <3>1, ItemsOfTable
    <3> HIDE DEF dst
    <3>3. PICK list, last : /\ Selected(dst, hash, list, last)
                            /\ \A y : Has(list, y) <=> y \in chosen /\ Has(items, y)
      <4> HIDE DEF items
      <4>1. items = AllItems(table)
        BY DEF items
      <4> QED
        BY <2>1, <2>3, <3>2, <4>1, SelectSelects DEF dst
    <3>4. \A y : Has(list, y) <=> y \in chosen
      BY <3>2, <3>3
    <3>5. /\ Fsck(dst) /\ Members(dst) = chosen
          /\ \A item \in chosen : Find(dst, hash, KeyOf(item)) = item
      BY <2>1, <3>3, <3>4, SelectionIsRight
    <3> QED
      BY <3>5 DEF dst
  <2> QED
    BY <2>2, <2>3
<1> QED
  BY <1>1, TableInvariant, PTL
=============================================================================
