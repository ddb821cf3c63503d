----------------------------- MODULE UtHashProofs -----------------------------
(***************************************************************************)
(* The macros of uthash keep the lists of a table, whatever the items, the *)
(* hash function and the number of buckets are: each of them does to the   *)
(* pointers what it should do to the lists.  Then the loops: what a walk   *)
(* along a list visits, what HASH_FIND finds, what an expansion leaves and *)
(* how HASH_SRT sorts.  A loop is a function of the number of its rounds,  *)
(* and what it does is shown by induction on that number.                  *)
(***************************************************************************)
EXTENDS UtHash, ListLemmas, FiniteSetTheorems

-----------------------------------------------------------------------------
(* Doubly linked lists.                                                    *)

(* Pointers that differ only at items of another list.                     *)
LEMMA LinkedElsewhere ==
  ASSUME NEW next, NEW prev, NEW N, NEW P, NEW list,
         Linked(list, next, prev),
         \A i \in DOMAIN list : N[list[i]] = next[list[i]] /\ P[list[i]] = prev[list[i]]
  PROVE  Linked(list, N, P)
BY DEF Linked

(* The item is linked in between two neighbours, of which either, or both, *)
(* may be NULL.                                                            *)
LEMMA LinkedInsert ==
  ASSUME NEW next, NEW prev, NEW N, NEW P, NEW list,
         Linked(list, next, prev),
         NEW i \in 1 .. Len(list) + 1, NEW x \in Items, ~Has(list, x),
         NEW left, left = NodeAt(list, i - 1), NEW right, right = NodeAt(list, i),
         N[x] = right, P[x] = left,
         left # NULL => N[left] = x, right # NULL => P[right] = x,
         \A y \in Items \ {x, left} : N[y] = next[y],
         \A y \in Items \ {x, right} : P[y] = prev[y]
  PROVE  Linked(InsertAt(list, i, x), N, P)
<1> DEFINE new == InsertAt(list, i, x)
<1>1. list \in Seq(Items)
  BY DEF Linked
<1>2. /\ new \in Seq(Items) /\ DOMAIN new = 1 .. Len(list) + 1
      /\ \A k \in 1 .. Len(list) + 1 :
           new[k] = IF k < i THEN list[k] ELSE IF k = i THEN x ELSE list[k - 1]
  BY <1>1, InsertElements
<1> HIDE DEF new
<1>3. /\ \A k \in 1 .. Len(list) : list[k] # x /\ list[k] \in Items /\ list[k] # NULL
      /\ DOMAIN list = 1 .. Len(list) /\ x # NULL
  BY <1>1, TableAssumption DEF Has
<1>4. /\ \A j, k \in 1 .. Len(list) : list[j] = list[k] => j = k
      /\ \A k \in 1 .. Len(list) : /\ next[list[k]] = NodeAt(list, k + 1)
                                   /\ prev[list[k]] = NodeAt(list, k - 1)
  BY <1>3 DEF Linked
<1>a. /\ \A k \in Int : NodeAt(list, k) = IF k \in 1 .. Len(list) THEN list[k] ELSE NULL
      /\ Len(list) \in Nat
  BY <1>1, <1>3 DEF NodeAt
<1>b. \A j \in 1 .. Len(list), k \in Int : j # k => list[j] # NodeAt(list, k)
  BY <1>a, <1>3, <1>4
<1>5. \A j, k \in DOMAIN new : new[j] = new[k] => j = k
  <2>1. \A j, k \in 1 .. Len(list) : list[j] = list[k] => j = k
    BY <1>4
  <2>2. ASSUME NEW k \in DOMAIN new, k # i
        PROVE  \E m \in 1 .. Len(list) : /\ m = (IF k < i THEN k ELSE k - 1)
                                         /\ new[k] = list[m] /\ new[k] # x
    BY <1>2, <1>3, <1>a, <2>2, SMTT(30)
  <2>3. ASSUME NEW j \in DOMAIN new, NEW k \in DOMAIN new, new[j] = new[k]
        PROVE  j = k
    <3>1. new[i] = x /\ i \in DOMAIN new
      BY <1>2
    <3>2. CASE j = i \/ k = i
      BY <2>2, <2>3, <3>1, <3>2
    <3>3. CASE j # i /\ k # i
      <4>1. PICK m \in 1 .. Len(list) : m = (IF j < i THEN j ELSE j - 1) /\ new[j] = list[m]
        BY <2>2, <3>3
      <4>2. PICK n \in 1 .. Len(list) : n = (IF k < i THEN k ELSE k - 1) /\ new[k] = list[n]
        BY <2>2, <3>3
      <4>3. list[m] = list[n]
        BY <2>3, <4>1, <4>2, Zenon
      <4>4. m = n
        BY <2>1, <4>3, Zenon
      <4>5. j \in Int /\ k \in Int /\ i \in Int
        BY <1>2, <1>a
      <4> QED
        BY <3>3, <4>1, <4>2, <4>4, <4>5
    <3> QED
      BY <3>2, <3>3
  <2> QED
    BY <2>3
<1>6. ASSUME NEW k \in DOMAIN new
      PROVE  N[new[k]] = NodeAt(new, k + 1) /\ P[new[k]] = NodeAt(new, k - 1)
  <2>0. k \in Int /\ i \in Int
    BY <1>2, <1>a
  <2>1. CASE k = i
    BY <1>1, <1>2, <1>3, <2>1 DEF NodeAt
  <2>2. CASE k < i
    <3>1. new[k] = list[k] /\ k \in 1 .. Len(list)
      BY <1>1, <1>2, <2>2
    <3>2. P[list[k]] = prev[list[k]]
      BY <1>3, <1>b, <2>2, <3>1
    <3>3. P[new[k]] = NodeAt(new, k - 1)
      BY <1>1, <1>2, <1>3, <1>4, <2>2, <3>1, <3>2 DEF NodeAt
    <3>4. CASE k = i - 1
      BY <1>1, <1>2, <1>3, <2>2, <3>1, <3>3, <3>4 DEF NodeAt
    <3>5. CASE k < i - 1
      <4>1. N[list[k]] = next[list[k]]
        BY <1>3, <1>b, <2>2, <3>1, <3>5
      <4> QED
        BY <1>1, <1>2, <1>3, <1>4, <3>1, <3>3, <3>5, <4>1 DEF NodeAt
    <3> QED
      BY <2>2, <3>4, <3>5, <1>2
  <2>3. CASE k > i
    <3>1. new[k] = list[k - 1] /\ k - 1 \in 1 .. Len(list)
      BY <1>1, <1>2, <2>3
    <3>2. N[list[k - 1]] = next[list[k - 1]]
      BY <1>3, <1>b, <2>0, <2>3, <3>1
    <3>3. N[new[k]] = NodeAt(new, k + 1)
      BY <1>1, <1>2, <1>3, <1>4, <2>3, <3>1, <3>2 DEF NodeAt
    <3>4. CASE k = i + 1
      BY <1>1, <1>2, <1>3, <2>3, <3>1, <3>3, <3>4 DEF NodeAt
    <3>5. CASE k > i + 1
      <4>1. P[list[k - 1]] = prev[list[k - 1]]
        BY <1>3, <1>b, <2>0, <2>3, <3>1, <3>5
      <4> QED
        BY <1>1, <1>2, <1>3, <1>4, <3>1, <3>3, <3>5, <4>1 DEF NodeAt
    <3> QED
      BY <2>3, <3>4, <3>5, <1>2
  <2> QED
    BY <1>2, <2>1, <2>2, <2>3
<1> QED
  BY <1>2, <1>5, <1>6 DEF Linked, new

(* The item becomes the first of the list.                                 *)
LEMMA LinkedFirst ==
  ASSUME NEW next, NEW prev, NEW N, NEW P, NEW list,
         Linked(list, next, prev), NEW x \in Items, ~Has(list, x),
         NEW first, first = NodeAt(list, 1),
         N[x] = first, P[x] = NULL, first # NULL => P[first] = x,
         \A y \in Items \ {x} : N[y] = next[y],
         \A y \in Items \ {x, first} : P[y] = prev[y]
  PROVE  Linked(InsertAt(list, 1, x), N, P)
<1>1. list \in Seq(Items) /\ 1 \in 1 .. Len(list) + 1
  BY DEF Linked
<1>2. NodeAt(list, 1 - 1) = NULL
  BY <1>1 DEF NodeAt
<1> QED
  BY <1>1, <1>2, LinkedInsert

(* The neighbours of the item are linked to each other.                    *)
LEMMA LinkedRemove ==
  ASSUME NEW next, NEW prev, NEW N, NEW P, NEW list,
         Linked(list, next, prev), NEW i \in 1 .. Len(list), NEW x, x = list[i],
         NEW left, left = NodeAt(list, i - 1), NEW right, right = NodeAt(list, i + 1),
         left # NULL => N[left] = right, right # NULL => P[right] = left,
         \A y \in Items \ {x, left} : N[y] = next[y],
         \A y \in Items \ {x, right} : P[y] = prev[y]
  PROVE  Linked(RemoveAt(list, i), N, P)
<1> DEFINE new == RemoveAt(list, i)
<1>1. list \in Seq(Items)
  BY DEF Linked
<1>2. /\ new \in Seq(Items) /\ DOMAIN new = 1 .. Len(list) - 1
      /\ \A k \in 1 .. Len(list) - 1 :
           new[k] = IF k < i THEN list[k] ELSE list[k + 1]
  BY <1>1, RemoveElements
<1> HIDE DEF new
<1>3. /\ \A k \in 1 .. Len(list) : list[k] \in Items /\ list[k] # NULL
      /\ DOMAIN list = 1 .. Len(list)
  BY <1>1, TableAssumption
<1>4. /\ \A j, k \in 1 .. Len(list) : list[j] = list[k] => j = k
      /\ \A k \in 1 .. Len(list) : /\ next[list[k]] = NodeAt(list, k + 1)
                                   /\ prev[list[k]] = NodeAt(list, k - 1)
  BY <1>3 DEF Linked
<1>a. /\ \A k \in Int : NodeAt(list, k) = IF k \in 1 .. Len(list) THEN list[k] ELSE NULL
      /\ Len(list) \in Nat
  BY <1>1, <1>3 DEF NodeAt
<1>b. \A j \in 1 .. Len(list), k \in Int : j # k => list[j] # NodeAt(list, k)
  BY <1>a, <1>3, <1>4
<1>5. \A j, k \in DOMAIN new : new[j] = new[k] => j = k
  <2> SUFFICES ASSUME NEW j \in 1 .. Len(list) - 1, NEW k \in 1 .. Len(list) - 1,
                      new[j] = new[k]
               PROVE  j = k
    BY <1>2
  <2>1. \E m \in {j, j + 1}, n \in {k, k + 1} :
          /\ m = (IF j < i THEN j ELSE j + 1) /\ n = (IF k < i THEN k ELSE k + 1)
          /\ m \in 1 .. Len(list) /\ n \in 1 .. Len(list) /\ list[m] = list[n]
    BY <1>2, <1>a, SMTT(30)
  <2>2. \A m, n \in 1 .. Len(list) : list[m] = list[n] => m = n
    BY <1>4
  <2>3. PICK m \in {j, j + 1}, n \in {k, k + 1} :
          /\ m = (IF j < i THEN j ELSE j + 1) /\ n = (IF k < i THEN k ELSE k + 1)
          /\ m \in 1 .. Len(list) /\ n \in 1 .. Len(list) /\ list[m] = list[n]
    BY <2>1
  <2>4. m = n
    BY <2>2, <2>3
  <2> QED
    BY <1>2, <2>3, <2>4
<1>6. ASSUME NEW k \in DOMAIN new
      PROVE  N[new[k]] = NodeAt(new, k + 1) /\ P[new[k]] = NodeAt(new, k - 1)
  <2>0. k \in Int /\ i \in Int
    BY <1>2, <1>a
  <2>1. CASE k < i
    <3>1. new[k] = list[k] /\ k \in 1 .. Len(list)
      BY <1>1, <1>2, <2>1
    <3>2. P[list[k]] = prev[list[k]]
      BY <1>3, <1>4, <1>b, <2>1, <3>1
    <3>3. P[new[k]] = NodeAt(new, k - 1)
      BY <1>1, <1>2, <1>3, <1>4, <2>1, <3>1, <3>2 DEF NodeAt
    <3>4. CASE k = i - 1
      BY <1>1, <1>2, <1>3, <2>1, <3>1, <3>3, <3>4 DEF NodeAt
    <3>5. CASE k < i - 1
      <4>1. N[list[k]] = next[list[k]]
        BY <1>3, <1>4, <1>b, <2>1, <3>1, <3>5
      <4> QED
        BY <1>1, <1>2, <1>3, <1>4, <3>1, <3>3, <3>5, <4>1, SMTT(30) DEF NodeAt
    <3> QED
      BY <2>1, <3>4, <3>5, <1>2
  <2>2. CASE k >= i
    <3>1. new[k] = list[k + 1] /\ k + 1 \in 1 .. Len(list)
      BY <1>1, <1>2, <2>2
    <3>2. N[list[k + 1]] = next[list[k + 1]]
      BY <1>3, <1>4, <1>b, <2>0, <2>2, <3>1
    <3>3. N[new[k]] = NodeAt(new, k + 1)
      BY <1>1, <1>2, <1>3, <1>4, <2>2, <3>1, <3>2 DEF NodeAt
    <3>4. CASE k = i
      BY <1>1, <1>2, <1>3, <2>2, <3>1, <3>3, <3>4 DEF NodeAt
    <3>5. CASE k > i
      <4>1. P[list[k + 1]] = prev[list[k + 1]]
        BY <1>3, <1>4, <1>b, <2>0, <2>2, <3>1, <3>5
      <4>0. k \in 1 .. Len(list) /\ (k + 1) - 1 = k
        BY <1>2, <1>a, <2>0, <3>5
      <4>2. prev[list[k + 1]] = list[k]
        <5>1. prev[list[k + 1]] = NodeAt(list, (k + 1) - 1)
          BY <1>4, <3>1
        <5> QED
          BY <1>a, <4>0, <5>1
      <4>3. k - 1 \in 1 .. Len(list) - 1 /\ k - 1 >= i
        BY <1>2, <1>a, <2>0, <3>5
      <4>4. NodeAt(new, k - 1) = list[k]
        BY <1>2, <2>0, <4>3 DEF NodeAt
      <4> QED
        BY <3>1, <3>3, <4>1, <4>2, <4>4
    <3> QED
      BY <2>2, <3>4, <3>5, <1>2
  <2> QED
    BY <1>2, <2>1, <2>2
<1> QED
  BY <1>2, <1>5, <1>6 DEF Linked, new
-----------------------------------------------------------------------------
(* What the macros write.                                                  *)

SameOrder(t, u) ==
  /\ u.head = t.head /\ u.next = t.next /\ u.prev = t.prev
  /\ u.tbl.tail = t.tbl.tail

SameChains(t, u) ==
  /\ u.hh_next = t.hh_next /\ u.hh_prev = t.hh_prev
  /\ u.tbl.buckets = t.tbl.buckets

SameSize(t, u) ==
  /\ u.tbl.num_buckets = t.tbl.num_buckets /\ u.tbl.num_items = t.tbl.num_items
  /\ u.tbl.ideal_chain_maxlen = t.tbl.ideal_chain_maxlen
  /\ u.tbl.noexpand = t.tbl.noexpand

(* What bounds the chains is as it was.                                    *)
SameLimits(t, u) ==
  /\ u.tbl.num_buckets = t.tbl.num_buckets
  /\ u.tbl.ideal_chain_maxlen = t.tbl.ideal_chain_maxlen
  /\ u.tbl.noexpand = t.tbl.noexpand
  /\ \A c \in 0 .. t.tbl.num_buckets - 1 :
       u.tbl.buckets[c].expand_mult = t.tbl.buckets[c].expand_mult

LEMMA LimitsAfter ==
  ASSUME NEW t, NEW u, NEW v, SameLimits(t, u), SameLimits(u, v)
  PROVE  SameLimits(t, v)
BY DEF SameLimits

(* A table after a write to its bucket array, to one bucket, to the chain  *)
(* pointers of its items, to the pointers of the application order.        *)
WithBuckets(t, C) == [t EXCEPT !.tbl.buckets = C]
WithBucket(t, b, bucket) == [t EXCEPT !.tbl.buckets[b] = bucket]
WithChainLinks(t, N, P) == [t EXCEPT !.hh_next = N, !.hh_prev = P]
WithOrderLinks(t, N, P) == [t EXCEPT !.next = N, !.prev = P]

LEMMA BucketsWritten ==
  ASSUME NEW t, IsTable(t), NEW C \in [0 .. t.tbl.num_buckets - 1 -> Bucket]
  PROVE  LET u == WithBuckets(t, C)
         IN /\ IsTable(u) /\ SameOrder(t, u) /\ SameSize(t, u)
            /\ u.hh_next = t.hh_next /\ u.hh_prev = t.hh_prev
            /\ u.tbl.buckets = C
BY DEF IsTable, SameOrder, SameSize, WithBuckets

LEMMA BucketWritten ==
  ASSUME NEW t, IsTable(t), NEW b \in 0 .. t.tbl.num_buckets - 1, NEW bucket \in Bucket
  PROVE  LET u == WithBucket(t, b, bucket)
         IN /\ IsTable(u) /\ SameOrder(t, u) /\ SameSize(t, u)
            /\ u.hh_next = t.hh_next /\ u.hh_prev = t.hh_prev
            /\ u.tbl.buckets[b] = bucket
            /\ \A c \in (0 .. t.tbl.num_buckets - 1) \ {b} :
                 u.tbl.buckets[c] = t.tbl.buckets[c]
<1> DEFINE C == [t.tbl.buckets EXCEPT ![b] = bucket]
<1>1. WithBucket(t, b, bucket) = WithBuckets(t, C)
  BY DEF WithBucket, WithBuckets
<1>2. /\ C \in [0 .. t.tbl.num_buckets - 1 -> Bucket]
      /\ C[b] = bucket
      /\ \A c \in (0 .. t.tbl.num_buckets - 1) \ {b} : C[c] = t.tbl.buckets[c]
  BY DEF IsTable
<1> HIDE DEF C
<1>3. /\ IsTable(WithBuckets(t, C)) /\ WithBuckets(t, C).tbl.buckets = C
      /\ SameOrder(t, WithBuckets(t, C)) /\ SameSize(t, WithBuckets(t, C))
      /\ WithBuckets(t, C).hh_next = t.hh_next /\ WithBuckets(t, C).hh_prev = t.hh_prev
  BY <1>2, BucketsWritten
<1> QED
  BY <1>1, <1>2, <1>3

LEMMA ChainLinksWritten ==
  ASSUME NEW t, IsTable(t), NEW N \in Links, NEW P \in Links
  PROVE  LET u == WithChainLinks(t, N, P)
         IN /\ IsTable(u) /\ SameOrder(t, u) /\ SameSize(t, u)
            /\ u.hh_next = N /\ u.hh_prev = P /\ u.tbl = t.tbl
BY DEF IsTable, SameOrder, SameSize, WithChainLinks

LEMMA OrderLinksWritten ==
  ASSUME NEW t, IsTable(t), NEW N \in Links, NEW P \in Links
  PROVE  IsTable(WithOrderLinks(t, N, P))
BY DEF IsTable, WithOrderLinks

LEMMA BucketSizes ==
  ASSUME NEW r \in Bucket, NEW x \in Items, NEW y \in Items \cup {NULL}
  PROVE  /\ Longer(r, x) \in Bucket
         /\ Longer(r, x).hh_head = x /\ Longer(r, x).count = r.count + 1
         /\ Longer(r, x).expand_mult = r.expand_mult
         /\ Shorter(r, x, y) \in Bucket /\ Shorter(r, x, y).count = r.count - 1
         /\ Shorter(r, x, y).hh_head = (IF r.hh_head = x THEN y ELSE r.hh_head)
         /\ Shorter(r, x, y).expand_mult = r.expand_mult
<1> DEFINE l == [r EXCEPT !.count = @ + 1]
           s == [r EXCEPT !.count = @ - 1]
<1>1. l \in Bucket /\ l.count = r.count + 1 /\ l.expand_mult = r.expand_mult
  BY DEF Bucket
<1>2. /\ s \in Bucket /\ s.count = r.count - 1 /\ s.hh_head = r.hh_head
      /\ s.expand_mult = r.expand_mult
  BY DEF Bucket
<1>3. Longer(r, x) = [l EXCEPT !.hh_head = x]
  BY DEF Longer
<1>4. Shorter(r, x, y) = [s EXCEPT !.hh_head = IF @ = x THEN y ELSE @]
  BY DEF Shorter
<1> HIDE DEF l, s
<1> QED
  BY <1>1, <1>2, <1>3, <1>4 DEF Bucket

LEMMA PushWrites ==
  ASSUME NEW t, IsTable(t), NEW b \in 0 .. t.tbl.num_buckets - 1, NEW x \in Items
  PROVE  LET u == PushInBkt(t, b, x)
             first == t.tbl.buckets[b].hh_head
         IN /\ IsTable(u) /\ SameOrder(t, u) /\ SameSize(t, u) /\ SameLimits(t, u)
            /\ u.hh_next[x] = first
            /\ \A y \in Items \ {x} : u.hh_next[y] = t.hh_next[y]
            /\ first # x => u.hh_prev[x] = NULL
            /\ first # NULL => u.hh_prev[first] = x
            /\ \A y \in Items \ {x, first} : u.hh_prev[y] = t.hh_prev[y]
            /\ u.tbl.buckets[b].hh_head = x
            /\ u.tbl.buckets[b].count = t.tbl.buckets[b].count + 1
            /\ u.tbl.buckets[b].expand_mult = t.tbl.buckets[b].expand_mult
            /\ \A c \in (0 .. t.tbl.num_buckets - 1) \ {b} :
                 u.tbl.buckets[c] = t.tbl.buckets[c]
<1> DEFINE u == PushInBkt(t, b, x)
           first == t.tbl.buckets[b].hh_head
           bucket == Longer(t.tbl.buckets[b], x)
           N == [t.hh_next EXCEPT ![x] = first]
           P == IF first = NULL THEN [t.hh_prev EXCEPT ![x] = NULL]
                ELSE [t.hh_prev EXCEPT ![x] = NULL, ![first] = x]
           v == WithChainLinks(t, N, P)
<1>1. t.tbl.buckets[b] \in Bucket
  BY DEF IsTable
<1>2. /\ bucket \in Bucket
      /\ bucket.hh_head = x /\ bucket.count = t.tbl.buckets[b].count + 1
      /\ bucket.expand_mult = t.tbl.buckets[b].expand_mult
  BY <1>1, BucketSizes
<1>3. N \in Links /\ P \in Links
  BY <1>1 DEF IsTable, Links, Bucket
<1>a. v.tbl.buckets[b] = t.tbl.buckets[b]
  BY DEF WithChainLinks, IsTable
<1>b. v = IF first = NULL THEN [t EXCEPT !.hh_next[x] = first, !.hh_prev[x] = NULL]
          ELSE [[t EXCEPT !.hh_next[x] = first, !.hh_prev[x] = NULL]
                  EXCEPT !.hh_prev[first] = x]
  BY DEF WithChainLinks, IsTable
<1>4. u = WithBucket(v, b, bucket)
  <2> HIDE DEF v
  <2>1. CASE first = NULL
    BY <1>a, <1>b, <2>1, Zenon DEF PushInBkt, WithBucket
  <2>2. CASE first # NULL
    BY <1>a, <1>b, <2>2, Zenon DEF PushInBkt, WithBucket
  <2> QED
    BY <2>1, <2>2
<1> HIDE DEF bucket, N, P, u
<1>5. /\ IsTable(v) /\ SameOrder(t, v) /\ SameSize(t, v)
      /\ v.hh_next = N /\ v.hh_prev = P /\ v.tbl = t.tbl
  BY <1>3, ChainLinksWritten
<1> HIDE DEF v
<1>6. /\ IsTable(u) /\ SameOrder(v, u) /\ SameSize(v, u)
      /\ u.hh_next = v.hh_next /\ u.hh_prev = v.hh_prev
      /\ u.tbl.buckets[b] = bucket
      /\ \A c \in (0 .. t.tbl.num_buckets - 1) \ {b} :
           u.tbl.buckets[c] = v.tbl.buckets[c]
  BY <1>2, <1>4, <1>5, BucketWritten
<1>7. /\ N[x] = first /\ \A y \in Items \ {x} : N[y] = t.hh_next[y]
      /\ (first # x => P[x] = NULL) /\ (first # NULL => P[first] = x)
      /\ \A y \in Items \ {x, first} : P[y] = t.hh_prev[y]
  BY <1>1 DEF N, P, IsTable, Links, Bucket
<1>8. SameOrder(t, u) /\ SameSize(t, u)
  BY <1>5, <1>6 DEF SameOrder, SameSize
<1>9. SameLimits(t, u)
  <2>1. \A c \in 0 .. t.tbl.num_buckets - 1 :
          u.tbl.buckets[c].expand_mult = t.tbl.buckets[c].expand_mult
    BY <1>2, <1>5, <1>6
  <2> QED
    BY <1>8, <2>1 DEF SameLimits, SameSize
<1> QED
  BY <1>2, <1>5, <1>6, <1>7, <1>8, <1>9 DEF u

LEMMA AppendWrites ==
  ASSUME NEW t, IsTable(t), NEW x \in Items
  PROVE  LET u == AppendList(t, x)
             last == t.tbl.tail
         IN /\ IsTable(u) /\ SameChains(t, u) /\ SameSize(t, u)
            /\ u.head = t.head /\ u.tbl.tail = x
            /\ (last # x => u.next[x] = NULL) /\ u.next[last] = x
            /\ \A y \in Items \ {x, last} : u.next[y] = t.next[y]
            /\ u.prev[x] = last
            /\ \A y \in Items \ {x} : u.prev[y] = t.prev[y]
<1> DEFINE u == AppendList(t, x)
           last == t.tbl.tail
<1>1. last \in Items
  BY DEF IsTable
<1>2. /\ SameChains(t, u) /\ SameSize(t, u) /\ u.head = t.head /\ u.tbl.tail = x
      /\ u.next = [t.next EXCEPT ![x] = NULL, ![last] = x]
      /\ u.prev = [t.prev EXCEPT ![x] = last]
  BY DEF AppendList, IsTable, SameChains, SameSize
<1>3. u.next \in Links /\ u.prev \in Links
  <2>1. /\ [t.next EXCEPT ![x] = NULL, ![last] = x] \in Links
        /\ [t.prev EXCEPT ![x] = last] \in Links
    BY <1>1 DEF IsTable, Links
  <2> HIDE DEF u
  <2> QED
    BY <1>2, <2>1
<1>4. IsTable(u)
  BY <1>1, <1>2, <1>3 DEF AppendList, IsTable
<1>5. t.next \in [Items -> Items \cup {NULL}] /\ t.prev \in [Items -> Items \cup {NULL}]
  BY DEF IsTable, Links
<1> HIDE DEF u
<1>6. /\ (last # x => u.next[x] = NULL) /\ u.next[last] = x
      /\ \A y \in Items \ {x, last} : u.next[y] = t.next[y]
      /\ u.prev[x] = last
      /\ \A y \in Items \ {x} : u.prev[y] = t.prev[y]
  BY <1>1, <1>2, <1>5
<1> QED
  BY <1>2, <1>4, <1>6 DEF u

LEMMA InsertWrites ==
  ASSUME NEW t, IsTable(t), NEW x \in Items, NEW place \in Items,
         NEW before, before = t.prev[place]
  PROVE  LET u == InsertBefore(t, place, x)
         IN /\ IsTable(u) /\ SameChains(t, u) /\ SameSize(t, u)
            /\ u.head = (IF before = NULL THEN x ELSE t.head) /\ u.tbl.tail = t.tbl.tail
            /\ (before # x => u.next[x] = place) /\ (before # NULL => u.next[before] = x)
            /\ \A y \in Items \ {x, before} : u.next[y] = t.next[y]
            /\ (place # x => u.prev[x] = before) /\ u.prev[place] = x
            /\ \A y \in Items \ {x, place} : u.prev[y] = t.prev[y]
<1> DEFINE u == InsertBefore(t, place, x)
<1>1. before \in Items \cup {NULL}
  BY DEF IsTable, Links
<1>2. /\ SameChains(t, u) /\ SameSize(t, u)
      /\ u.head = (IF before = NULL THEN x ELSE t.head) /\ u.tbl.tail = t.tbl.tail
      /\ u.next = IF before = NULL THEN [t.next EXCEPT ![x] = place]
                  ELSE [t.next EXCEPT ![x] = place, ![before] = x]
      /\ u.prev = [t.prev EXCEPT ![x] = before, ![place] = x]
  BY DEF InsertBefore, IsTable, SameChains, SameSize
<1>3. u.next \in Links /\ u.prev \in Links
  <2>1. t.next \in Links /\ t.prev \in Links
    BY DEF IsTable
  <2>2. [t.prev EXCEPT ![x] = before, ![place] = x] \in Links
    BY <1>1, <2>1 DEF Links
  <2>3. [t.next EXCEPT ![x] = place] \in Links
    BY <2>1 DEF Links
  <2>4. before # NULL => [t.next EXCEPT ![x] = place, ![before] = x] \in Links
    BY <1>1, <2>1 DEF Links
  <2> QED
    BY <1>2, <2>2, <2>3, <2>4
<1>4. IsTable(u)
  BY <1>1, <1>2, <1>3 DEF InsertBefore, IsTable
<1>5. t.next \in [Items -> Items \cup {NULL}] /\ t.prev \in [Items -> Items \cup {NULL}]
  BY DEF IsTable, Links
<1> HIDE DEF u
<1>6. /\ (before # x => u.next[x] = place) /\ (before # NULL => u.next[before] = x)
      /\ \A y \in Items \ {x, before} : u.next[y] = t.next[y]
  BY <1>1, <1>2, <1>5
<1>7. /\ (place # x => u.prev[x] = before) /\ u.prev[place] = x
      /\ \A y \in Items \ {x, place} : u.prev[y] = t.prev[y]
  BY <1>1, <1>2, <1>5
<1> QED
  BY <1>2, <1>4, <1>6, <1>7 DEF u

LEMMA UnlinkWrites ==
  ASSUME NEW t, IsTable(t), NEW x \in Items,
         NEW before, before = t.prev[x], NEW after, after = t.next[x],
         before # NULL \/ after # NULL,
         t.tbl.tail = x => before # NULL
  PROVE  LET u == Unlink(t, x)
         IN /\ IsTable(u) /\ SameChains(t, u) /\ SameSize(t, u)
            /\ u.head = (IF before = NULL THEN after ELSE t.head)
            /\ u.tbl.tail = (IF t.tbl.tail = x THEN before ELSE t.tbl.tail)
            /\ before # NULL => u.next[before] = after
            /\ \A y \in Items \ {before} : u.next[y] = t.next[y]
            /\ after # NULL => u.prev[after] = before
            /\ \A y \in Items \ {after} : u.prev[y] = t.prev[y]
<1> DEFINE u == Unlink(t, x)
           m == MoveTail(t, x)
           n == IF before = NULL THEN [m EXCEPT !.head = after]
                ELSE [m EXCEPT !.next[before] = after]
<1>1. before \in Items \cup {NULL} /\ after \in Items \cup {NULL}
  BY DEF IsTable, Links
<1>2. /\ IsTable(m) /\ SameChains(t, m) /\ SameSize(t, m)
      /\ m.head = t.head /\ m.next = t.next /\ m.prev = t.prev
      /\ m.tbl.tail = IF t.tbl.tail = x THEN before ELSE t.tbl.tail
  <2>1. CASE t.tbl.tail = x
    <3>1. m = [t EXCEPT !.tbl.tail = before] /\ before \in Items
      BY <1>1, <2>1 DEF MoveTail
    <3>2. m.tbl.tail = before /\ SameChains(t, m) /\ SameSize(t, m)
          /\ m.head = t.head /\ m.next = t.next /\ m.prev = t.prev
      BY <3>1 DEF IsTable, SameChains, SameSize
    <3>3. IsTable(m)
      <4> DEFINE Tbl == [tail : Items, num_buckets : Nat \ {0}, num_items : Int,
                         buckets : [0 .. t.tbl.num_buckets - 1 -> Bucket],
                         ideal_chain_maxlen : Nat, ineff_expands : Nat,
                         noexpand : BOOLEAN]
                 tbl == [t.tbl EXCEPT !.tail = before]
      <4>1. t.tbl \in Tbl /\ tbl \in Tbl /\ tbl.num_buckets = t.tbl.num_buckets
        BY <3>1 DEF IsTable
      <4>2. m = [t EXCEPT !.tbl = tbl]
        BY <3>1 DEF IsTable
      <4> HIDE DEF tbl
      <4>3. m.tbl = tbl
        BY <4>2 DEF IsTable
      <4> QED
        BY <4>1, <4>2, <4>3, SMTT(30) DEF IsTable
    <3> QED
      BY <2>1, <3>2, <3>3
  <2>2. CASE t.tbl.tail # x
    BY <2>2 DEF MoveTail, SameChains, SameSize
  <2> QED
    BY <2>1, <2>2
<1>3. u = IF after = NULL THEN n ELSE [n EXCEPT !.prev[after] = before]
  BY DEF Unlink
<1> HIDE DEF m, u
<1>4. /\ IsTable(n) /\ SameChains(t, n) /\ SameSize(t, n)
      /\ n.head = (IF before = NULL THEN after ELSE t.head)
      /\ n.tbl.tail = m.tbl.tail /\ n.prev = t.prev
      /\ n.next = IF before = NULL THEN t.next ELSE [t.next EXCEPT ![before] = after]
  <2>1. CASE before = NULL
    BY <1>1, <1>2, <2>1 DEF IsTable, SameChains, SameSize
  <2>2. CASE before # NULL
    <3>1. [t.next EXCEPT ![before] = after] \in Links
      BY <1>1, <2>2 DEF IsTable, Links
    <3> QED
      BY <1>1, <1>2, <2>2, <3>1 DEF IsTable, SameChains, SameSize
  <2> QED
    BY <2>1, <2>2
<1> HIDE DEF n
<1>5. /\ IsTable(u) /\ SameChains(t, u) /\ SameSize(t, u)
      /\ u.head = n.head /\ u.tbl.tail = n.tbl.tail /\ u.next = n.next
      /\ u.prev = IF after = NULL THEN t.prev ELSE [t.prev EXCEPT ![after] = before]
  <2>1. CASE after = NULL
    BY <1>3, <1>4, <2>1
  <2>2. CASE after # NULL
    <3>1. [t.prev EXCEPT ![after] = before] \in Links
      BY <1>1, <2>2 DEF IsTable, Links
    <3>2. u = [n EXCEPT !.prev[after] = before]
      BY <1>3, <2>2
    <3> QED
      BY <1>4, <2>2, <3>1, <3>2 DEF IsTable, SameChains, SameSize
  <2> QED
    BY <2>1, <2>2
<1>6. t.next \in [Items -> Items \cup {NULL}] /\ t.prev \in [Items -> Items \cup {NULL}]
  BY DEF IsTable, Links
<1>7. /\ before # NULL => u.next[before] = after
      /\ \A y \in Items \ {before} : u.next[y] = t.next[y]
      /\ after # NULL => u.prev[after] = before
      /\ \A y \in Items \ {after} : u.prev[y] = t.prev[y]
  BY <1>1, <1>4, <1>5, <1>6
<1> QED
  BY <1>2, <1>4, <1>5, <1>7 DEF u

LEMMA DelWrites ==
  ASSUME NEW t, IsTable(t), NEW b \in 0 .. t.tbl.num_buckets - 1, NEW x \in Items,
         NEW before, before = t.hh_prev[x], NEW after, after = t.hh_next[x]
  PROVE  LET u == DelInBkt(t, b, x)
         IN /\ IsTable(u) /\ SameOrder(t, u) /\ SameSize(t, u) /\ SameLimits(t, u)
            /\ before # NULL => u.hh_next[before] = after
            /\ \A y \in Items \ {before} : u.hh_next[y] = t.hh_next[y]
            /\ after # NULL => u.hh_prev[after] = before
            /\ \A y \in Items \ {after} : u.hh_prev[y] = t.hh_prev[y]
            /\ u.tbl.buckets[b] = Shorter(t.tbl.buckets[b], x, after)
            /\ \A c \in (0 .. t.tbl.num_buckets - 1) \ {b} :
                 u.tbl.buckets[c] = t.tbl.buckets[c]
<1> DEFINE u == DelInBkt(t, b, x)
           v == WithBucket(t, b, Shorter(t.tbl.buckets[b], x, after))
           N == IF before = NULL THEN t.hh_next ELSE [t.hh_next EXCEPT ![before] = after]
           P == IF after = NULL THEN t.hh_prev ELSE [t.hh_prev EXCEPT ![after] = before]
<1>1. before \in Items \cup {NULL} /\ after \in Items \cup {NULL}
  BY DEF IsTable, Links
<1>2. t.tbl.buckets[b] \in Bucket /\ Shorter(t.tbl.buckets[b], x, after) \in Bucket
  BY <1>1, BucketSizes DEF IsTable
<1>3. /\ IsTable(v) /\ SameOrder(t, v) /\ SameSize(t, v)
      /\ v.hh_next = t.hh_next /\ v.hh_prev = t.hh_prev
      /\ v.tbl.buckets[b] = Shorter(t.tbl.buckets[b], x, after)
      /\ \A c \in (0 .. t.tbl.num_buckets - 1) \ {b} :
           v.tbl.buckets[c] = t.tbl.buckets[c]
  BY <1>2, BucketWritten
<1>4. v = [t EXCEPT !.tbl.buckets[b] = Shorter(@, x, after)]
  BY DEF WithBucket
<1> HIDE DEF v
<1>5. N \in Links /\ P \in Links
  BY <1>1 DEF IsTable, Links
<1>6. u = WithChainLinks(v, N, P)
  <2>1. CASE before = NULL /\ after = NULL
    BY <1>3, <1>4, <2>1 DEF DelInBkt, WithChainLinks, IsTable
  <2>2. CASE before # NULL /\ after = NULL
    BY <1>3, <1>4, <2>2 DEF DelInBkt, WithChainLinks, IsTable
  <2>3. CASE before = NULL /\ after # NULL
    BY <1>3, <1>4, <2>3 DEF DelInBkt, WithChainLinks, IsTable
  <2>4. CASE before # NULL /\ after # NULL
    BY <1>3, <1>4, <2>4 DEF DelInBkt, WithChainLinks, IsTable
  <2> QED
    BY <2>1, <2>2, <2>3, <2>4
<1> HIDE DEF N, P, u
<1>7. /\ IsTable(u) /\ SameOrder(v, u) /\ SameSize(v, u)
      /\ u.hh_next = N /\ u.hh_prev = P /\ u.tbl = v.tbl
  BY <1>3, <1>5, <1>6, ChainLinksWritten
<1>8. /\ before # NULL => N[before] = after
      /\ \A y \in Items \ {before} : N[y] = t.hh_next[y]
      /\ after # NULL => P[after] = before
      /\ \A y \in Items \ {after} : P[y] = t.hh_prev[y]
  BY <1>1 DEF N, P, IsTable, Links
<1>9. SameOrder(t, u) /\ SameSize(t, u)
  BY <1>3, <1>7 DEF SameOrder, SameSize
<1>10. SameLimits(t, u)
  <2>1. Shorter(t.tbl.buckets[b], x, after).expand_mult = t.tbl.buckets[b].expand_mult
    BY <1>2 DEF Shorter, Bucket
  <2>2. \A c \in 0 .. t.tbl.num_buckets - 1 :
          u.tbl.buckets[c].expand_mult = t.tbl.buckets[c].expand_mult
    BY <1>3, <1>7, <2>1
  <2> QED
    BY <1>9, <2>2 DEF SameLimits, SameSize
<1> QED
  BY <1>3, <1>7, <1>8, <1>9, <1>10 DEF u
-----------------------------------------------------------------------------
(* What the macros do to the lists.                                        *)

LEMMA HasInsert ==
  ASSUME NEW list \in Seq(Items), NEW i \in 1 .. Len(list) + 1, NEW x \in Items, NEW y
  PROVE  Has(InsertAt(list, i, x), y) <=> y = x \/ Has(list, y)
<1> DEFINE new == InsertAt(list, i, x)
<1>1. /\ DOMAIN new = 1 .. Len(list) + 1
      /\ \A k \in 1 .. Len(list) + 1 :
           new[k] = IF k < i THEN list[k] ELSE IF k = i THEN x ELSE list[k - 1]
  <2>1. /\ new \in Seq(Items) /\ Len(new) = Len(list) + 1
        /\ \A k \in 1 .. Len(list) + 1 :
             new[k] = IF k < i THEN list[k] ELSE IF k = i THEN x ELSE list[k - 1]
    BY InsertElements
  <2> HIDE DEF new
  <2> QED
    BY <2>1
<1> HIDE DEF new
<1>2. ASSUME NEW k \in DOMAIN new PROVE new[k] = x \/ Has(list, new[k])
  BY <1>1 DEF Has
<1>3. Has(new, x)
  BY <1>1 DEF Has
<1>4. ASSUME NEW k \in DOMAIN list PROVE Has(new, list[k])
  <2>1. CASE k < i
    <3>1. k \in DOMAIN new /\ new[k] = list[k]
      BY <1>1, <2>1
    <3> QED
      BY <3>1 DEF Has
  <2>2. CASE k >= i
    <3>1. k + 1 \in DOMAIN new /\ new[k + 1] = list[k]
      BY <1>1, <2>2
    <3> QED
      BY <3>1 DEF Has
  <2> QED
    BY <2>1, <2>2
<1>5. Has(new, y) <=> y = x \/ Has(list, y)
  BY <1>2, <1>3, <1>4 DEF Has
<1> QED
  BY <1>5 DEF new

LEMMA HasRemove ==
  ASSUME NEW list \in Seq(Items), \A j, k \in DOMAIN list : list[j] = list[k] => j = k,
         NEW i \in 1 .. Len(list), NEW y
  PROVE  Has(RemoveAt(list, i), y) <=> y # list[i] /\ Has(list, y)
<1> DEFINE new == RemoveAt(list, i)
<1>1. /\ DOMAIN new = 1 .. Len(list) - 1
      /\ \A k \in 1 .. Len(list) - 1 :
           new[k] = IF k < i THEN list[k] ELSE list[k + 1]
  BY RemoveElements
<1> HIDE DEF new
<1>2. ASSUME NEW k \in DOMAIN new PROVE new[k] # list[i] /\ Has(list, new[k])
  <2>1. CASE k < i
    <3>1. k \in DOMAIN list /\ new[k] = list[k]
      BY <1>1, <2>1
    <3> QED
      BY <2>1, <3>1 DEF Has
  <2>2. CASE k >= i
    <3>1. k + 1 \in DOMAIN list /\ new[k] = list[k + 1] /\ k + 1 # i
      BY <1>1, <2>2
    <3> QED
      BY <3>1 DEF Has
  <2> QED
    BY <1>1, <2>1, <2>2
<1>3. ASSUME NEW k \in DOMAIN list, list[k] # list[i] PROVE Has(new, list[k])
  <2>1. CASE k < i
    <3>1. k \in DOMAIN new /\ new[k] = list[k]
      BY <1>1, <2>1
    <3> QED
      BY <3>1 DEF Has
  <2>2. CASE k > i
    <3>1. k - 1 \in DOMAIN new /\ new[k - 1] = list[k]
      BY <1>1, <2>2
    <3> QED
      BY <3>1 DEF Has
  <2>3. k # i
    BY <1>3
  <2> QED
    BY <2>1, <2>2, <2>3
<1>4. Has(new, y) <=> y # list[i] /\ Has(list, y)
  BY <1>2, <1>3 DEF Has
<1> QED
  BY <1>4 DEF new

LEMMA AppendIsInsert ==
  ASSUME NEW list \in Seq(Items), NEW x \in Items,
         NEW i \in 1 .. Len(list) + 1
  PROVE  i > Len(list) => InsertAt(list, i, x) = Append(list, x)
<1> DEFINE new == InsertAt(list, i, x)
<1>2. /\ new \in Seq(Items) /\ Len(new) = Len(list) + 1
      /\ \A k \in 1 .. Len(list) + 1 :
           new[k] = IF k < i THEN list[k] ELSE IF k = i THEN x ELSE list[k - 1]
  BY InsertElements
<1> HIDE DEF new
<1> HAVE i > Len(list)
<1>3. /\ Append(list, x) \in Seq(Items) /\ Len(Append(list, x)) = i
      /\ \A k \in 1 .. i : Append(list, x)[k] = IF k < i THEN list[k] ELSE x
  OBVIOUS
<1>4. Len(new) = i /\ \A k \in 1 .. i : new[k] = Append(list, x)[k]
  BY <1>2, <1>3
<1>5. new = Append(list, x)
  BY <1>2, <1>3, <1>4
<1> QED
  BY <1>5 DEF new

LEMMA RepresentsLists ==
  ASSUME NEW t, NEW hash, NEW order, NEW chains, Represents(t, hash, order, chains)
  PROVE  /\ IsTable(t) /\ OrderIs(t, order) /\ ChainsAre(t, hash, chains)
         /\ t.tbl.num_items = Len(order) /\ order \in Seq(Items)
         /\ \A i \in DOMAIN order : order[i] \in Items /\ i \in 1 .. Len(order) + 1
         /\ \A i, j \in DOMAIN order : order[i] = order[j] => i = j
<1>1. /\ IsTable(t) /\ OrderIs(t, order) /\ ChainsAre(t, hash, chains)
      /\ t.tbl.num_items = Len(order)
  BY DEF Represents
<1>2. Linked(order, t.next, t.prev)
  BY <1>1 DEF OrderIs
<1>3. order \in Seq(Items) /\ \A i, j \in DOMAIN order : order[i] = order[j] => i = j
  BY <1>2 DEF Linked
<1> QED
  BY <1>1, <1>3

LEMMA BktInRange ==
  ASSUME NEW t, IsTable(t), NEW hash \in [Keys -> Nat], NEW x \in Items
  PROVE  ToBkt(t, hash[KeyOf(x)]) \in 0 .. t.tbl.num_buckets - 1
<1>1. hash[KeyOf(x)] \in Nat
  BY DEF Items, KeyOf
<1>2. t.tbl.num_buckets \in Nat \ {0}
  BY DEF IsTable
<1> QED
  BY <1>1, <1>2 DEF ToBkt

(* HASH_ADD_TO_BKT puts the item in front of the chain.                    *)
LEMMA PushChains ==
  ASSUME NEW t, IsTable(t), NEW hash \in [Keys -> Nat],
         NEW chains, ChainsAre(t, hash, chains),
         NEW x \in Items, NEW b, b = ToBkt(t, hash[KeyOf(x)]),
         ~Has(chains[b], x)
  PROVE  ChainsAre(PushInBkt(t, b, x), hash, [chains EXCEPT ![b] = InsertAt(@, 1, x)])
<1> DEFINE u == PushInBkt(t, b, x)
           first == t.tbl.buckets[b].hh_head
           list == chains[b]
           new == InsertAt(list, 1, x)
           after == [chains EXCEPT ![b] = new]
           bkts == 0 .. t.tbl.num_buckets - 1
<1>1. b \in bkts
  BY BktInRange
<1>2. /\ IsTable(u) /\ SameOrder(t, u) /\ SameSize(t, u)
      /\ u.hh_next[x] = first
      /\ \A y \in Items \ {x} : u.hh_next[y] = t.hh_next[y]
      /\ first # x => u.hh_prev[x] = NULL
      /\ first # NULL => u.hh_prev[first] = x
      /\ \A y \in Items \ {x, first} : u.hh_prev[y] = t.hh_prev[y]
      /\ u.tbl.buckets[b].hh_head = x
      /\ u.tbl.buckets[b].count = t.tbl.buckets[b].count + 1
      /\ \A c \in bkts \ {b} : u.tbl.buckets[c] = t.tbl.buckets[c]
  BY <1>1, PushWrites, SMTT(30)
<1>3. DOMAIN chains = bkts /\ ChainIs(t, b, list)
      /\ \A i \in DOMAIN list : ToBkt(t, hash[KeyOf(list[i])]) = b
  BY <1>1 DEF ChainsAre
<1>4. list \in Seq(Items) /\ first = NodeAt(list, 1)
  BY <1>3 DEF ChainIs, Linked
<1>5. NodeAt(list, 0) = NULL /\ first # x
  BY <1>4, TableAssumption DEF NodeAt, Has
<1> HIDE DEF u, first
<1>9. Linked(new, u.hh_next, u.hh_prev)
  <2>1. Linked(list, t.hh_next, t.hh_prev)
    BY <1>3 DEF ChainIs
  <2> DEFINE N == u.hh_next
             P == u.hh_prev
  <2>2. /\ N[x] = first /\ P[x] = NULL
        /\ first # NULL => P[first] = x
    BY <1>2, <1>5
  <2>3. /\ \A y \in Items \ {x} : N[y] = t.hh_next[y]
        /\ \A y \in Items \ {x, first} : P[y] = t.hh_prev[y]
    BY <1>2
  <2>4. first = NodeAt(list, 1) /\ ~Has(list, x)
    BY <1>4
  <2> HIDE DEF N, P, list
  <2>5. Linked(InsertAt(list, 1, x), N, P)
    BY <2>1, <2>2, <2>3, <2>4, LinkedFirst, SMTT(30)
  <2> QED
    BY <2>5 DEF N, P
<1>10. /\ new \in Seq(Items) /\ Len(new) = Len(list) + 1 /\ new[1] = x
       /\ 1 \in DOMAIN new
       /\ \A y : Has(new, y) <=> y = x \/ Has(list, y)
  BY <1>4, InsertElements, HasInsert
<1> HIDE DEF new
<1>11. ChainIs(u, b, new)
  BY <1>2, <1>3, <1>9, <1>10 DEF ChainIs, NodeAt
<1>a. \A y : ToBkt(u, y) = ToBkt(t, y)
  BY <1>2 DEF ToBkt, SameSize
<1>12. \A i \in DOMAIN new : ToBkt(u, hash[KeyOf(new[i])]) = b
  <2>1. \A i \in DOMAIN new : new[i] = x \/ Has(list, new[i])
    BY <1>10 DEF Has
  <2> QED
    BY <1>3, <1>a, <2>1 DEF Has
<1>13. ASSUME NEW c \in bkts \ {b}
       PROVE  /\ ChainIs(u, c, chains[c])
              /\ \A i \in DOMAIN chains[c] : ToBkt(u, hash[KeyOf(chains[c][i])]) = c
  <2>1. /\ Linked(chains[c], t.hh_next, t.hh_prev)
        /\ t.tbl.buckets[c].hh_head = NodeAt(chains[c], 1)
        /\ t.tbl.buckets[c].count = Len(chains[c])
        /\ \A i \in DOMAIN chains[c] : ToBkt(t, hash[KeyOf(chains[c][i])]) = c
    BY <1>3 DEF ChainsAre, ChainIs
  <2>2. \A i \in DOMAIN chains[c] : chains[c][i] \in Items \ {x, first}
    <3>1. \A i \in DOMAIN chains[c] : chains[c][i] \in Items /\ chains[c][i] # x
      BY <2>1 DEF Linked
    <3>2. first # NULL => ToBkt(t, hash[KeyOf(first)]) = b
      BY <1>3, <1>4 DEF NodeAt
    <3> QED
      BY <2>1, <3>1, <3>2, TableAssumption
  <2>3. Linked(chains[c], u.hh_next, u.hh_prev)
    BY <1>2, <2>1, <2>2, LinkedElsewhere
  <2> QED
    BY <1>2, <1>a, <2>1, <2>3 DEF ChainIs
<1>14. ChainsAre(u, hash, after)
  BY <1>1, <1>2, <1>3, <1>11, <1>12, <1>13 DEF ChainsAre, SameSize
<1> QED
  BY <1>14 DEF u, new

(* HASH_DEL_IN_BKT takes the item out of the chain, wherever it is.        *)
LEMMA DelChains ==
  ASSUME NEW t, IsTable(t), NEW hash,
         NEW chains, ChainsAre(t, hash, chains),
         NEW b \in 0 .. t.tbl.num_buckets - 1, NEW list, list = chains[b],
         NEW j \in 1 .. Len(list), NEW x, x = list[j]
  PROVE  ChainsAre(DelInBkt(t, b, x), hash, [chains EXCEPT ![b] = RemoveAt(@, j)])
<1> DEFINE u == DelInBkt(t, b, x)
           new == RemoveAt(list, j)
           after == [chains EXCEPT ![b] = new]
           bkts == 0 .. t.tbl.num_buckets - 1
           left == NodeAt(list, j - 1)
           right == NodeAt(list, j + 1)
<1>1. /\ DOMAIN chains = bkts /\ ChainIs(t, b, list)
      /\ \A i \in DOMAIN list : ToBkt(t, hash[KeyOf(list[i])]) = b
  BY DEF ChainsAre
<1>2. /\ list \in Seq(Items) /\ j \in 1 .. Len(list) /\ x \in Items
      /\ \A i, k \in DOMAIN list : list[i] = list[k] => i = k
      /\ t.tbl.buckets[b].hh_head = NodeAt(list, 1)
      /\ t.tbl.buckets[b].count = Len(list)
      /\ t.hh_prev[x] = left /\ t.hh_next[x] = right
  BY <1>1 DEF ChainIs, Linked
<1> HIDE DEF left, right
<1>3. /\ IsTable(u) /\ SameOrder(t, u) /\ SameSize(t, u)
      /\ left # NULL => u.hh_next[left] = right
      /\ \A y \in Items \ {left} : u.hh_next[y] = t.hh_next[y]
      /\ right # NULL => u.hh_prev[right] = left
      /\ \A y \in Items \ {right} : u.hh_prev[y] = t.hh_prev[y]
      /\ u.tbl.buckets[b] = Shorter(t.tbl.buckets[b], x, right)
      /\ \A c \in bkts \ {b} : u.tbl.buckets[c] = t.tbl.buckets[c]
  BY <1>2, DelWrites
<1>4. /\ left # NULL => Has(list, left)
      /\ right # NULL => Has(list, right)
  BY DEF left, right, NodeAt, Has
<1>5. right \in Items \cup {NULL} /\ t.tbl.buckets[b] \in Bucket
  BY <1>2 DEF right, NodeAt, IsTable
<1> HIDE DEF u
<1>6. /\ u.tbl.buckets[b].count = Len(list) - 1
      /\ u.tbl.buckets[b].hh_head = IF NodeAt(list, 1) = x THEN right ELSE NodeAt(list, 1)
  <2> DEFINE r == t.tbl.buckets[b]
  <2>1. /\ Shorter(r, x, right).count = r.count - 1
        /\ Shorter(r, x, right).hh_head = IF r.hh_head = x THEN right ELSE r.hh_head
    <3>1. r \in Bucket /\ x \in Items /\ right \in Items \cup {NULL}
      BY <1>2, <1>5
    <3>2. /\ r.count \in Int
          /\ [r EXCEPT !.count = @ - 1].count = r.count - 1
          /\ [r EXCEPT !.count = @ - 1].hh_head = r.hh_head
      BY <3>1 DEF Bucket
    <3> DEFINE s == [r EXCEPT !.count = @ - 1]
    <3>3. s \in Bucket
      BY <3>1 DEF Bucket
    <3>4. Shorter(r, x, right) = [s EXCEPT !.hh_head = IF @ = x THEN right ELSE @]
      BY DEF Shorter
    <3> HIDE DEF r
    <3>5. s.count = r.count - 1 /\ s.hh_head = r.hh_head
      BY <3>2
    <3> HIDE DEF s
    <3> QED
      BY <3>3, <3>4, <3>5 DEF Bucket
  <2> QED
    BY <1>2, <1>3, <2>1
<1>7. Linked(new, u.hh_next, u.hh_prev)
  <2> DEFINE N == u.hh_next
             P == u.hh_prev
  <2>1. Linked(list, t.hh_next, t.hh_prev)
    BY <1>1 DEF ChainIs
  <2>2. /\ left # NULL => N[left] = right
        /\ right # NULL => P[right] = left
        /\ \A y \in Items \ {x, left} : N[y] = t.hh_next[y]
        /\ \A y \in Items \ {x, right} : P[y] = t.hh_prev[y]
    BY <1>3
  <2>3. left = NodeAt(list, j - 1) /\ right = NodeAt(list, j + 1)
    BY DEF left, right
  <2>4. j \in 1 .. Len(list) /\ x = list[j]
    OBVIOUS
  <2> HIDE DEF N, P, left, right
  <2>5. Linked(RemoveAt(list, j), N, P)
    BY <2>1, <2>2, <2>3, <2>4, LinkedRemove, SMTT(60)
  <2> QED
    BY <2>5 DEF N, P
<1>8. /\ new \in Seq(Items) /\ Len(new) = Len(list) - 1
      /\ \A k \in 1 .. Len(list) - 1 : new[k] = IF k < j THEN list[k] ELSE list[k + 1]
      /\ \A y : Has(new, y) <=> y # list[j] /\ Has(list, y)
  <2>1. \A y : Has(RemoveAt(list, j), y) <=> y # list[j] /\ Has(list, y)
    BY <1>2, HasRemove
  <2> QED
    BY <1>2, <2>1, RemoveElements
<1> HIDE DEF new
<1>9. u.tbl.buckets[b].hh_head = NodeAt(new, 1)
  <2>1. CASE j = 1
    BY <1>2, <1>6, <1>8, <2>1 DEF NodeAt, right
  <2>2. CASE j > 1
    <3>1. NodeAt(list, 1) = list[1] /\ list[1] # x
      BY <1>2, <2>2 DEF NodeAt
    <3> QED
      BY <1>2, <1>6, <1>8, <2>2, <3>1 DEF NodeAt
  <2> QED
    BY <1>2, <2>1, <2>2
<1>10. ChainIs(u, b, new)
  BY <1>6, <1>7, <1>8, <1>9 DEF ChainIs
<1>a. \A y : ToBkt(u, y) = ToBkt(t, y)
  BY <1>3 DEF ToBkt, SameSize
<1>11. \A i \in DOMAIN new : ToBkt(u, hash[KeyOf(new[i])]) = b
  <2>1. \A i \in DOMAIN new : Has(list, new[i])
    BY <1>8 DEF Has
  <2> QED
    BY <1>1, <1>a, <2>1 DEF Has
<1>12. ASSUME NEW c \in bkts \ {b}
       PROVE  /\ ChainIs(u, c, chains[c])
              /\ \A i \in DOMAIN chains[c] : ToBkt(u, hash[KeyOf(chains[c][i])]) = c
  <2>1. /\ Linked(chains[c], t.hh_next, t.hh_prev)
        /\ t.tbl.buckets[c].hh_head = NodeAt(chains[c], 1)
        /\ t.tbl.buckets[c].count = Len(chains[c])
        /\ \A i \in DOMAIN chains[c] : ToBkt(t, hash[KeyOf(chains[c][i])]) = c
    BY <1>1 DEF ChainsAre, ChainIs
  <2>2. \A i \in DOMAIN chains[c] : chains[c][i] \in Items \ {left, right}
    <3>1. \A i \in DOMAIN chains[c] : chains[c][i] \in Items
      BY <2>1 DEF Linked
    <3>2. /\ left # NULL => ToBkt(t, hash[KeyOf(left)]) = b
          /\ right # NULL => ToBkt(t, hash[KeyOf(right)]) = b
      BY <1>1, <1>4 DEF Has
    <3> QED
      BY <2>1, <3>1, <3>2, TableAssumption
  <2>3. Linked(chains[c], u.hh_next, u.hh_prev)
    BY <1>3, <2>1, <2>2, LinkedElsewhere
  <2> QED
    BY <1>3, <1>a, <2>1, <2>3 DEF ChainIs
<1>13. ChainsAre(u, hash, after)
  BY <1>1, <1>3, <1>10, <1>11, <1>12 DEF ChainsAre, SameSize
<1> QED
  BY <1>13 DEF u, new

(* The links of a list that got an item behind its last one.               *)
LEMMA LinkedAppend ==
  ASSUME NEW next, NEW prev, NEW N, NEW P, NEW list, Linked(list, next, prev),
         list # <<>>, NEW x \in Items, ~Has(list, x),
         NEW last, last = list[Len(list)],
         N[x] = NULL, N[last] = x, P[x] = last,
         \A y \in Items \ {x, last} : N[y] = next[y],
         \A y \in Items \ {x} : P[y] = prev[y]
  PROVE  Linked(Append(list, x), N, P)
<1> DEFINE i == Len(list) + 1
           right == NodeAt(list, i)
<1>1. list \in Seq(Items) /\ Len(list) >= 1
  BY DEF Linked
<1>2. last = NodeAt(list, Len(list)) /\ last # NULL
  BY <1>1, TableAssumption DEF NodeAt
<1>3. i \in 1 .. Len(list) + 1 /\ i > Len(list) /\ i - 1 = Len(list)
  BY <1>1
<1> HIDE DEF i
<1>4. right = NULL /\ last = NodeAt(list, i - 1)
  BY <1>1, <1>2, <1>3 DEF NodeAt
<1>5. /\ N[x] = right /\ right = NodeAt(list, i)
      /\ (last # NULL => N[last] = x) /\ (right # NULL => P[right] = x)
      /\ \A y \in Items \ {x, right} : P[y] = prev[y]
  BY <1>4
<1> HIDE DEF right
<1>6. Linked(InsertAt(list, i, x), N, P)
  BY <1>3, <1>4, <1>5, LinkedInsert
<1>7. InsertAt(list, i, x) = Append(list, x)
  BY <1>1, <1>3, AppendIsInsert
<1> QED
  BY <1>6, <1>7

(* HASH_APPEND_LIST makes the item the last one.                           *)
LEMMA AppendOrder ==
  ASSUME NEW t, IsTable(t), NEW order, OrderIs(t, order),
         NEW x \in Items, ~Has(order, x)
  PROVE  OrderIs(AppendList(t, x), Append(order, x))
<1> DEFINE u == AppendList(t, x)
           last == t.tbl.tail
           N == u.next
           P == u.prev
<1>1. /\ order \in Seq(Items) /\ Len(order) >= 1 /\ last = order[Len(order)]
      /\ Linked(order, t.next, t.prev) /\ t.head = order[1] /\ order # <<>>
  BY DEF OrderIs, Linked
<1>2. last # x /\ last # NULL
  BY <1>1, TableAssumption DEF Has
<1>3. /\ u.head = t.head /\ u.tbl.tail = x
      /\ N[x] = NULL /\ N[last] = x /\ P[x] = last
      /\ \A y \in Items \ {x, last} : N[y] = t.next[y]
      /\ \A y \in Items \ {x} : P[y] = t.prev[y]
  BY <1>2, AppendWrites
<1> HIDE DEF u, N, P, last
<1>4. Linked(Append(order, x), N, P)
  BY <1>1, <1>3, LinkedAppend
<1>5. /\ Append(order, x) # <<>> /\ Append(order, x)[1] = order[1]
      /\ Append(order, x)[Len(Append(order, x))] = x
  BY <1>1
<1> QED
  BY <1>1, <1>3, <1>4, <1>5 DEF OrderIs, u, N, P

(* HASH_ADD_INORDER puts the item before another one.                      *)
LEMMA InsertOrder ==
  ASSUME NEW t, IsTable(t), NEW order, OrderIs(t, order),
         NEW i \in 1 .. Len(order), NEW place, place = order[i],
         NEW x \in Items, ~Has(order, x)
  PROVE  OrderIs(InsertBefore(t, place, x), InsertAt(order, i, x))
<1> DEFINE u == InsertBefore(t, place, x)
           before == t.prev[place]
           N == u.next
           P == u.prev
           new == InsertAt(order, i, x)
<1>1. /\ order \in Seq(Items) /\ i \in 1 .. Len(order) + 1 /\ i \in DOMAIN order
      /\ Linked(order, t.next, t.prev) /\ t.head = order[1]
      /\ t.tbl.tail = order[Len(order)]
  BY SMTT(30) DEF OrderIs, Linked
<1>2. /\ place \in Items /\ place # x /\ place # NULL /\ place = NodeAt(order, i)
      /\ before = NodeAt(order, i - 1) /\ before # x
  <2>1. place \in Items /\ place # x /\ place = NodeAt(order, i)
    BY <1>1 DEF NodeAt, Has
  <2>2. before = NodeAt(order, i - 1)
    BY <1>1 DEF Linked
  <2>3. NodeAt(order, i - 1) # x
    BY <1>1, TableAssumption DEF NodeAt, Has
  <2> QED
    BY <2>1, <2>2, <2>3, TableAssumption
<1>3. /\ u.head = (IF before = NULL THEN x ELSE t.head) /\ u.tbl.tail = t.tbl.tail
      /\ N[x] = place /\ (before # NULL => N[before] = x)
      /\ \A y \in Items \ {x, before} : N[y] = t.next[y]
      /\ P[x] = before /\ P[place] = x
      /\ \A y \in Items \ {x, place} : P[y] = t.prev[y]
  <2>1. place \in Items /\ before = t.prev[place]
    BY <1>2
  <2> HIDE DEF before
  <2>2. /\ u.head = (IF before = NULL THEN x ELSE t.head) /\ u.tbl.tail = t.tbl.tail
        /\ (before # x => N[x] = place) /\ (before # NULL => N[before] = x)
        /\ \A y \in Items \ {x, before} : N[y] = t.next[y]
        /\ (place # x => P[x] = before) /\ P[place] = x
        /\ \A y \in Items \ {x, place} : P[y] = t.prev[y]
    BY <2>1, InsertWrites
  <2> HIDE DEF u, N, P, before
  <2> QED
    BY <1>2, <2>2
<1> HIDE DEF u, N, P, before
<1>5. Linked(new, N, P)
  BY <1>1, <1>2, <1>3, LinkedInsert
<1>6. /\ Len(new) = Len(order) + 1
      /\ \A k \in 1 .. Len(order) + 1 :
           new[k] = IF k < i THEN order[k] ELSE IF k = i THEN x ELSE order[k - 1]
  <2>1. order \in Seq(Items) /\ i \in 1 .. Len(order) + 1
    BY <1>1
  <2> QED
    BY <2>1, InsertElements
<1> HIDE DEF new
<1>7. new # <<>> /\ new[Len(new)] = order[Len(order)]
  BY <1>1, <1>6
<1>8. new[1] = IF before = NULL THEN x ELSE order[1]
  BY <1>1, <1>2, <1>6, TableAssumption DEF NodeAt
<1> QED
  BY <1>1, <1>3, <1>5, <1>7, <1>8 DEF OrderIs, u, N, P, new

(* HASH_DELETE_HH takes the item out of the order, if another one stays.   *)
LEMMA UnlinkOrder ==
  ASSUME NEW t, IsTable(t), NEW order, OrderIs(t, order), Len(order) > 1,
         NEW i \in 1 .. Len(order), NEW x, x = order[i]
  PROVE  /\ IsTable(Unlink(t, x)) /\ SameChains(t, Unlink(t, x)) /\ SameSize(t, Unlink(t, x))
         /\ OrderIs(Unlink(t, x), RemoveAt(order, i))
<1> DEFINE u == Unlink(t, x)
           left == NodeAt(order, i - 1)
           right == NodeAt(order, i + 1)
           N == u.next
           P == u.prev
           new == RemoveAt(order, i)
<1>1. /\ order \in Seq(Items) /\ i \in DOMAIN order /\ x \in Items
      /\ \A j, k \in DOMAIN order : order[j] = order[k] => j = k
      /\ Linked(order, t.next, t.prev) /\ t.head = order[1]
      /\ t.tbl.tail = order[Len(order)]
      /\ t.prev[x] = left /\ t.next[x] = right
  BY SMTT(30) DEF OrderIs, Linked
<1>2. /\ left # NULL \/ right # NULL
      /\ t.tbl.tail = x => left # NULL
      /\ left = NULL <=> i = 1
      /\ t.tbl.tail = x <=> i = Len(order)
      /\ i = 1 => right = order[2]
      /\ i > 1 => left = order[i - 1]
  BY <1>1, TableAssumption DEF NodeAt
<1> HIDE DEF left, right
<1>3. /\ IsTable(u) /\ SameChains(t, u) /\ SameSize(t, u)
      /\ u.head = (IF left = NULL THEN right ELSE t.head)
      /\ u.tbl.tail = (IF t.tbl.tail = x THEN left ELSE t.tbl.tail)
      /\ left # NULL => N[left] = right
      /\ \A y \in Items \ {left} : N[y] = t.next[y]
      /\ right # NULL => P[right] = left
      /\ \A y \in Items \ {right} : P[y] = t.prev[y]
  BY <1>1, <1>2, UnlinkWrites
<1> HIDE DEF u, N, P
<1>4. Linked(new, N, P)
  <2>1. left = NodeAt(order, i - 1) /\ right = NodeAt(order, i + 1)
    BY DEF left, right
  <2>2. /\ \A y \in Items \ {x, left} : N[y] = t.next[y]
        /\ \A y \in Items \ {x, right} : P[y] = t.prev[y]
    BY <1>3
  <2>3. /\ Linked(order, t.next, t.prev)
        /\ left # NULL => N[left] = right
        /\ right # NULL => P[right] = left
    BY <1>1, <1>3
  <2> QED
    BY <2>1, <2>2, <2>3, LinkedRemove
<1>5. /\ Len(new) = Len(order) - 1
      /\ \A k \in 1 .. Len(order) - 1 : new[k] = IF k < i THEN order[k] ELSE order[k + 1]
  <2>1. order \in Seq(Items)
    BY <1>1
  <2> QED
    BY <2>1, RemoveElements
<1> HIDE DEF new
<1>6. new # <<>> /\ new[1] = IF left = NULL THEN right ELSE t.head
  BY <1>1, <1>2, <1>5
<1>7. new[Len(new)] = IF t.tbl.tail = x THEN left ELSE t.tbl.tail
  BY <1>1, <1>2, <1>5
<1>8. OrderIs(u, new)
  BY <1>3, <1>4, <1>6, <1>7 DEF OrderIs, N, P
<1> QED
  BY <1>3, <1>8 DEF u, new
-----------------------------------------------------------------------------
(* What leaves a list alone.                                               *)

LEMMA OrderStays ==
  ASSUME NEW t, NEW u, SameOrder(t, u), NEW order, OrderIs(t, order)
  PROVE  OrderIs(u, order)
BY DEF SameOrder, OrderIs

LEMMA ChainsStay ==
  ASSUME NEW t, NEW u, SameChains(t, u), u.tbl.num_buckets = t.tbl.num_buckets,
         NEW hash, NEW chains, ChainsAre(t, hash, chains)
  PROVE  ChainsAre(u, hash, chains)
<1>1. \A y : ToBkt(u, y) = ToBkt(t, y)
  BY DEF ToBkt
<1> QED
  BY <1>1 DEF SameChains, ChainsAre, ChainIs

LEMMA LimitsStay ==
  ASSUME NEW t, NEW u, SameChains(t, u), SameSize(t, u)
  PROVE  SameLimits(t, u)
BY DEF SameChains, SameSize, SameLimits

(* A table after a write to its number of items.                           *)
WithCount(t, n) == [t EXCEPT !.tbl.num_items = n]

LEMMA CountWritten ==
  ASSUME NEW t, IsTable(t), NEW n \in Int
  PROVE  LET u == WithCount(t, n)
         IN /\ IsTable(u) /\ SameOrder(t, u) /\ SameChains(t, u)
            /\ u.tbl.num_buckets = t.tbl.num_buckets /\ u.tbl.num_items = n
            /\ SameLimits(t, u)
BY DEF IsTable, SameOrder, SameChains, SameLimits, WithCount

(* The items of the list and no others hang in the chains, each of them in *)
(* the one of its hash value.                                              *)
Hung(t, hash, order, chains) ==
  /\ IsTable(t) /\ ChainsAre(t, hash, chains)
  /\ \A y \in Items :
       Has(order, y) <=> Has(chains[ToBkt(t, hash[KeyOf(y)])], y)

(* The chain of an item gets it that the application order has already.    *)
LEMMA PushHangs ==
  ASSUME NEW t, IsTable(t), NEW hash \in [Keys -> Nat],
         NEW order, NEW chains, ChainsAre(t, hash, chains),
         NEW x \in Items, NEW b, b = ToBkt(t, hash[KeyOf(x)]), ~Has(chains[b], x),
         \A y \in Items :
           Has(order, y) <=> y = x \/ Has(chains[ToBkt(t, hash[KeyOf(y)])], y)
  PROVE  LET u == PushInBkt(t, b, x)
         IN /\ Hung(u, hash, order, [chains EXCEPT ![b] = InsertAt(@, 1, x)])
            /\ SameOrder(t, u) /\ SameSize(t, u) /\ SameLimits(t, u)
<1> DEFINE u == PushInBkt(t, b, x)
           after == [chains EXCEPT ![b] = InsertAt(@, 1, x)]
<1>1. b \in 0 .. t.tbl.num_buckets - 1
  BY BktInRange
<1>2. IsTable(u) /\ SameOrder(t, u) /\ SameSize(t, u) /\ SameLimits(t, u)
  BY <1>1, PushWrites
<1>3. ChainsAre(u, hash, after)
  BY PushChains
<1> HIDE DEF u
<1>5. /\ b \in DOMAIN chains /\ chains[b] \in Seq(Items)
  BY <1>1 DEF ChainsAre, ChainIs, Linked
<1>6. ASSUME NEW y \in Items
      PROVE  Has(order, y) <=> Has(after[ToBkt(u, hash[KeyOf(y)])], y)
  <2> DEFINE c == ToBkt(t, hash[KeyOf(y)])
  <2>1. ToBkt(u, hash[KeyOf(y)]) = c
    BY <1>2 DEF ToBkt, SameSize
  <2>2. CASE c = b
    <3>1. 1 \in 1 .. Len(chains[b]) + 1
      BY <1>5
    <3>2. Has(InsertAt(chains[b], 1, x), y) <=> y = x \/ Has(chains[b], y)
      BY <1>5, <3>1, HasInsert
    <3>3. after[b] = InsertAt(chains[b], 1, x)
      BY <1>5
    <3> QED
      BY <2>1, <2>2, <3>2, <3>3
  <2>3. CASE c # b
    <3>1. y # x
      BY <2>3
    <3>2. c \in DOMAIN chains
      BY BktInRange DEF ChainsAre
    <3>3. after[c] = chains[c]
      BY <2>3, <3>2
    <3> QED
      BY <2>1, <3>1, <3>3
  <2> QED
    BY <2>2, <2>3
<1>7. Hung(u, hash, order, after)
  BY <1>2, <1>3, <1>6 DEF Hung
<1> QED
  BY <1>2, <1>7 DEF u

(* The second half of HASH_ADD: the application order and the number of    *)
(* items have the item already, and its chain gets it.                     *)
LEMMA PushCompletes ==
  ASSUME NEW t, IsTable(t), NEW hash \in [Keys -> Nat],
         NEW order, OrderIs(t, order), t.tbl.num_items = Len(order),
         NEW chains, ChainsAre(t, hash, chains),
         NEW x \in Items, NEW b, b = ToBkt(t, hash[KeyOf(x)]), ~Has(chains[b], x),
         \A y \in Items :
           Has(order, y) <=> y = x \/ Has(chains[ToBkt(t, hash[KeyOf(y)])], y)
  PROVE  /\ Represents(PushInBkt(t, b, x), hash, order,
                       [chains EXCEPT ![b] = InsertAt(@, 1, x)])
         /\ SameLimits(t, PushInBkt(t, b, x))
<1> DEFINE u == PushInBkt(t, b, x)
           after == [chains EXCEPT ![b] = InsertAt(@, 1, x)]
<1>1. /\ Hung(u, hash, order, after)
      /\ SameOrder(t, u) /\ SameSize(t, u) /\ SameLimits(t, u)
  BY PushHangs
<1> HIDE DEF u, after
<1>2. OrderIs(u, order) /\ u.tbl.num_items = Len(order)
  BY <1>1, OrderStays DEF SameSize
<1>3. Represents(u, hash, order, after)
  BY <1>1, <1>2 DEF Hung, Represents
<1> QED
  BY <1>1, <1>3 DEF u, after

(* No item is in a chain that is not in the application order.             *)
LEMMA NotInChain ==
  ASSUME NEW t, NEW hash, NEW order, NEW chains, Represents(t, hash, order, chains),
         NEW x \in Items, ~Has(order, x)
  PROVE  ~Has(chains[ToBkt(t, hash[KeyOf(x)])], x)
BY DEF Represents
-----------------------------------------------------------------------------
(* The macros keep a table, until it is expanded.                          *)

(* HASH_ADD: the new item is the last one of the application order and the *)
(* first one of the chain of its hash value; no other chain changes.       *)
THEOREM AddKeepsTable ==
  ASSUME NEW t, NEW hash \in [Keys -> Nat], NEW order, NEW chains,
         Represents(t, hash, order, chains),
         NEW x \in Items, ~Has(order, x),
         NEW b, b = ToBkt(t, hash[KeyOf(x)])
  PROVE  LET u == PushInBkt([AppendList(t, x) EXCEPT !.tbl.num_items = @ + 1], b, x)
         IN /\ Represents(u, hash, Append(order, x),
                          [chains EXCEPT ![b] = InsertAt(@, 1, x)])
            /\ SameLimits(t, u)
<1> DEFINE m == AppendList(t, x)
           n == WithCount(m, m.tbl.num_items + 1)
<1>1. /\ IsTable(t) /\ OrderIs(t, order) /\ ChainsAre(t, hash, chains)
      /\ t.tbl.num_items = Len(order) /\ order \in Seq(Items)
  BY DEF Represents, OrderIs, Linked
<1>2. IsTable(m) /\ SameChains(t, m) /\ SameSize(t, m) /\ OrderIs(m, Append(order, x))
  BY <1>1, AppendWrites, AppendOrder
<1> HIDE DEF m
<1>3. m.tbl.num_items + 1 = Len(Append(order, x)) /\ m.tbl.num_items + 1 \in Int
  BY <1>1, <1>2 DEF SameSize
<1>4. /\ IsTable(n) /\ SameOrder(m, n) /\ SameChains(m, n) /\ SameLimits(m, n)
      /\ n.tbl.num_buckets = m.tbl.num_buckets
      /\ n.tbl.num_items = Len(Append(order, x))
  BY <1>2, <1>3, CountWritten
<1>5. n = [m EXCEPT !.tbl.num_items = @ + 1]
  BY DEF WithCount
<1> HIDE DEF n
<1>6. OrderIs(n, Append(order, x)) /\ ChainsAre(n, hash, chains)
  <2>1. SameChains(t, n) /\ n.tbl.num_buckets = t.tbl.num_buckets
    BY <1>2, <1>4 DEF SameChains, SameSize
  <2> QED
    BY <1>1, <1>2, <1>4, <2>1, OrderStays, ChainsStay
<1>7. \A y : ToBkt(n, y) = ToBkt(t, y)
  BY <1>2, <1>4 DEF ToBkt, SameSize
<1>8. \A y \in Items : Has(Append(order, x), y) <=>
                         y = x \/ Has(chains[ToBkt(n, hash[KeyOf(y)])], y)
  <2> DEFINE i == Len(order) + 1
  <2>1. i \in 1 .. Len(order) + 1 /\ i > Len(order)
    BY <1>1
  <2>2. \A y \in Items : Has(Append(order, x), y) <=> y = x \/ Has(order, y)
    <3> HIDE DEF i
    <3>1. InsertAt(order, i, x) = Append(order, x)
      BY <1>1, <2>1, AppendIsInsert
    <3>2. \A y : Has(InsertAt(order, i, x), y) <=> y = x \/ Has(order, y)
      BY <1>1, <2>1, HasInsert
    <3> QED
      BY <3>1, <3>2
  <2> QED
    BY <1>7, <2>2 DEF Represents
<1>9. b = ToBkt(n, hash[KeyOf(x)]) /\ ~Has(chains[b], x)
  BY <1>7, NotInChain
<1>10. /\ Represents(PushInBkt(n, b, x), hash, Append(order, x),
                     [chains EXCEPT ![b] = InsertAt(@, 1, x)])
       /\ SameLimits(n, PushInBkt(n, b, x))
  BY <1>4, <1>6, <1>8, <1>9, PushCompletes
<1>11. SameLimits(t, PushInBkt(n, b, x))
  BY <1>2, <1>4, <1>10, LimitsStay, LimitsAfter
<1> QED
  BY <1>5, <1>10, <1>11 DEF m

(* HASH_ADD_INORDER in front of an item of the table: the new item gets    *)
(* the place of that one in the application order.                         *)
THEOREM AddInOrderKeepsTable ==
  ASSUME NEW t, NEW hash \in [Keys -> Nat], NEW order, NEW chains,
         Represents(t, hash, order, chains),
         NEW x \in Items, ~Has(order, x), NEW i \in 1 .. Len(order),
         NEW b, b = ToBkt(t, hash[KeyOf(x)])
  PROVE  LET u == PushInBkt([InsertBefore(t, order[i], x)
                               EXCEPT !.tbl.num_items = @ + 1], b, x)
         IN /\ Represents(u, hash, InsertAt(order, i, x),
                          [chains EXCEPT ![b] = InsertAt(@, 1, x)])
            /\ SameLimits(t, u)
<1> DEFINE m == InsertBefore(t, order[i], x)
           new == InsertAt(order, i, x)
           n == WithCount(m, m.tbl.num_items + 1)
<1>1. /\ IsTable(t) /\ OrderIs(t, order) /\ ChainsAre(t, hash, chains)
      /\ t.tbl.num_items = Len(order) /\ order \in Seq(Items)
      /\ order[i] \in Items /\ i \in 1 .. Len(order) + 1
  BY RepresentsLists
<1>2. IsTable(m) /\ SameChains(t, m) /\ SameSize(t, m)
  BY <1>1, InsertWrites
<1>3. OrderIs(m, new)
  BY <1>1, InsertOrder
<1>a. Len(new) = Len(order) + 1 /\ \A y : Has(new, y) <=> y = x \/ Has(order, y)
  BY <1>1, InsertElements, HasInsert
<1> HIDE DEF m, new
<1>b. m.tbl.num_items + 1 = Len(new) /\ m.tbl.num_items + 1 \in Int
  BY <1>1, <1>2, <1>a DEF SameSize
<1>4. /\ IsTable(n) /\ SameOrder(m, n) /\ SameChains(m, n) /\ SameLimits(m, n)
      /\ n.tbl.num_buckets = m.tbl.num_buckets /\ n.tbl.num_items = Len(new)
  BY <1>2, <1>b, CountWritten
<1>5. n = [m EXCEPT !.tbl.num_items = @ + 1]
  BY DEF WithCount
<1> HIDE DEF n
<1>6. OrderIs(n, new) /\ ChainsAre(n, hash, chains)
  <2>1. SameChains(t, n) /\ n.tbl.num_buckets = t.tbl.num_buckets
    BY <1>2, <1>4 DEF SameChains, SameSize
  <2> QED
    BY <1>1, <1>3, <1>4, <2>1, OrderStays, ChainsStay
<1>7. \A y : ToBkt(n, y) = ToBkt(t, y)
  BY <1>2, <1>4 DEF ToBkt, SameSize
<1>8. \A y \in Items : Has(new, y) <=>
                         y = x \/ Has(chains[ToBkt(n, hash[KeyOf(y)])], y)
  BY <1>7, <1>a DEF Represents
<1>9. b = ToBkt(n, hash[KeyOf(x)]) /\ ~Has(chains[b], x)
  BY <1>7, NotInChain
<1>10. /\ Represents(PushInBkt(n, b, x), hash, new,
                     [chains EXCEPT ![b] = InsertAt(@, 1, x)])
       /\ SameLimits(n, PushInBkt(n, b, x))
  BY <1>4, <1>6, <1>8, <1>9, PushCompletes
<1>11. SameLimits(t, PushInBkt(n, b, x))
  BY <1>2, <1>4, <1>10, LimitsStay, LimitsAfter
<1> QED
  BY <1>5, <1>10, <1>11 DEF m, new

(* HASH_DELETE of an item that is not the only one: it is in the chain of  *)
(* its hash value, and leaves that chain and the application order.        *)
THEOREM DeleteKeepsTable ==
  ASSUME NEW t, NEW hash \in [Keys -> Nat], NEW order, NEW chains,
         Represents(t, hash, order, chains),
         Len(order) > 1, NEW i \in 1 .. Len(order), NEW x, x = order[i],
         NEW b, b = ToBkt(t, hash[KeyOf(x)])
  PROVE  \E j \in DOMAIN chains[b] :
           /\ chains[b][j] = x
           /\ Represents(Delete(t, hash, x), hash, RemoveAt(order, i),
                         [chains EXCEPT ![b] = RemoveAt(@, j)])
           /\ SameLimits(t, Delete(t, hash, x))
<1> DEFINE u == Unlink(t, x)
           d == DelInBkt(u, b, x)
           n == WithCount(d, d.tbl.num_items - 1)
           new == RemoveAt(order, i)
           list == chains[b]
<1>1. /\ IsTable(t) /\ OrderIs(t, order) /\ ChainsAre(t, hash, chains)
      /\ t.tbl.num_items = Len(order) /\ order \in Seq(Items) /\ x \in Items
      /\ \A j, k \in DOMAIN order : order[j] = order[k] => j = k
  BY RepresentsLists
<1>2. /\ b \in 0 .. t.tbl.num_buckets - 1 /\ b \in DOMAIN chains
      /\ list \in Seq(Items)
      /\ \A j, k \in DOMAIN list : list[j] = list[k] => j = k
  BY <1>1, BktInRange, SMTT(30) DEF ChainsAre, ChainIs, Linked
<1>3. PICK j \in 1 .. Len(list) : list[j] = x
  <2>1. Has(order, x)
    BY <1>1 DEF Has
  <2>2. Has(list, x)
    BY <1>1, <2>1 DEF Represents
  <2> QED
    BY <1>2, <2>2 DEF Has
<1> DEFINE after == [chains EXCEPT ![b] = RemoveAt(@, j)]
<1>4. IsTable(u) /\ SameChains(t, u) /\ SameSize(t, u) /\ OrderIs(u, new)
  BY <1>1, UnlinkOrder
<1>5. /\ Len(new) = Len(order) - 1
      /\ \A y : Has(new, y) <=> y # x /\ Has(order, y)
  BY <1>1, RemoveElements, HasRemove
<1>6. Delete(t, hash, x) = [d EXCEPT !.tbl.num_items = @ - 1]
  <2>1. t.prev[x] = NodeAt(order, i - 1) /\ t.next[x] = NodeAt(order, i + 1)
    <3>1. Linked(order, t.next, t.prev)
      BY <1>1 DEF OrderIs
    <3> QED
      BY <3>1 DEF Linked
  <2>2. ~(t.prev[x] = NULL /\ t.next[x] = NULL)
    BY <1>1, <2>1, TableAssumption DEF NodeAt
  <2>3. ToBkt(u, hash[KeyOf(x)]) = b
    BY <1>4 DEF ToBkt, SameSize
  <2> QED
    BY <2>2, <2>3 DEF Delete
<1> HIDE DEF u, new
<1>7. ChainsAre(u, hash, chains) /\ b \in 0 .. u.tbl.num_buckets - 1
  BY <1>1, <1>2, <1>4, ChainsStay DEF SameSize
<1>8. ChainsAre(d, hash, after)
  BY <1>3, <1>4, <1>7, DelChains
<1>9. IsTable(d) /\ SameOrder(u, d) /\ SameSize(u, d) /\ SameLimits(u, d)
  BY <1>1, <1>4, <1>7, DelWrites
<1> HIDE DEF d
<1>10. /\ IsTable(n) /\ SameOrder(d, n) /\ SameChains(d, n) /\ SameLimits(d, n)
       /\ n.tbl.num_buckets = d.tbl.num_buckets /\ n.tbl.num_items = Len(new)
  <2>1. d.tbl.num_items - 1 = Len(new) /\ d.tbl.num_items - 1 \in Int
    BY <1>1, <1>4, <1>5, <1>9 DEF SameSize
  <2> QED
    BY <1>9, <2>1, CountWritten
<1>11. n = [d EXCEPT !.tbl.num_items = @ - 1]
  BY DEF WithCount
<1> HIDE DEF n
<1>12. OrderIs(n, new) /\ ChainsAre(n, hash, after)
  <2>1. OrderIs(d, new)
    BY <1>4, <1>9, OrderStays
  <2> QED
    BY <1>8, <1>10, <2>1, OrderStays, ChainsStay
<1>13. ASSUME NEW y \in Items
       PROVE  Has(new, y) <=> Has(after[ToBkt(n, hash[KeyOf(y)])], y)
  <2> DEFINE c == ToBkt(t, hash[KeyOf(y)])
  <2>1. ToBkt(n, hash[KeyOf(y)]) = c
    BY <1>4, <1>9, <1>10 DEF ToBkt, SameSize
  <2>2. Has(order, y) <=> Has(chains[c], y)
    BY DEF Represents
  <2>3. CASE c = b
    <3>1. Has(RemoveAt(list, j), y) <=> y # list[j] /\ Has(list, y)
      BY <1>2, HasRemove
    <3>2. after[b] = RemoveAt(list, j)
      BY <1>2
    <3> QED
      BY <1>3, <1>5, <2>1, <2>2, <2>3, <3>1, <3>2
  <2>4. CASE c # b
    <3>1. y # x
      BY <2>4
    <3>2. c \in DOMAIN chains
      BY <1>1, BktInRange DEF ChainsAre
    <3>3. after[c] = chains[c]
      BY <2>4, <3>2
    <3> QED
      BY <1>5, <2>1, <2>2, <3>1, <3>3
  <2> QED
    BY <2>3, <2>4
<1>14. Represents(n, hash, new, after)
  BY <1>10, <1>12, <1>13 DEF Represents
<1>15. j \in DOMAIN list
  BY <1>2
<1>16. SameLimits(t, n)
  BY <1>4, <1>9, <1>10, LimitsStay, LimitsAfter
<1> QED
  BY <1>3, <1>6, <1>11, <1>14, <1>15, <1>16 DEF new

(* What a null head pointer stands for after a table was there.            *)
IsEmpty(t) ==
  t \in [head : {NULL}, next : Links, prev : Links,
         hh_next : Links, hh_prev : Links, tbl : {NoTable}]

(* HASH_DELETE of the only item: the table goes with it.                   *)
THEOREM DeleteLastEmpties ==
  ASSUME NEW t, NEW hash, NEW order, NEW chains,
         Represents(t, hash, order, chains), Len(order) = 1
  PROVE  IsEmpty(Delete(t, hash, order[1]))
<1>1. IsTable(t) /\ order \in Seq(Items) /\ 1 \in DOMAIN order
  BY DEF Represents, OrderIs, Linked
<1>2. t.prev[order[1]] = NodeAt(order, 1 - 1) /\ t.next[order[1]] = NodeAt(order, 1 + 1)
  BY <1>1 DEF Represents, OrderIs, Linked
<1>3. t.prev[order[1]] = NULL /\ t.next[order[1]] = NULL
  BY <1>1, <1>2 DEF NodeAt
<1>4. Delete(t, hash, order[1]) = [t EXCEPT !.head = NULL, !.tbl = NoTable]
  BY <1>3 DEF Delete
<1> QED
  BY <1>1, <1>4 DEF IsTable, IsEmpty

(* The caller frees an item that was deleted, or uses it again: none of    *)
(* the lists goes through it.                                              *)
THEOREM FreeKeepsTable ==
  ASSUME NEW t, NEW hash, NEW order, NEW chains, Represents(t, hash, order, chains),
         NEW x \in Items, ~Has(order, x)
  PROVE  Represents(Free(t, x), hash, order, chains) /\ SameLimits(t, Free(t, x))
<1> DEFINE u == Free(t, x)
<1>1. /\ IsTable(t) /\ OrderIs(t, order) /\ ChainsAre(t, hash, chains)
      /\ Linked(order, t.next, t.prev)
  BY DEF Represents, OrderIs
<1>2. /\ u.head = t.head /\ u.tbl = t.tbl
      /\ u.next = [t.next EXCEPT ![x] = NULL] /\ u.prev = [t.prev EXCEPT ![x] = NULL]
      /\ u.hh_next = [t.hh_next EXCEPT ![x] = NULL]
      /\ u.hh_prev = [t.hh_prev EXCEPT ![x] = NULL]
  BY <1>1 DEF Free, IsTable
<1>3. ASSUME NEW f \in Links
      PROVE  /\ [f EXCEPT ![x] = NULL] \in Links
             /\ \A y \in Items \ {x} : [f EXCEPT ![x] = NULL][y] = f[y]
  BY DEF Links
<1>4. IsTable(u)
  <2>1. /\ u.next \in Links /\ u.prev \in Links
        /\ u.hh_next \in Links /\ u.hh_prev \in Links
    BY <1>1, <1>2, <1>3 DEF IsTable
  <2> DEFINE v == WithOrderLinks(t, u.next, u.prev)
  <2>2. u = WithChainLinks(v, u.hh_next, u.hh_prev)
    BY <1>1, <1>2 DEF Free, IsTable, WithChainLinks, WithOrderLinks
  <2> HIDE DEF u
  <2>3. IsTable(v)
    BY <1>1, <2>1, OrderLinksWritten
  <2> HIDE DEF v
  <2> QED
    BY <2>1, <2>2, <2>3, ChainLinksWritten
<1>5. \A y \in Items \ {x} : /\ u.next[y] = t.next[y] /\ u.prev[y] = t.prev[y]
                             /\ u.hh_next[y] = t.hh_next[y]
                             /\ u.hh_prev[y] = t.hh_prev[y]
  BY <1>1, <1>2, <1>3 DEF IsTable
<1> HIDE DEF u
<1>6. OrderIs(u, order)
  <2>1. \A i \in DOMAIN order : order[i] \in Items \ {x}
    BY <1>1 DEF Linked, Has
  <2>2. Linked(order, u.next, u.prev)
    BY <1>1, <1>5, <2>1, LinkedElsewhere
  <2> QED
    BY <1>1, <1>2, <2>2 DEF OrderIs
<1>7. \A y : ToBkt(u, y) = ToBkt(t, y)
  BY <1>2 DEF ToBkt
<1>8. ASSUME NEW c \in DOMAIN chains
      PROVE  /\ ChainIs(u, c, chains[c])
             /\ \A i \in DOMAIN chains[c] : ToBkt(u, hash[KeyOf(chains[c][i])]) = c
  <2>1. /\ Linked(chains[c], t.hh_next, t.hh_prev)
        /\ t.tbl.buckets[c].hh_head = NodeAt(chains[c], 1)
        /\ t.tbl.buckets[c].count = Len(chains[c])
        /\ \A i \in DOMAIN chains[c] : ToBkt(t, hash[KeyOf(chains[c][i])]) = c
    BY <1>1 DEF ChainsAre, ChainIs
  <2>2. \A i \in DOMAIN chains[c] : chains[c][i] \in Items \ {x}
    <3>1. \A i \in DOMAIN chains[c] : chains[c][i] \in Items
      BY <2>1 DEF Linked
    <3>2. ~Has(chains[ToBkt(t, hash[KeyOf(x)])], x)
      BY NotInChain
    <3> QED
      BY <2>1, <3>1, <3>2 DEF Has
  <2>3. Linked(chains[c], u.hh_next, u.hh_prev)
    BY <1>5, <2>1, <2>2, LinkedElsewhere
  <2> QED
    BY <1>2, <1>7, <2>1, <2>3 DEF ChainIs
<1>9. Represents(u, hash, order, chains)
  BY <1>1, <1>2, <1>4, <1>6, <1>7, <1>8 DEF Represents, ChainsAre
<1>10. SameLimits(t, u)
  BY <1>2 DEF SameLimits
<1> QED
  BY <1>9, <1>10 DEF u

LEMMA FirstIsTable ==
  ASSUME NEW t, IsEmpty(t), NEW x \in Items
  PROVE  LET m == MakeTable(t, x)
         IN /\ IsTable(m) /\ m.head = x /\ m.next = [t.next EXCEPT ![x] = NULL]
            /\ m.prev = [t.prev EXCEPT ![x] = NULL]
            /\ m.tbl = [tail |-> x, num_buckets |-> InitialBuckets,
                        num_items |-> 0, buckets |-> EmptyBuckets(InitialBuckets),
                        ideal_chain_maxlen |-> 0, ineff_expands |-> 0,
                        noexpand |-> FALSE]
            /\ m.tbl.num_items = 0
<1> DEFINE m == MakeTable(t, x)
<1>1. /\ [t.next EXCEPT ![x] = NULL] \in Links /\ [t.prev EXCEPT ![x] = NULL] \in Links
  BY DEF IsEmpty, Links
<1>2. EmptyBuckets(InitialBuckets) \in [0 .. InitialBuckets - 1 -> Bucket]
  BY DEF EmptyBuckets, EmptyBucket, Bucket
<1>3. /\ m.head = x /\ m.next = [t.next EXCEPT ![x] = NULL]
      /\ m.prev = [t.prev EXCEPT ![x] = NULL]
      /\ m.tbl = [tail |-> x, num_buckets |-> InitialBuckets,
                  num_items |-> 0, buckets |-> EmptyBuckets(InitialBuckets),
                  ideal_chain_maxlen |-> 0, ineff_expands |-> 0,
                  noexpand |-> FALSE]
  BY DEF MakeTable, IsEmpty
<1>4. IsTable(m)
  <2> DEFINE v == [t EXCEPT !.head = x, !.tbl = m.tbl]
  <2>1. m = WithOrderLinks(v, m.next, m.prev)
    BY <1>3 DEF MakeTable, IsEmpty, WithOrderLinks
  <2>2. m.tbl \in [tail : Items, num_buckets : Nat \ {0}, num_items : Int,
                   buckets : [0 .. m.tbl.num_buckets - 1 -> Bucket],
                   ideal_chain_maxlen : Nat, ineff_expands : Nat,
                   noexpand : BOOLEAN]
    BY <1>2, <1>3, TableAssumption
  <2> HIDE DEF m
  <2>3. IsTable(v)
    BY <2>2 DEF IsEmpty, IsTable
  <2> HIDE DEF v
  <2> QED
    BY <1>1, <1>3, <2>1, <2>3, OrderLinksWritten
<1> QED
  BY <1>3, <1>4

(* HASH_ADD to a null head pointer: a table of one item.                   *)
THEOREM FirstMakesTable ==
  ASSUME NEW t, IsEmpty(t), NEW hash \in [Keys -> Nat], NEW x \in Items,
         NEW b, b = hash[KeyOf(x)] % InitialBuckets
  PROVE  Represents(PushInBkt([MakeTable(t, x) EXCEPT !.tbl.num_items = @ + 1], b, x),
                    hash, <<x>>,
                    [c \in 0 .. InitialBuckets - 1 |-> IF c = b THEN <<x>> ELSE <<>>])
<1> DEFINE m == MakeTable(t, x)
           n == WithCount(m, 1)
           none == [c \in 0 .. InitialBuckets - 1 |-> <<>>]
<1>1. /\ [t.next EXCEPT ![x] = NULL] \in Links /\ [t.prev EXCEPT ![x] = NULL] \in Links
      /\ [t.next EXCEPT ![x] = NULL][x] = NULL /\ [t.prev EXCEPT ![x] = NULL][x] = NULL
  BY DEF IsEmpty, Links
<1>2. EmptyBuckets(InitialBuckets) \in [0 .. InitialBuckets - 1 -> Bucket]
  BY DEF EmptyBuckets, EmptyBucket, Bucket
<1>3. /\ m.head = x /\ m.next = [t.next EXCEPT ![x] = NULL]
      /\ m.prev = [t.prev EXCEPT ![x] = NULL]
      /\ m.tbl = [tail |-> x, num_buckets |-> InitialBuckets,
                  num_items |-> 0, buckets |-> EmptyBuckets(InitialBuckets),
                  ideal_chain_maxlen |-> 0, ineff_expands |-> 0,
                  noexpand |-> FALSE]
  BY DEF MakeTable, IsEmpty
<1>4. IsTable(m)
  BY FirstIsTable
<1>5. n = [m EXCEPT !.tbl.num_items = @ + 1]
  BY <1>3, <1>4 DEF WithCount, IsTable
<1> HIDE DEF m
<1>6. /\ IsTable(n) /\ SameOrder(m, n) /\ SameChains(m, n)
      /\ n.tbl.num_buckets = InitialBuckets /\ n.tbl.num_items = 1
  <2>1. /\ IsTable(n) /\ SameOrder(m, n) /\ SameChains(m, n)
        /\ n.tbl.num_buckets = m.tbl.num_buckets /\ n.tbl.num_items = 1
    BY <1>4, CountWritten
  <2>2. m.tbl.num_buckets = InitialBuckets
    BY <1>3
  <2> HIDE DEF n
  <2> QED
    BY <2>1, <2>2
<1> HIDE DEF n
<1>7. OrderIs(n, <<x>>)
  <2>1. Linked(<<x>>, n.next, n.prev)
    BY <1>1, <1>3, <1>6 DEF SameOrder, Linked, NodeAt
  <2> QED
    BY <1>3, <1>6, <2>1 DEF OrderIs, SameOrder
<1>8. ChainsAre(n, hash, none)
  <2>1. \A c \in 0 .. InitialBuckets - 1 : n.tbl.buckets[c] = EmptyBucket
    BY <1>3, <1>6 DEF SameChains, EmptyBuckets
  <2>2. /\ Linked(<<>>, n.hh_next, n.hh_prev) /\ NodeAt(<<>>, 1) = NULL
        /\ EmptyBucket.hh_head = NULL /\ EmptyBucket.count = 0
    BY DEF Linked, NodeAt, EmptyBucket
  <2> QED
    BY <1>6, <2>1, <2>2 DEF ChainsAre, ChainIs
<1>9. b = ToBkt(n, hash[KeyOf(x)]) /\ b \in 0 .. InitialBuckets - 1
  BY <1>6, BktInRange DEF ToBkt
<1>10. \A y \in Items : Has(<<x>>, y) <=> y = x \/ Has(none[ToBkt(n, hash[KeyOf(y)])], y)
  <2>1. \A y \in Items : ToBkt(n, hash[KeyOf(y)]) \in 0 .. InitialBuckets - 1
    BY <1>6, BktInRange
  <2> QED
    BY <2>1 DEF Has
<1>11. ~Has(none[b], x) /\ Len(<<x>>) = 1
  BY <1>9 DEF Has
<1>12. Represents(PushInBkt(n, b, x), hash, <<x>>, [none EXCEPT ![b] = InsertAt(@, 1, x)])
  <2> HIDE DEF none
  <2> QED
    BY <1>6, <1>7, <1>8, <1>9, <1>10, <1>11, PushCompletes
<1>13. InsertAt(<<>>, 1, x) = <<x>>
  <2>1. ASSUME NEW list \in Seq(Items), Len(list) = 0
        PROVE  InsertAt(list, 1, x) = Append(list, x)
    <3>1. 1 \in 1 .. Len(list) + 1 /\ 1 > Len(list)
      BY <2>1
    <3> QED
      BY <3>1, AppendIsInsert
  <2>2. <<>> \in Seq(Items) /\ Len(<<>>) = 0
    OBVIOUS
  <2>3. InsertAt(<<>>, 1, x) = Append(<<>>, x)
    BY <2>1, <2>2
  <2> QED
    BY <2>3
<1>14. [none EXCEPT ![b] = InsertAt(@, 1, x)]
         = [c \in 0 .. InitialBuckets - 1 |-> IF c = b THEN <<x>> ELSE <<>>]
  BY <1>9, <1>13
<1> QED
  BY <1>5, <1>12, <1>14 DEF m
-----------------------------------------------------------------------------
(* HASH_EXPAND_BUCKETS.                                                    *)

(* No chain is longer than its bucket's multiple of the ideal length,      *)
(* which is 0 where an expansion meets a table that counts no items.       *)
WithinMultiples(t, ideal) ==
  ideal # 0 => \A b \in 0 .. t.tbl.num_buckets - 1 :
    t.tbl.buckets[b].count <= (t.tbl.buckets[b].expand_mult + 1) * ideal

(* The new buckets that the rounds start with: the application order is as *)
(* it was, and all chains are empty.                                       *)
WithNewBuckets(t, doubled, ideal) ==
  [t EXCEPT !.tbl.num_buckets = doubled,
            !.tbl.buckets = EmptyBuckets(doubled),
            !.tbl.ideal_chain_maxlen = ideal]

NoChains(n) == [c \in 0 .. n - 1 |-> <<>>]

THEOREM ExpansionStarts ==
  ASSUME NEW t, IsTable(t), NEW hash,
         NEW doubled \in Nat \ {0}, NEW ideal \in Nat
  PROVE  LET u == WithNewBuckets(t, doubled, ideal)
         IN /\ IsTable(u) /\ SameOrder(t, u)
            /\ u.tbl.num_buckets = doubled /\ u.tbl.ideal_chain_maxlen = ideal
            /\ u.tbl.num_items = t.tbl.num_items /\ u.tbl.noexpand = t.tbl.noexpand
            /\ ChainsAre(u, hash, NoChains(doubled))
            /\ WithinMultiples(u, ideal)
<1> DEFINE u == [t EXCEPT !.tbl.num_buckets = doubled,
                          !.tbl.buckets = EmptyBuckets(doubled),
                          !.tbl.ideal_chain_maxlen = ideal]
           none == [c \in 0 .. doubled - 1 |-> <<>>]
<1>1. EmptyBuckets(doubled) \in [0 .. doubled - 1 -> Bucket]
  BY DEF EmptyBuckets, EmptyBucket, Bucket
<1>2. /\ SameOrder(t, u) /\ u.hh_next = t.hh_next /\ u.hh_prev = t.hh_prev
      /\ u.tbl.num_buckets = doubled /\ u.tbl.buckets = EmptyBuckets(doubled)
      /\ u.tbl.ideal_chain_maxlen = ideal
      /\ u.tbl.num_items = t.tbl.num_items /\ u.tbl.noexpand = t.tbl.noexpand
  BY DEF IsTable, SameOrder
<1>3. IsTable(u)
  <2> DEFINE B == EmptyBuckets(doubled)
  <2> HIDE DEF B
  <2>1. B \in [0 .. doubled - 1 -> Bucket]
    BY <1>1 DEF B
  <2>2. u = [t EXCEPT !.tbl.num_buckets = doubled, !.tbl.buckets = B,
                      !.tbl.ideal_chain_maxlen = ideal]
    BY DEF B
  <2>3. IsTable([t EXCEPT !.tbl.num_buckets = doubled, !.tbl.buckets = B,
                          !.tbl.ideal_chain_maxlen = ideal])
    BY <2>1 DEF IsTable
  <2> HIDE DEF u
  <2> QED
    BY <2>2, <2>3
<1> HIDE DEF u
<1>5. \A c \in 0 .. doubled - 1 : u.tbl.buckets[c] = EmptyBucket
  BY <1>2 DEF EmptyBuckets
<1>6. ChainsAre(u, hash, none)
  <2>1. /\ Linked(<<>>, u.hh_next, u.hh_prev) /\ NodeAt(<<>>, 1) = NULL
        /\ EmptyBucket.hh_head = NULL /\ EmptyBucket.count = 0
    BY DEF Linked, NodeAt, EmptyBucket
  <2> QED
    BY <1>2, <1>5, <2>1 DEF ChainsAre, ChainIs
<1>7. WithinMultiples(u, ideal)
  BY <1>2, <1>5 DEF WithinMultiples, EmptyBucket
<1> QED
  BY <1>2, <1>3, <1>6, <1>7 DEF u, WithNewBuckets, NoChains

(* One round: the item, which is in no new chain yet, becomes the first of *)
(* the one of its hash value, and a bucket that gets more than the ideal   *)
(* number of items has put off its next expansion for as long.             *)
THEOREM ExpansionMovesItem ==
  ASSUME NEW t, IsTable(t), NEW hash \in [Keys -> Nat],
         NEW chains, ChainsAre(t, hash, chains),
         NEW x \in Items, NEW b, b = ToBkt(t, hash[KeyOf(x)]), ~Has(chains[b], x),
         NEW ideal \in Nat, ideal = t.tbl.ideal_chain_maxlen,
         WithinMultiples(t, ideal)
  PROVE  LET u == MoveItem(t, hash, x)
         IN /\ IsTable(u) /\ SameOrder(t, u) /\ SameSize(t, u)
            /\ ChainsAre(u, hash, [chains EXCEPT ![b] = InsertAt(@, 1, x)])
            /\ WithinMultiples(u, ideal)
<1> DEFINE m == PushInBkt(t, b, x)
           old == m.tbl.buckets[b]
           new == PutsOff(old, ideal)
           u == WithBucket(m, b, new)
           after == [chains EXCEPT ![b] = InsertAt(@, 1, x)]
           bkts == 0 .. t.tbl.num_buckets - 1
<1>1. b \in bkts
  BY BktInRange
<1>2. /\ IsTable(m) /\ SameOrder(t, m) /\ SameSize(t, m)
      /\ old.count = t.tbl.buckets[b].count + 1
      /\ old.expand_mult = t.tbl.buckets[b].expand_mult
      /\ \A c \in bkts \ {b} : m.tbl.buckets[c] = t.tbl.buckets[c]
  BY <1>1, PushWrites
<1>3. ChainsAre(m, hash, after)
  BY PushChains
<1>4. u = MoveItem(t, hash, x)
  BY DEF MoveItem, WithBucket
<1> HIDE DEF m
<1>5. old \in Bucket /\ t.tbl.buckets[b] \in Bucket
  BY <1>1, <1>2 DEF IsTable, SameSize
<1>6. ideal # 0 => t.tbl.buckets[b].count <= (t.tbl.buckets[b].expand_mult + 1) * ideal
  BY <1>1 DEF WithinMultiples
<1> HIDE DEF old
<1>7. /\ new \in Bucket /\ new.hh_head = old.hh_head /\ new.count = old.count
      /\ new.expand_mult =
           IF old.count > ideal /\ old.count > old.expand_mult * ideal
             THEN old.expand_mult + 1 ELSE old.expand_mult
  BY <1>5 DEF PutsOff, Bucket
<1>8. /\ IsTable(u) /\ SameOrder(m, u) /\ SameSize(m, u)
      /\ u.hh_next = m.hh_next /\ u.hh_prev = m.hh_prev
      /\ u.tbl.buckets[b] = new
      /\ \A c \in bkts \ {b} : u.tbl.buckets[c] = m.tbl.buckets[c]
  <2>1. b \in 0 .. m.tbl.num_buckets - 1 /\ bkts = 0 .. m.tbl.num_buckets - 1
    BY <1>1, <1>2 DEF SameSize
  <2> HIDE DEF new, u, bkts
  <2>2. new \in Bucket /\ IsTable(m)
    BY <1>2, <1>7
  <2>3. /\ IsTable(u) /\ SameOrder(m, u) /\ SameSize(m, u)
        /\ u.hh_next = m.hh_next /\ u.hh_prev = m.hh_prev
        /\ u.tbl.buckets[b] = new
        /\ \A c \in (0 .. m.tbl.num_buckets - 1) \ {b} :
             u.tbl.buckets[c] = m.tbl.buckets[c]
    BY <2>1, <2>2, BucketWritten DEF u
  <2> QED
    BY <2>1, <2>3
<1> HIDE DEF u, new
<1>9. SameOrder(t, u)
  BY <1>2, <1>8 DEF SameOrder
<1>10. ChainsAre(u, hash, after)
  <2>1. \A y : ToBkt(u, y) = ToBkt(m, y)
    BY <1>8 DEF ToBkt, SameSize
  <2>2. DOMAIN after = bkts
    BY <1>2, <1>3 DEF ChainsAre, SameSize
  <2>3. ASSUME NEW c \in bkts
        PROVE  /\ u.tbl.buckets[c].hh_head = m.tbl.buckets[c].hh_head
               /\ u.tbl.buckets[c].count = m.tbl.buckets[c].count
    BY <1>7, <1>8 DEF old
  <2> HIDE DEF after, bkts
  <2>4. ASSUME NEW c \in bkts
        PROVE  /\ ChainIs(u, c, after[c])
               /\ \A i \in DOMAIN after[c] : ToBkt(u, hash[KeyOf(after[c][i])]) = c
    <3>1. /\ ChainIs(m, c, after[c])
          /\ \A i \in DOMAIN after[c] : ToBkt(m, hash[KeyOf(after[c][i])]) = c
      BY <1>3, <2>2 DEF ChainsAre
    <3> QED
      BY <1>8, <2>1, <2>3, <3>1 DEF ChainIs
  <2>5. bkts = 0 .. u.tbl.num_buckets - 1
    BY <1>2, <1>8 DEF SameSize, bkts
  <2> QED
    BY <2>2, <2>4, <2>5 DEF ChainsAre
<1>11. CASE ideal # 0
  <2> DEFINE mult == old.expand_mult
             product == mult * ideal
  <2>1. /\ mult \in Nat /\ old.count \in Int /\ product \in Nat
        /\ (mult + 1) * ideal = product + ideal
        /\ ((mult + 1) + 1) * ideal = product + ideal + ideal
        /\ mult = 0 => product = 0
    BY <1>5 DEF Bucket
  <2>2. old.count <= product + ideal + 1
    <3> DEFINE c == t.tbl.buckets[b].count
    <3>1. c <= (mult + 1) * ideal
      BY <1>2, <1>6, <1>11
    <3>2. c \in Int /\ old.count = c + 1
      BY <1>2, <1>5 DEF Bucket
    <3> HIDE DEF c, product, mult
    <3> QED
      BY <2>1, <3>1, <3>2
  <2> HIDE DEF product
  <2>3. new.count <= (new.expand_mult + 1) * ideal
    BY <1>7, <1>11, <2>1, <2>2 DEF product
  <2>4. WithinMultiples(u, ideal)
    BY <1>2, <1>8, <1>11, <2>3 DEF WithinMultiples, SameSize
  <2> QED
    BY <1>2, <1>4, <1>8, <1>9, <1>10, <2>4 DEF SameSize
<1>12. CASE ideal = 0
  <2>1. WithinMultiples(u, ideal)
    BY <1>12 DEF WithinMultiples
  <2> QED
    BY <1>2, <1>4, <1>8, <1>9, <1>10, <2>1 DEF SameSize
<1> QED
  BY <1>11, <1>12

-----------------------------------------------------------------------------
(* Walks along a list.                                                     *)

UniqueKeys(list) ==
  \A i, j \in DOMAIN list : KeyOf(list[i]) = KeyOf(list[j]) => i = j

(* A list without a key twice is shorter than the walk goes.               *)
LEMMA ListFits ==
  ASSUME NEW list \in Seq(Items), UniqueKeys(list)
  PROVE  MaxLen \in Nat /\ Len(list) < MaxLen
<1> DEFINE keys == [i \in 1 .. Len(list) |-> KeyOf(list[i])]
<1>1. Cardinality(Keys) \in Nat
  BY TableAssumption, FS_CardinalityType
<1>2. keys \in [1 .. Len(list) -> Keys]
  <2>1. \A i \in 1 .. Len(list) : list[i] \in Items
    OBVIOUS
  <2> QED
    BY <2>1 DEF Items, KeyOf
<1>3. \A i, j \in 1 .. Len(list) : keys[i] = keys[j] => i = j
  BY DEF UniqueKeys
<1> HIDE DEF keys
<1>4. keys \in Injection(1 .. Len(list), Keys)
  BY <1>2, <1>3 DEF Injection, IsInjective
<1>5. Cardinality(1 .. Len(list)) <= Cardinality(Keys)
  BY <1>4, TableAssumption, FS_Injection
<1>6. Cardinality(1 .. Len(list)) = Len(list)
  <2>1. Len(list) \in Nat /\ 1 \in Int /\ Len(list) \in Int
    OBVIOUS
  <2>2. Cardinality(1 .. Len(list)) = IF 1 > Len(list) THEN 0 ELSE Len(list) - 1 + 1
    BY <2>1, FS_Interval
  <2> QED
    BY <2>1, <2>2
<1> QED
  BY <1>1, <1>5, <1>6 DEF MaxLen

(* The walk along the pointers of a list visits the list.                  *)
LEMMA FollowList ==
  ASSUME NEW list, NEW next, NEW prev, Linked(list, next, prev), UniqueKeys(list)
  PROVE  Follow(next, NodeAt(list, 1)) = list
<1> DEFINE first == NodeAt(list, 1)
           W == WalkOn(next, first)
           Round == [k \in Nat |-> W]
           n == Len(list)
           I == [k \in Nat |-> {x \in Seq(Items) :
                   /\ Len(x) = IF k < n THEN k ELSE n
                   /\ \A i \in 1 .. Len(x) : x[i] = list[i]}]
<1>1. /\ list \in Seq(Items) /\ n \in Nat /\ MaxLen \in Nat /\ n < MaxLen
      /\ \A i \in 1 .. n : list[i] \in Items /\ next[list[i]] = NodeAt(list, i + 1)
  BY ListFits DEF Linked
<1>2. PICK f : Follow(next, first) = f[MaxLen] /\ IsLoop(f, <<>>, Round, MaxLen)
  <2> DEFINE walked == CHOOSE g : g = [k \in 0 .. MaxLen |->
                                  IF k = 0 THEN <<>> ELSE W[g[k - 1]]]
  <2>1. Follow(next, first) = walked[MaxLen]
    BY DEF Follow
  <2> HIDE DEF W, first
  <2>2. IsLoop(walked, <<>>, Round, MaxLen)
    BY <1>1, LoopChosen
  <2> HIDE DEF walked
  <2> QED
    BY <2>1, <2>2
<1>3. <<>> \in I[0]
  <2> DEFINE none == <<>>
  <2>1. none \in Seq(Items) /\ Len(none) = 0
    OBVIOUS
  <2> HIDE DEF none, n
  <2>2. none \in I[0]
    BY <1>1, <2>1
  <2> QED
    BY <2>2 DEF none
<1>4. ASSUME NEW k \in 0 .. MaxLen - 1, NEW x \in I[k]
      PROVE  W[x] \in I[k + 1]
  <2>1. /\ x \in Seq(Items) /\ Len(x) = (IF k < n THEN k ELSE n)
        /\ \A i \in 1 .. Len(x) : x[i] = list[i]
    BY <1>4
  <2> DEFINE item == IF x = <<>> THEN first ELSE next[Last(x)]
  <2>2. item = NodeAt(list, Len(x) + 1)
    <3>1. CASE x = <<>>
      BY <3>1
    <3>2. CASE x # <<>>
      <4>1. Len(x) \in 1 .. n /\ Last(x) = list[Len(x)]
        BY <1>1, <2>1, <3>2 DEF Last
      <4> QED
        BY <1>1, <3>2, <4>1
    <3> QED
      BY <3>1, <3>2
  <2>3. W[x] = IF item = NULL THEN x ELSE Append(x, item)
    BY <2>1 DEF WalkOn
  <2> HIDE DEF item, W
  <2>4. CASE k < n
    <3>1. item = list[k + 1] /\ item \in Items /\ item # NULL
      BY <1>1, <2>1, <2>2, <2>4, TableAssumption DEF NodeAt
    <3>2. /\ Append(x, item) \in Seq(Items) /\ Len(Append(x, item)) = k + 1
          /\ \A i \in 1 .. k + 1 : Append(x, item)[i] = IF i = k + 1 THEN item ELSE x[i]
      BY <2>1, <2>4, <3>1
    <3>3. W[x] = Append(x, item) /\ k + 1 <= n
      BY <1>1, <2>3, <2>4, <3>1
    <3>4. \A i \in 1 .. k + 1 : Append(x, item)[i] = list[i]
      BY <2>1, <2>4, <3>1, <3>2
    <3> HIDE DEF n
    <3>5. k + 1 \in Nat /\ Len(W[x]) = IF k + 1 < n THEN k + 1 ELSE n
      BY <1>1, <3>2, <3>3
    <3> QED
      BY <3>2, <3>3, <3>4, <3>5
  <2>5. CASE k >= n
    <3>1. item = NULL
      BY <1>1, <2>1, <2>2, <2>5 DEF NodeAt
    <3> QED
      BY <1>1, <2>1, <2>3, <2>5, <3>1
  <2> QED
    BY <1>1, <2>4, <2>5
<1>5. f[MaxLen] \in I[MaxLen]
  <2>1. \A k \in 0 .. MaxLen - 1 : Round[k + 1] = W
    BY <1>1
  <2> HIDE DEF I, W, Round
  <2> QED
    BY <1>1, <1>2, <1>3, <1>4, <2>1, LoopKeeps
<1>6. f[MaxLen] = list
  <2> DEFINE l == f[MaxLen]
  <2>1. l \in Seq(Items) /\ Len(l) = n /\ \A i \in 1 .. Len(l) : l[i] = list[i]
    BY <1>1, <1>5
  <2> HIDE DEF l
  <2>2. l = list
    BY <1>1, <2>1
  <2> QED
    BY <2>2 DEF l
<1> QED
  BY <1>2, <1>6
(* HASH_FIND stops at the place p of the key in the chain, or behind the   *)
(* chain if the key is not in it.                                          *)
LEMMA FindStops ==
  ASSUME NEW t, NEW hash, NEW key, NEW chain, UniqueKeys(chain),
         ChainIs(t, ToBkt(t, hash[key]), chain), t.head # NULL,
         NEW p \in 1 .. Len(chain) + 1,
         \A i \in DOMAIN chain : i < p => KeyOf(chain[i]) # key,
         p \in DOMAIN chain => KeyOf(chain[p]) = key
  PROVE  Find(t, hash, key) = NodeAt(chain, p)
<1> DEFINE first == t.tbl.buckets[ToBkt(t, hash[key])].hh_head
           W == LookOn(t, hash, key)
           Round == [k \in Nat |-> W]
           n == Len(chain)
           Place(k) == IF k + 1 < p THEN k + 1 ELSE p
           I == [k \in Nat |-> {NodeAt(chain, Place(k))}]
<1>1. /\ chain \in Seq(Items) /\ n \in Nat /\ MaxLen \in Nat /\ n < MaxLen
      /\ p \in Nat /\ p >= 1 /\ p <= n + 1
      /\ \A i \in 1 .. n : chain[i] \in Items /\ t.hh_next[chain[i]] = NodeAt(chain, i + 1)
      /\ first = NodeAt(chain, 1)
  BY ListFits DEF ChainIs, Linked
<1>2. PICK f : Find(t, hash, key) = f[MaxLen] /\ IsLoop(f, first, Round, MaxLen)
  <2> DEFINE at == CHOOSE g : g = [k \in 0 .. MaxLen |->
                                  IF k = 0 THEN first ELSE W[g[k - 1]]]
  <2>1. Find(t, hash, key) = at[MaxLen]
    BY DEF Find
  <2> HIDE DEF W, first
  <2>2. IsLoop(at, first, Round, MaxLen)
    BY <1>1, LoopChosen, SMTT(30)
  <2> HIDE DEF at
  <2> QED
    BY <2>1, <2>2
<1>3. first \in I[0]
  BY <1>1
<1>4. ASSUME NEW k \in 0 .. MaxLen - 1, NEW x \in I[k]
      PROVE  W[x] \in I[k + 1]
  <2>1. x = NodeAt(chain, Place(k)) /\ Place(k) \in 1 .. n + 1
    BY <1>1
  <2>2. x \in Items \cup {NULL}
    BY <1>1, <2>1 DEF NodeAt
  <2>3. W[x] = IF x = NULL \/ Matches(hash, key, x) THEN x ELSE t.hh_next[x]
    BY <2>2 DEF LookOn
  <2> HIDE DEF W
  <2>4. CASE k + 1 < p
    <3>1. Place(k) = k + 1 /\ k + 1 \in 1 .. n /\ Place(k + 1) = k + 2
      BY <1>1, <2>4
    <3>2. /\ x = chain[k + 1] /\ x \in Items /\ KeyOf(x) # key
          /\ t.hh_next[x] = NodeAt(chain, k + 2)
      BY <1>1, <2>1, <2>4, <3>1 DEF NodeAt
    <3>3. x # NULL /\ ~Matches(hash, key, x)
      BY <3>2, TableAssumption DEF Matches
    <3> QED
      BY <2>3, <3>1, <3>2, <3>3
  <2>5. CASE k + 1 >= p
    <3>1. Place(k) = p /\ Place(k + 1) = p
      BY <1>1, <2>5
    <3>2. x = NULL \/ Matches(hash, key, x)
      BY <1>1, <2>1, <3>1 DEF NodeAt, Matches
    <3> QED
      BY <2>1, <2>3, <3>1, <3>2
  <2> QED
    BY <1>1, <2>4, <2>5
<1>5. f[MaxLen] \in I[MaxLen]
  <2>1. \A k \in 0 .. MaxLen - 1 : Round[k + 1] = W
    BY <1>1
  <2> HIDE DEF I, W, Round
  <2> QED
    BY <1>1, <1>2, <1>3, <1>4, <2>1, LoopKeeps, ZenonT(40)
<1>6. Place(MaxLen) = p
  BY <1>1
<1> QED
  BY <1>1, <1>2, <1>5, <1>6

(* So it finds the item that has the key, if the chain has one.            *)
LEMMA FindInChain ==
  ASSUME NEW t, NEW hash, NEW key, NEW chain, UniqueKeys(chain),
         ChainIs(t, ToBkt(t, hash[key]), chain), t.head # NULL
  PROVE  /\ \A i \in DOMAIN chain : KeyOf(chain[i]) = key => Find(t, hash, key) = chain[i]
         /\ (\A i \in DOMAIN chain : KeyOf(chain[i]) # key) => Find(t, hash, key) = NULL
<1>1. chain \in Seq(Items) /\ DOMAIN chain = 1 .. Len(chain) /\ Len(chain) \in Nat
  BY DEF ChainIs, Linked
<1>2. ASSUME NEW i \in DOMAIN chain, KeyOf(chain[i]) = key
      PROVE  Find(t, hash, key) = chain[i]
  <2>1. i \in 1 .. Len(chain) + 1
    BY <1>1
  <2>2. \A j \in DOMAIN chain : j < i => KeyOf(chain[j]) # key
    BY <1>1, <1>2 DEF UniqueKeys
  <2>3. Find(t, hash, key) = NodeAt(chain, i)
    BY <1>2, <2>1, <2>2, FindStops
  <2> QED
    BY <2>3 DEF NodeAt
<1>3. ASSUME \A i \in DOMAIN chain : KeyOf(chain[i]) # key
      PROVE  Find(t, hash, key) = NULL
  <2> DEFINE p == Len(chain) + 1
  <2>1. p \in 1 .. Len(chain) + 1 /\ p \notin DOMAIN chain
    BY <1>1
  <2> HIDE DEF p
  <2>2. Find(t, hash, key) = NodeAt(chain, p)
    BY <1>3, <2>1, FindStops
  <2> QED
    BY <2>1, <2>2 DEF NodeAt
<1> QED
  BY <1>2, <1>3
-----------------------------------------------------------------------------
(* Lists of the same items.                                                *)

Distinct(list) == \A i, j \in DOMAIN list : list[i] = list[j] => i = j

LEMMA HasConcat ==
  ASSUME NEW p \in Seq(Items), NEW q \in Seq(Items), NEW y
  PROVE  Has(p \o q, y) <=> Has(p, y) \/ Has(q, y)
<1> DEFINE l == p \o q
<1>1. /\ DOMAIN l = 1 .. Len(p) + Len(q) /\ DOMAIN p = 1 .. Len(p) /\ DOMAIN q = 1 .. Len(q)
      /\ \A i \in 1 .. Len(p) + Len(q) : l[i] = IF i <= Len(p) THEN p[i] ELSE q[i - Len(p)]
      /\ Len(p) \in Nat /\ Len(q) \in Nat
  OBVIOUS
<1> HIDE DEF l
<1>2. ASSUME NEW i \in DOMAIN l PROVE Has(p, l[i]) \/ Has(q, l[i])
  <2>1. CASE i <= Len(p)
    BY <1>1, <2>1 DEF Has
  <2>2. CASE i > Len(p)
    <3>1. i - Len(p) \in DOMAIN q /\ l[i] = q[i - Len(p)]
      BY <1>1, <2>2
    <3> QED
      BY <3>1 DEF Has
  <2> QED
    BY <1>1, <2>1, <2>2
<1>3. ASSUME NEW i \in DOMAIN p PROVE Has(l, p[i])
  <2>1. i \in DOMAIN l /\ l[i] = p[i]
    BY <1>1
  <2> QED
    BY <2>1 DEF Has
<1>4. ASSUME NEW i \in DOMAIN q PROVE Has(l, q[i])
  <2>1. i + Len(p) \in DOMAIN l /\ l[i + Len(p)] = q[i]
    BY <1>1
  <2> QED
    BY <2>1 DEF Has
<1>5. Has(l, y) <=> Has(p, y) \/ Has(q, y)
  BY <1>2, <1>3, <1>4 DEF Has
<1> QED
  BY <1>5 DEF l

LEMMA DistinctConcat ==
  ASSUME NEW p \in Seq(Items), NEW q \in Seq(Items), Distinct(p), Distinct(q),
         \A y : ~(Has(p, y) /\ Has(q, y))
  PROVE  Distinct(p \o q)
<1> DEFINE l == p \o q
<1>1. /\ DOMAIN l = 1 .. Len(p) + Len(q) /\ DOMAIN p = 1 .. Len(p) /\ DOMAIN q = 1 .. Len(q)
      /\ \A i \in 1 .. Len(p) + Len(q) : l[i] = IF i <= Len(p) THEN p[i] ELSE q[i - Len(p)]
      /\ Len(p) \in Nat /\ Len(q) \in Nat
  OBVIOUS
<1> HIDE DEF l
<1>2. ASSUME NEW i \in DOMAIN l, NEW j \in DOMAIN l, l[i] = l[j] PROVE i = j
  <2>1. \A k \in DOMAIN l : k <= Len(p) => k \in DOMAIN p /\ l[k] = p[k]
    BY <1>1
  <2>2. \A k \in DOMAIN l : ~(k <= Len(p)) => k - Len(p) \in DOMAIN q /\ l[k] = q[k - Len(p)]
    BY <1>1
  <2>3. CASE i <= Len(p) /\ j <= Len(p)
    BY <1>2, <2>1, <2>3 DEF Distinct
  <2>4. CASE ~(i <= Len(p)) /\ ~(j <= Len(p))
    <3>1. i - Len(p) = j - Len(p)
      BY <1>2, <2>2, <2>4 DEF Distinct
    <3> QED
      BY <1>1, <3>1
  <2>5. CASE i <= Len(p) /\ ~(j <= Len(p))
    BY <1>2, <2>1, <2>2, <2>5 DEF Has
  <2>6. CASE ~(i <= Len(p)) /\ j <= Len(p)
    BY <1>2, <2>1, <2>2, <2>6 DEF Has
  <2> QED
    BY <2>3, <2>4, <2>5, <2>6
<1>3. Distinct(l)
  BY <1>2 DEF Distinct
<1> QED
  BY <1>3 DEF l

LEMMA NotLonger ==
  ASSUME NEW p \in Seq(Items), NEW q \in Seq(Items), Distinct(p),
         \A y \in Items : Has(p, y) => Has(q, y)
  PROVE  Len(p) <= Len(q)
<1> DEFINE at == [i \in 1 .. Len(p) |-> CHOOSE j \in DOMAIN q : q[j] = p[i]]
<1>1. \A i \in 1 .. Len(p) : at[i] \in 1 .. Len(q) /\ q[at[i]] = p[i]
  <2>1. ASSUME NEW i \in 1 .. Len(p) PROVE \E j \in DOMAIN q : q[j] = p[i]
    <3>1. p[i] \in Items /\ Has(p, p[i])
      BY DEF Has
    <3> QED
      BY <3>1 DEF Has
  <2> QED
    BY <2>1
<1>2. at \in [1 .. Len(p) -> 1 .. Len(q)]
  BY <1>1
<1>3. \A i, j \in 1 .. Len(p) : at[i] = at[j] => i = j
  BY <1>1 DEF Distinct
<1> HIDE DEF at
<1>4. at \in Injection(1 .. Len(p), 1 .. Len(q))
  BY <1>2, <1>3 DEF Injection, IsInjective
<1>5. \A n \in Nat : IsFiniteSet(1 .. n) /\ Cardinality(1 .. n) = n
  <2> TAKE n \in Nat
  <2>1. n \in Int /\ 1 \in Int
    OBVIOUS
  <2>2. /\ IsFiniteSet(1 .. n)
        /\ Cardinality(1 .. n) = IF 1 > n THEN 0 ELSE n - 1 + 1
    BY <2>1, FS_Interval
  <2> QED
    BY <2>2
<1>6. Cardinality(1 .. Len(p)) <= Cardinality(1 .. Len(q))
  <2>1. IsFiniteSet(1 .. Len(q))
    BY <1>5
  <2> QED
    BY <1>4, <2>1, FS_Injection
<1> QED
  BY <1>5, <1>6

LEMMA SameLength ==
  ASSUME NEW p \in Seq(Items), NEW q \in Seq(Items), Distinct(p), Distinct(q),
         \A y \in Items : Has(p, y) <=> Has(q, y)
  PROVE  Len(p) = Len(q)
<1>1. Len(p) <= Len(q) /\ Len(q) <= Len(p)
  BY NotLonger
<1> QED
  BY <1>1
-----------------------------------------------------------------------------
(* All items of the buckets.                                               *)

LEMMA ChainFollowed ==
  ASSUME NEW t, NEW hash, NEW chains, ChainsAre(t, hash, chains),
         NEW b \in DOMAIN chains, UniqueKeys(chains[b])
  PROVE  Chain(t, b) = chains[b]
<1>1. /\ Linked(chains[b], t.hh_next, t.hh_prev)
      /\ t.tbl.buckets[b].hh_head = NodeAt(chains[b], 1)
  BY DEF ChainsAre, ChainIs
<1>2. Follow(t.hh_next, NodeAt(chains[b], 1)) = chains[b]
  BY <1>1, FollowList
<1> QED
  BY <1>1, <1>2 DEF Chain

AreLists(t, N) == \A b \in 0 .. N - 1 : Chain(t, b) \in Seq(Items)

(* The recursive function of AllItems.                                     *)
LEMMA ItemsOfBuckets ==
  ASSUME NEW t, NEW N \in Nat, AreLists(t, N)
  PROVE  \E f : /\ N = t.tbl.num_buckets => AllItems(t) = f[N]
                /\ f[0] = <<>>
                /\ \A n \in 0 .. N - 1 : f[n + 1] = f[n] \o Chain(t, n)
<1> DEFINE D == Seq(Items)
           none == <<>>
           Join(n, x) == x \o Chain(t, n - 1)
           W == [n \in Nat |-> [x \in D |-> Join(n, x)]]
           G(g) == g = [n \in 0 .. N |-> IF n = 0 THEN none ELSE Join(n, g[n - 1])]
           items == CHOOSE g : G(g)
<1>1. none \in D /\ \A n \in 1 .. N : \A x \in D : Join(n, x) \in D
  <2>1. \A p, q \in Seq(Items) : p \o q \in Seq(Items)
    OBVIOUS
  <2>2. \A n \in 1 .. N : n - 1 \in 0 .. N - 1
    OBVIOUS
  <2> QED
    BY <2>1, <2>2 DEF AreLists
<1>2. N = t.tbl.num_buckets => AllItems(t) = items[N]
  BY DEF AllItems
<1>3. \A n \in 0 .. N - 1 : \A x : Join(n + 1, x) = x \o Chain(t, n)
  <2>1. \A n \in 0 .. N - 1 : n + 1 - 1 = n
    OBVIOUS
  <2> QED
    BY <2>1
<1> HIDE DEF D, none, Join
<1>4. \A n \in 1 .. N : \A x \in D : W[n][x] = Join(n, x)
  OBVIOUS
<1> HIDE DEF W, items
<1>5. PICK f : f \in [0 .. N -> D] /\ IsLoop(f, none, W, N)
  <2>1. \A n \in 1 .. N : \A x \in D : W[n][x] \in D
    BY <1>1, <1>4
  <2> QED
    BY <1>1, <2>1, TypedLoop
<1>6. G(f)
  <2>0. f[0] = none /\ \A n \in 0 .. N - 1 : f[n + 1] = W[n + 1][f[n]]
    <3>1. AreRounds(f, none, W, N)
      BY <1>5, LoopRounds
    <3> QED
      BY <3>1 DEF AreRounds
  <2>1. ASSUME NEW n \in 0 .. N
        PROVE  f[n] = IF n = 0 THEN none ELSE Join(n, f[n - 1])
    <3>1. CASE n = 0
      BY <2>0, <3>1
    <3>2. CASE n # 0
      <4>1. n - 1 \in 0 .. N - 1 /\ n - 1 + 1 = n /\ n \in 1 .. N /\ n - 1 \in 0 .. N
        BY <3>2
      <4>2. f[n - 1 + 1] = W[n - 1 + 1][f[n - 1]]
        BY <2>0, <4>1
      <4> QED
        BY <1>4, <1>5, <3>2, <4>1, <4>2
    <3> QED
      BY <3>1, <3>2
  <2> QED
    BY <1>5, <2>1
<1>7. G(items)
  <2> HIDE DEF G
  <2> QED
    BY <1>6 DEF items
<1>8. items[0] = none
  BY <1>7
<1>9. ASSUME NEW n \in 0 .. N - 1 PROVE items[n + 1] = Join(n + 1, items[n])
  <2>1. n + 1 \in 0 .. N /\ n + 1 # 0 /\ n + 1 - 1 = n
    OBVIOUS
  <2> QED
    BY <1>7, <2>1
<1> QED
  BY <1>2, <1>3, <1>8, <1>9 DEF none

(* They are the items of the chains, each of them once.                    *)
LEMMA AllItemsOnce ==
  ASSUME NEW t, IsTable(t), NEW hash, NEW chains, ChainsAre(t, hash, chains),
         \A b \in DOMAIN chains : UniqueKeys(chains[b])
  PROVE  /\ AllItems(t) \in Seq(Items) /\ Distinct(AllItems(t))
         /\ \A y : Has(AllItems(t), y) <=> \E b \in DOMAIN chains : Has(chains[b], y)
<1> DEFINE N == t.tbl.num_buckets
<1>1. N \in Nat /\ DOMAIN chains = 0 .. N - 1
  BY DEF IsTable, ChainsAre
<1>2. ASSUME NEW b \in 0 .. N - 1
      PROVE  /\ Chain(t, b) = chains[b] /\ chains[b] \in Seq(Items)
             /\ Distinct(chains[b])
  <2>1. b \in DOMAIN chains /\ UniqueKeys(chains[b])
    BY <1>1
  <2>2. Chain(t, b) = chains[b]
    BY <2>1, ChainFollowed
  <2>3. Linked(chains[b], t.hh_next, t.hh_prev)
    BY <2>1 DEF ChainsAre, ChainIs
  <2> QED
    BY <2>2, <2>3 DEF Linked, Distinct
<1>3. \A b, c \in 0 .. N - 1 : \A y : Has(chains[b], y) /\ Has(chains[c], y) => b = c
  BY <1>1 DEF ChainsAre, Has
<1>4. PICK f : /\ AllItems(t) = f[N] /\ f[0] = <<>>
               /\ \A n \in 0 .. N - 1 : f[n + 1] = f[n] \o Chain(t, n)
  <2>2. AreLists(t, N)
    BY <1>2 DEF AreLists
  <2>3. N = t.tbl.num_buckets
    OBVIOUS
  <2> HIDE DEF N
  <2>4. \E f : /\ N = t.tbl.num_buckets => AllItems(t) = f[N]
               /\ f[0] = <<>>
               /\ \A n \in 0 .. N - 1 : f[n + 1] = f[n] \o Chain(t, n)
    BY <1>1, <2>2, ItemsOfBuckets
  <2> QED
    BY <2>3, <2>4
<1> DEFINE I == [n \in Nat |->
                   {x \in Seq(Items) :
                      /\ Distinct(x)
                      /\ \A y : Has(x, y) <=> \E b \in 0 .. n - 1 : Has(chains[b], y)}]
<1>5. f[0] \in I[0]
  <2>1. <<>> \in Seq(Items) /\ Distinct(<<>>) /\ \A y : ~Has(<<>>, y)
    BY DEF Distinct, Has
  <2> QED
    BY <1>4, <2>1
<1>6. ASSUME NEW n \in 0 .. N - 1, f[n] \in I[n] PROVE f[n + 1] \in I[n + 1]
  <2> DEFINE x == f[n]
             q == chains[n]
  <2>1. /\ x \in Seq(Items) /\ Distinct(x)
        /\ \A y : Has(x, y) <=> \E b \in 0 .. n - 1 : Has(chains[b], y)
    BY <1>1, <1>6
  <2>2. q \in Seq(Items) /\ Distinct(q) /\ f[n + 1] = x \o q
    BY <1>2, <1>4
  <2>3. \A y : ~(Has(x, y) /\ Has(q, y))
    <3>1. \A b \in 0 .. n - 1 : b \in 0 .. N - 1 /\ b # n
      BY <1>1
    <3> QED
      BY <1>3, <2>1, <3>1
  <2> HIDE DEF x, q
  <2>4. x \o q \in Seq(Items) /\ Distinct(x \o q)
    BY <2>1, <2>2, <2>3, DistinctConcat
  <2>5. \A y : Has(x \o q, y) <=> \E b \in 0 .. n : Has(chains[b], y)
    <3>1. \A y : Has(x \o q, y) <=> Has(x, y) \/ Has(q, y)
      BY <2>1, <2>2, HasConcat
    <3>2. \A b : b \in 0 .. n <=> b \in 0 .. n - 1 \/ b = n
      BY <1>1
    <3> QED
      BY <2>1, <3>1, <3>2 DEF q
  <2>6. n + 1 \in Nat /\ n + 1 - 1 = n
    BY <1>1
  <2> QED
    BY <2>2, <2>4, <2>5, <2>6
<1>7. f[N] \in I[N]
  <2> HIDE DEF I
  <2> QED
    BY <1>1, <1>5, <1>6, RoundsKeep
<1> QED
  BY <1>1, <1>4, <1>7

(* All items of a table are those of the application order.                *)
LEMMA AllItemsAreOrder ==
  ASSUME NEW t, NEW hash \in [Keys -> Nat], NEW order \in Seq(Items),
         Distinct(order), NEW chains, Hung(t, hash, order, chains),
         \A b \in DOMAIN chains : UniqueKeys(chains[b])
  PROVE  /\ AllItems(t) \in Seq(Items) /\ Distinct(AllItems(t))
         /\ \A y \in Items : Has(AllItems(t), y) <=> Has(order, y)
         /\ Len(AllItems(t)) = Len(order)
<1>1. IsTable(t) /\ ChainsAre(t, hash, chains)
  BY DEF Hung
<1>2. /\ AllItems(t) \in Seq(Items) /\ Distinct(AllItems(t))
      /\ \A y : Has(AllItems(t), y) <=> \E b \in DOMAIN chains : Has(chains[b], y)
  BY <1>1, AllItemsOnce
<1>3. ASSUME NEW y \in Items PROVE Has(AllItems(t), y) <=> Has(order, y)
  <2> DEFINE c == ToBkt(t, hash[KeyOf(y)])
  <2>1. c \in DOMAIN chains
    BY <1>1, BktInRange DEF ChainsAre
  <2>2. \A b \in DOMAIN chains : Has(chains[b], y) => b = c
    BY <1>1 DEF ChainsAre, Has
  <2>3. Has(order, y) <=> Has(chains[c], y)
    BY DEF Hung
  <2> QED
    BY <1>2, <2>1, <2>2, <2>3
<1>4. Len(AllItems(t)) = Len(order)
  BY <1>1, <1>2, <1>3, SameLength
<1> QED
  BY <1>2, <1>3, <1>4
-----------------------------------------------------------------------------
(* The expansion.                                                          *)

(* The tables of n buckets.                                                *)
Tables(n) ==
  [head : Items \cup {NULL}, next : Links, prev : Links,
   hh_next : Links, hh_prev : Links,
   tbl : [tail : Items, num_buckets : {n}, num_items : Int,
          buckets : [0 .. n - 1 -> Bucket],
          ideal_chain_maxlen : Nat, ineff_expands : Nat, noexpand : BOOLEAN]]

LEMMA TablesOfSize ==
  ASSUME NEW n \in Nat \ {0}, NEW t
  PROVE  t \in Tables(n) <=> IsTable(t) /\ t.tbl.num_buckets = n
<1>1. ASSUME t \in Tables(n) PROVE IsTable(t) /\ t.tbl.num_buckets = n
  BY <1>1 DEF Tables, IsTable
<1>2. ASSUME IsTable(t), t.tbl.num_buckets = n PROVE t \in Tables(n)
  BY <1>2 DEF Tables, IsTable
<1> QED
  BY <1>1, <1>2

LEMMA MoveWrites ==
  ASSUME NEW t, IsTable(t), NEW hash \in [Keys -> Nat], NEW x \in Items
  PROVE  /\ IsTable(MoveItem(t, hash, x)) /\ SameSize(t, MoveItem(t, hash, x))
         /\ MoveItem(t, hash, x).tbl.buckets[ToBkt(t, hash[KeyOf(x)])] \in Bucket
<1> DEFINE b == ToBkt(t, hash[KeyOf(x)])
           m == PushInBkt(t, b, x)
           new == PutsOff(m.tbl.buckets[b], t.tbl.ideal_chain_maxlen)
           u == WithBucket(m, b, new)
<1>1. b \in 0 .. t.tbl.num_buckets - 1
  BY BktInRange
<1>2. IsTable(m) /\ SameSize(t, m)
  BY <1>1, PushWrites
<1>3. u = MoveItem(t, hash, x)
  BY DEF MoveItem, WithBucket
<1> HIDE DEF m
<1>4. b \in 0 .. m.tbl.num_buckets - 1 /\ m.tbl.buckets[b] \in Bucket
  BY <1>1, <1>2 DEF SameSize, IsTable
<1>5. new \in Bucket
  BY <1>4 DEF PutsOff, Bucket
<1> HIDE DEF new, b
<1>6. IsTable(u) /\ SameSize(m, u) /\ u.tbl.buckets[b] = new
  BY <1>2, <1>4, <1>5, BucketWritten
<1>7. SameSize(t, u)
  BY <1>2, <1>6 DEF SameSize
<1> QED
  BY <1>3, <1>5, <1>6, <1>7 DEF b

LEMMA MoveNextTyped ==
  ASSUME NEW n \in Nat \ {0}, NEW moved \in [t : Tables(n), nonideal : Nat],
         NEW hash \in [Keys -> Nat], NEW x \in Items
  PROVE  /\ MoveNext(moved, hash, x) \in [t : Tables(n), nonideal : Nat]
         /\ MoveNext(moved, hash, x).t = MoveItem(moved.t, hash, x)
<1> DEFINE u == MoveItem(moved.t, hash, x)
<1>1. IsTable(moved.t) /\ moved.t.tbl.num_buckets = n /\ moved.nonideal \in Nat
  BY TablesOfSize
<1>2. IsTable(u) /\ SameSize(moved.t, u)
  BY <1>1, MoveWrites
<1>3. u \in Tables(n)
  BY <1>1, <1>2, TablesOfSize DEF SameSize
<1> QED
  BY <1>1, <1>3 DEF MoveNext

(* The rounds of MoveAll.                                                  *)
AreMoves(f, fresh, hash, items) ==
  /\ f[0] = [t |-> fresh, nonideal |-> 0]
  /\ \A n \in 0 .. Len(items) - 1 :
       f[n + 1] = MoveNext(f[n], hash, items[n + 1])

LEMMA MovesOfAll ==
  ASSUME NEW fresh, IsTable(fresh), NEW hash \in [Keys -> Nat],
         NEW items \in Seq(Items)
  PROVE  \E f : MoveAll(fresh, hash, items) = f[Len(items)] /\ AreMoves(f, fresh, hash, items)
<1> DEFINE N == Len(items)
           buckets == fresh.tbl.num_buckets
           D == [t : Tables(buckets), nonideal : Nat]
           start == [t |-> fresh, nonideal |-> 0]
           Move(n, x) == MoveNext(x, hash, items[n])
           W == [n \in Nat |-> [x \in D |-> Move(n, x)]]
           G(g) == g = [n \in 0 .. N |-> IF n = 0 THEN start ELSE Move(n, g[n - 1])]
           moved == CHOOSE g : G(g)
<1>1. /\ N \in Nat /\ start \in D
      /\ \A n \in 1 .. N : \A x \in D : Move(n, x) \in D
  <2>1. buckets \in Nat \ {0} /\ fresh \in Tables(buckets)
    <3>1. buckets \in Nat \ {0}
      BY DEF IsTable
    <3> QED
      BY <3>1, TablesOfSize
  <2>2. ASSUME NEW n \in 1 .. N, NEW x \in D PROVE Move(n, x) \in D
    <3>1. items[n] \in Items
      OBVIOUS
    <3> HIDE DEF buckets
    <3> QED
      BY <2>1, <3>1, MoveNextTyped
  <2> HIDE DEF buckets, Move
  <2> QED
    BY <2>1, <2>2
<1>2. MoveAll(fresh, hash, items) = moved[N]
  BY DEF MoveAll
<1>3. \A n \in 0 .. N - 1 : \A x : Move(n + 1, x) = MoveNext(x, hash, items[n + 1])
  OBVIOUS
<1> HIDE DEF D, start, Move, N
<1>4. \A n \in 1 .. N : \A x \in D : W[n][x] = Move(n, x)
  BY <1>1
<1> HIDE DEF W, moved
<1>5. PICK f : f \in [0 .. N -> D] /\ IsLoop(f, start, W, N)
  <2>1. \A n \in 1 .. N : \A x \in D : W[n][x] \in D
    BY <1>1, <1>4
  <2> QED
    BY <1>1, <2>1, TypedLoop
<1>6. G(f)
  <2>0. f[0] = start /\ \A n \in 0 .. N - 1 : f[n + 1] = W[n + 1][f[n]]
    <3>1. AreRounds(f, start, W, N)
      BY <1>1, <1>5, LoopRounds
    <3> QED
      BY <3>1 DEF AreRounds
  <2>1. ASSUME NEW n \in 0 .. N
        PROVE  f[n] = IF n = 0 THEN start ELSE Move(n, f[n - 1])
    <3>1. CASE n = 0
      BY <2>0, <3>1
    <3>2. CASE n # 0
      <4>1. n - 1 \in 0 .. N - 1 /\ n - 1 + 1 = n /\ n \in 1 .. N /\ n - 1 \in 0 .. N
        BY <1>1, <3>2
      <4>2. f[n - 1 + 1] = W[n - 1 + 1][f[n - 1]]
        BY <2>0, <4>1
      <4> QED
        BY <1>4, <1>5, <3>2, <4>1, <4>2
    <3> QED
      BY <3>1, <3>2
  <2> QED
    BY <1>5, <2>1
<1>7. G(moved)
  <2> HIDE DEF G
  <2> QED
    BY <1>6 DEF moved
<1>8. moved[0] = start
  BY <1>1, <1>7
<1>9. ASSUME NEW n \in 0 .. N - 1 PROVE moved[n + 1] = Move(n + 1, moved[n])
  <2>1. n + 1 \in 0 .. N /\ n + 1 # 0 /\ n + 1 - 1 = n
    BY <1>1
  <2>2. \A k \in 0 .. N : moved[k] = IF k = 0 THEN start ELSE Move(k, moved[k - 1])
    BY <1>7
  <2> QED
    BY <2>1, <2>2
<1>10. \A n \in 0 .. N - 1 : moved[n + 1] = MoveNext(moved[n], hash, items[n + 1])
  BY <1>3, <1>9
<1>11. AreMoves(moved, fresh, hash, items)
  BY <1>8, <1>10 DEF AreMoves, start, N
<1> QED
  BY <1>2, <1>11 DEF N

(* The new table after n rounds: the first n items hang in its chains.     *)
HasMoved(u, fresh, hash, items, n, chains) ==
  /\ IsTable(u) /\ SameOrder(fresh, u) /\ SameSize(fresh, u)
  /\ ChainsAre(u, hash, chains)
  /\ WithinMultiples(u, fresh.tbl.ideal_chain_maxlen)
  /\ \A y \in Items : Has(chains[ToBkt(u, hash[KeyOf(y)])], y)
                        <=> \E k \in 1 .. n : items[k] = y

LEMMA RoundMoves ==
  ASSUME NEW u, NEW fresh, NEW hash \in [Keys -> Nat],
         NEW items \in Seq(Items), Distinct(items), NEW n \in 0 .. Len(items) - 1,
         NEW chains, HasMoved(u, fresh, hash, items, n, chains),
         fresh.tbl.ideal_chain_maxlen \in Nat
  PROVE  \E after : HasMoved(MoveItem(u, hash, items[n + 1]), fresh, hash,
                             items, n + 1, after)
<1> DEFINE ideal == fresh.tbl.ideal_chain_maxlen
           x == items[n + 1]
           b == ToBkt(u, hash[KeyOf(x)])
           v == MoveItem(u, hash, x)
           after == [chains EXCEPT ![b] = InsertAt(@, 1, x)]
<1>1. /\ IsTable(u) /\ SameOrder(fresh, u) /\ SameSize(fresh, u)
      /\ ChainsAre(u, hash, chains) /\ WithinMultiples(u, ideal)
      /\ \A y \in Items : Has(chains[ToBkt(u, hash[KeyOf(y)])], y)
                            <=> \E k \in 1 .. n : items[k] = y
  BY DEF HasMoved
<1>2. x \in Items /\ n + 1 \in DOMAIN items
  OBVIOUS
<1>3. ~Has(chains[b], x)
  <2>1. \A k \in 1 .. n : k \in DOMAIN items /\ k # n + 1
    OBVIOUS
  <2>2. \A k \in 1 .. n : items[k] # x
    BY <1>2, <2>1 DEF Distinct
  <2> HIDE DEF x
  <2> QED
    BY <1>1, <1>2, <2>2
<1>4. ideal = u.tbl.ideal_chain_maxlen
  BY <1>1 DEF SameSize
<1>5. b \in 0 .. u.tbl.num_buckets - 1
  BY <1>1, <1>2, BktInRange
<1>6. /\ IsTable(v) /\ SameOrder(u, v) /\ SameSize(u, v)
      /\ ChainsAre(v, hash, after) /\ WithinMultiples(v, ideal)
  <2> HIDE DEF x, ideal
  <2>1. ideal \in Nat
    BY DEF ideal
  <2> QED
    BY <1>1, <1>2, <1>3, <1>4, <2>1, ExpansionMovesItem
<1> HIDE DEF v, x
<1>7. ASSUME NEW y \in Items
      PROVE  Has(after[ToBkt(v, hash[KeyOf(y)])], y)
               <=> y = x \/ Has(chains[ToBkt(u, hash[KeyOf(y)])], y)
  <2> DEFINE c == ToBkt(u, hash[KeyOf(y)])
  <2>1. ToBkt(v, hash[KeyOf(y)]) = c
    BY <1>6 DEF ToBkt, SameSize
  <2>2. c \in DOMAIN chains /\ b \in DOMAIN chains /\ chains[b] \in Seq(Items)
    <3>1. c \in DOMAIN chains
      BY <1>1, BktInRange DEF ChainsAre
    <3> QED
      BY <1>1, <1>5, <3>1 DEF ChainsAre, ChainIs, Linked
  <2>3. CASE c = b
    <3>1. 1 \in 1 .. Len(chains[b]) + 1
      BY <2>2
    <3>2. Has(InsertAt(chains[b], 1, x), y) <=> y = x \/ Has(chains[b], y)
      BY <1>2, <2>2, <3>1, HasInsert
    <3>3. after[b] = InsertAt(chains[b], 1, x)
      BY <2>2
    <3> QED
      BY <2>1, <2>3, <3>2, <3>3
  <2>4. CASE c # b
    <3>1. y # x
      BY <2>4
    <3>2. after[c] = chains[c]
      BY <2>2, <2>4
    <3> QED
      BY <2>1, <3>1, <3>2
  <2> QED
    BY <2>3, <2>4
<1>8. ASSUME NEW y
      PROVE  (\E k \in 1 .. n + 1 : items[k] = y)
               <=> y = x \/ \E k \in 1 .. n : items[k] = y
  <2>1. \A k : k \in 1 .. n + 1 <=> k \in 1 .. n \/ k = n + 1
    OBVIOUS
  <2> QED
    BY <2>1 DEF x
<1>9. SameSize(fresh, v) /\ SameOrder(fresh, v)
  BY <1>1, <1>6 DEF SameSize, SameOrder
<1>10. HasMoved(v, fresh, hash, items, n + 1, after)
  <2> HIDE DEF after
  <2> QED
    BY <1>1, <1>6, <1>7, <1>8, <1>9 DEF HasMoved
<1> QED
  BY <1>10 DEF v, x

LEMMA AllMoved ==
  ASSUME NEW fresh, NEW hash \in [Keys -> Nat],
         NEW items \in Seq(Items), Distinct(items), NEW chains,
         HasMoved(fresh, fresh, hash, items, 0, chains),
         fresh.tbl.ideal_chain_maxlen \in Nat
  PROVE  /\ MoveAll(fresh, hash, items).nonideal \in Nat
         /\ \E after : HasMoved(MoveAll(fresh, hash, items).t, fresh, hash,
                                items, Len(items), after)
<1> DEFINE N == Len(items)
           buckets == fresh.tbl.num_buckets
           D == [t : Tables(buckets), nonideal : Nat]
           I == [n \in Nat |-> {x \in D :
                   \E c : HasMoved(x.t, fresh, hash, items, n, c)}]
<1>1. IsTable(fresh)
  BY DEF HasMoved
<1>2. PICK f : MoveAll(fresh, hash, items) = f[N] /\ AreMoves(f, fresh, hash, items)
  BY <1>1, MovesOfAll
<1>3. buckets \in Nat \ {0} /\ fresh \in Tables(buckets)
  <2>1. buckets \in Nat \ {0}
    BY <1>1 DEF IsTable
  <2> QED
    BY <1>1, <2>1, TablesOfSize
<1>4. f[0] \in I[0]
  <2>1. f[0] = [t |-> fresh, nonideal |-> 0]
    BY <1>2 DEF AreMoves
  <2> DEFINE x == f[0]
  <2>2. x \in D /\ x.t = fresh
    BY <1>3, <2>1
  <2> HIDE DEF x, D, buckets
  <2>3. x \in I[0]
    BY <2>2
  <2> QED
    BY <2>3 DEF x
<1>5. ASSUME NEW n \in 0 .. N - 1, f[n] \in I[n] PROVE f[n + 1] \in I[n + 1]
  <2>1. f[n + 1] = MoveNext(f[n], hash, items[n + 1])
    BY <1>2 DEF AreMoves
  <2>2. n \in Nat /\ n + 1 \in Nat /\ items[n + 1] \in Items
    OBVIOUS
  <2> DEFINE x == f[n]
             y == f[n + 1]
  <2>3. PICK c : x \in D /\ HasMoved(x.t, fresh, hash, items, n, c)
    BY <1>5, <2>2
  <2>4. y \in D /\ y.t = MoveItem(x.t, hash, items[n + 1])
    <3> HIDE DEF x, y, buckets
    <3> DEFINE i == items[n + 1]
    <3>1. i \in Items /\ x \in D
      BY <2>2, <2>3
    <3> HIDE DEF i
    <3>2. MoveNext(x, hash, i) \in D /\ MoveNext(x, hash, i).t = MoveItem(x.t, hash, i)
      BY <1>3, <3>1, MoveNextTyped
    <3>3. y = MoveNext(x, hash, i)
      BY <2>1 DEF x, y, i
    <3> QED
      BY <3>2, <3>3 DEF i
  <2> HIDE DEF x, y, D
  <2>5. PICK after : HasMoved(y.t, fresh, hash, items, n + 1, after)
    <3>1. \E after : HasMoved(MoveItem(x.t, hash, items[n + 1]), fresh, hash,
                             items, n + 1, after)
      BY <2>3, RoundMoves
    <3> QED
      BY <2>4, <3>1
  <2>6. y \in I[n + 1]
    BY <2>2, <2>4, <2>5
  <2> QED
    BY <2>6 DEF y
<1>6. f[N] \in I[N]
  <2> HIDE DEF I
  <2>1. N \in Nat
    OBVIOUS
  <2> HIDE DEF N
  <2> QED
    BY <1>4, <1>5, <2>1, RoundsKeep
<1> DEFINE last == f[N]
<1>7. last \in D /\ \E c : HasMoved(last.t, fresh, hash, items, N, c)
  <2>1. N \in Nat
    OBVIOUS
  <2> HIDE DEF N, D
  <2> QED
    BY <1>6, <2>1
<1> HIDE DEF last
<1>8. last.nonideal \in Nat
  BY <1>7
<1> QED
  BY <1>2, <1>7, <1>8 DEF last

LEMMA ChainsUnique ==
  ASSUME NEW t, NEW hash \in [Keys -> Nat], NEW order, NEW chains,
         Hung(t, hash, order, chains), UniqueKeys(order)
  PROVE  \A b \in DOMAIN chains : UniqueKeys(chains[b])
<1> TAKE b \in DOMAIN chains
<1> DEFINE chain == chains[b]
<1>1. /\ chain \in Seq(Items) /\ \A i, j \in DOMAIN chain : chain[i] = chain[j] => i = j
      /\ \A i \in DOMAIN chain : ToBkt(t, hash[KeyOf(chain[i])]) = b
  BY DEF Hung, ChainsAre, ChainIs, Linked
<1>2. ASSUME NEW i \in DOMAIN chain PROVE Has(order, chain[i])
  <2>1. chain[i] \in Items /\ Has(chain, chain[i])
    BY <1>1 DEF Has
  <2>2. Has(chains[ToBkt(t, hash[KeyOf(chain[i])])], chain[i])
    BY <1>1, <2>1
  <2> QED
    BY <2>1, <2>2 DEF Hung
<1> HIDE DEF chain
<1>3. ASSUME NEW i \in DOMAIN chain, NEW j \in DOMAIN chain,
             KeyOf(chain[i]) = KeyOf(chain[j])
      PROVE  i = j
  <2>1. PICK k \in DOMAIN order : order[k] = chain[i]
    BY <1>2 DEF Has
  <2>2. PICK l \in DOMAIN order : order[l] = chain[j]
    BY <1>2 DEF Has
  <2>3. k = l
    BY <1>3, <2>1, <2>2 DEF UniqueKeys
  <2> QED
    BY <1>1, <2>1, <2>2, <2>3
<1>4. UniqueKeys(chain)
  BY <1>3 DEF UniqueKeys
<1> QED
  BY <1>4 DEF chain

LEMMA IdealIsNumber ==
  ASSUME NEW n \in Nat, NEW d \in Nat \ {0}
  PROVE  Ceiling(n, d) \in Nat /\ (n # 0 => Ceiling(n, d) # 0)
<1>1. n \div d \in Nat /\ n % d \in Nat
  OBVIOUS
<1>2. n \div d = 0 => n % d = n
  OBVIOUS
<1> QED
  BY <1>1, <1>2 DEF Ceiling

(* A table after the expansion's decision on further ones.                 *)
WithDecision(t, ineff, no) ==
  [t EXCEPT !.tbl.ineff_expands = ineff, !.tbl.noexpand = no]

LEMMA ExpansionEnds ==
  ASSUME NEW t, IsTable(t), NEW ineff \in Nat, NEW no \in BOOLEAN
  PROVE  LET u == WithDecision(t, ineff, no)
         IN /\ IsTable(u) /\ SameOrder(t, u) /\ SameChains(t, u)
            /\ u.tbl.num_buckets = t.tbl.num_buckets
            /\ u.tbl.num_items = t.tbl.num_items
            /\ u.tbl.ideal_chain_maxlen = t.tbl.ideal_chain_maxlen
            /\ u.tbl.noexpand = no
<1> DEFINE u == WithDecision(t, ineff, no)
<1>1. /\ SameOrder(t, u) /\ SameChains(t, u)
      /\ u.tbl.num_buckets = t.tbl.num_buckets
      /\ u.tbl.num_items = t.tbl.num_items
      /\ u.tbl.ideal_chain_maxlen = t.tbl.ideal_chain_maxlen
      /\ u.tbl.noexpand = no
  BY DEF IsTable, SameOrder, SameChains, WithDecision
<1>2. IsTable(u)
  <2> DEFINE n == t.tbl.num_buckets
  <2>1. n \in Nat \ {0}
    BY DEF IsTable
  <2> HIDE DEF n
  <2>2. t \in Tables(n)
    BY <2>1, TablesOfSize DEF n
  <2>3. u \in Tables(n)
    BY <2>2 DEF Tables, WithDecision
  <2> HIDE DEF u
  <2> QED
    BY <2>1, <2>3, TablesOfSize
<1> QED
  BY <1>1, <1>2

(* HASH_EXPAND_BUCKETS, whatever number of items the table counts.         *)
LEMMA ExpandHangs ==
  ASSUME NEW t, NEW hash \in [Keys -> Nat], NEW order \in Seq(Items),
         UniqueKeys(order), NEW chains, Hung(t, hash, order, chains),
         t.tbl.num_items \in Nat
  PROVE  LET u == ExpandBuckets(t, hash)
         IN /\ \E after : Hung(u, hash, order, after)
            /\ SameOrder(t, u) /\ u.tbl.num_items = t.tbl.num_items
            /\ t.tbl.num_items # 0 => Bounded(u)
<1> DEFINE items == AllItems(t)
           doubled == 2 * t.tbl.num_buckets
           ideal == Ceiling(t.tbl.num_items, doubled)
           fresh == WithNewBuckets(t, doubled, ideal)
           none == NoChains(doubled)
           done == MoveAll(fresh, hash, items)
           ineff == IF done.nonideal > t.tbl.num_items \div 2
                      THEN t.tbl.ineff_expands + 1 ELSE 0
           u == done.t
           no == u.tbl.noexpand \/ ineff > 1
           v == WithDecision(u, ineff, no)
<1>1. IsTable(t)
  BY DEF Hung
<1>2. /\ items \in Seq(Items) /\ Distinct(items)
      /\ \A y \in Items : Has(items, y) <=> Has(order, y)
  <2>1. Distinct(order)
    BY DEF UniqueKeys, Distinct
  <2> HIDE DEF items
  <2> QED
    BY <2>1, ChainsUnique, AllItemsAreOrder DEF items
<1>3. /\ doubled \in Nat \ {0} /\ ideal \in Nat
      /\ t.tbl.num_items # 0 => ideal # 0
  <2>1. doubled \in Nat \ {0}
    BY <1>1 DEF IsTable
  <2> HIDE DEF doubled
  <2> QED
    BY <2>1, IdealIsNumber
<1>4. ExpandBuckets(t, hash) = v
  <2>1. Doubled(t) = fresh
    BY DEF Doubled, WithNewBuckets
  <2> HIDE DEF fresh
  <2> QED
    BY <2>1 DEF ExpandBuckets, WithDecision
<1> HIDE DEF items, doubled, ideal
<1>5. /\ IsTable(fresh) /\ SameOrder(t, fresh)
      /\ fresh.tbl.num_buckets = doubled /\ fresh.tbl.ideal_chain_maxlen = ideal
      /\ fresh.tbl.num_items = t.tbl.num_items
      /\ ChainsAre(fresh, hash, none) /\ WithinMultiples(fresh, ideal)
  <2>1. doubled \in Nat \ {0} /\ ideal \in Nat /\ IsTable(t)
    BY <1>1, <1>3
  <2>2. IsTable(fresh) /\ SameOrder(t, fresh)
    BY <2>1, ExpansionStarts
  <2>3. /\ fresh.tbl.num_buckets = doubled /\ fresh.tbl.ideal_chain_maxlen = ideal
        /\ fresh.tbl.num_items = t.tbl.num_items
    BY <2>1 DEF WithNewBuckets, IsTable
  <2>4. ChainsAre(fresh, hash, none) /\ WithinMultiples(fresh, ideal)
    BY <2>1, ExpansionStarts
  <2> QED
    BY <2>2, <2>3, <2>4
<1> HIDE DEF fresh
<1>6. HasMoved(fresh, fresh, hash, items, 0, none)
  <2>1. ASSUME NEW y \in Items
        PROVE  ~Has(none[ToBkt(fresh, hash[KeyOf(y)])], y)
    <3>1. ToBkt(fresh, hash[KeyOf(y)]) \in 0 .. doubled - 1
      BY <1>5, BktInRange
    <3> QED
      BY <3>1 DEF Has, NoChains
  <2>2. SameSize(fresh, fresh) /\ SameOrder(fresh, fresh)
    BY DEF SameSize, SameOrder
  <2> HIDE DEF none
  <2> QED
    BY <1>5, <2>1, <2>2 DEF HasMoved
<1>7. /\ done.nonideal \in Nat
      /\ \E after : HasMoved(u, fresh, hash, items, Len(items), after)
  <2> HIDE DEF none
  <2> QED
    BY <1>2, <1>3, <1>5, <1>6, AllMoved
<1>8. PICK after : HasMoved(u, fresh, hash, items, Len(items), after)
  BY <1>7
<1> HIDE DEF done, none
<1>9. /\ IsTable(u) /\ SameOrder(fresh, u) /\ SameSize(fresh, u)
      /\ ChainsAre(u, hash, after) /\ WithinMultiples(u, ideal)
      /\ \A y \in Items : Has(after[ToBkt(u, hash[KeyOf(y)])], y) <=> Has(items, y)
  <2>1. \A y : Has(items, y) <=> \E k \in 1 .. Len(items) : items[k] = y
    BY <1>2 DEF Has
  <2> HIDE DEF u
  <2> QED
    BY <1>5, <1>8, <2>1 DEF HasMoved
<1>10. ineff \in Nat /\ no \in BOOLEAN
  BY <1>1, <1>7, <1>9 DEF IsTable
<1> HIDE DEF u, ineff, no
<1>11. /\ IsTable(v) /\ SameOrder(u, v) /\ SameChains(u, v)
       /\ v.tbl.num_buckets = u.tbl.num_buckets
       /\ v.tbl.num_items = u.tbl.num_items
       /\ v.tbl.ideal_chain_maxlen = u.tbl.ideal_chain_maxlen
  BY <1>9, <1>10, ExpansionEnds, Zenon
<1> HIDE DEF v
<1>12. Hung(v, hash, order, after)
  <2>1. ChainsAre(v, hash, after)
    BY <1>9, <1>11, ChainsStay
  <2>2. \A y : ToBkt(v, y) = ToBkt(u, y)
    BY <1>11 DEF ToBkt
  <2>3. \A y \in Items : Has(order, y) <=> Has(after[ToBkt(v, hash[KeyOf(y)])], y)
    BY <1>2, <1>9, <2>2
  <2> QED
    BY <1>11, <2>1, <2>3 DEF Hung
<1>13. SameOrder(t, v) /\ v.tbl.num_items = t.tbl.num_items
  BY <1>5, <1>9, <1>11 DEF SameOrder, SameSize
<1>14. ASSUME t.tbl.num_items # 0 PROVE Bounded(v)
  <2> DEFINE max == MaxChain(v)
  <2>1. max \in Nat /\ max >= ideal
    BY <1>3, <1>5, <1>9, <1>11, TableAssumption DEF SameSize, MaxChain
  <2> HIDE DEF max
  <2>2. ASSUME NEW b \in DOMAIN v.tbl.buckets
        PROVE  v.tbl.buckets[b].count <= (v.tbl.buckets[b].expand_mult + 1) * max
    <3> DEFINE c == v.tbl.buckets[b].count
               m == v.tbl.buckets[b].expand_mult
    <3>1. b \in 0 .. u.tbl.num_buckets - 1 /\ c \in Int /\ m \in Nat
      BY <1>11 DEF IsTable, Bucket
    <3>2. c <= (m + 1) * ideal
      BY <1>3, <1>9, <1>11, <1>14, <3>1 DEF WithinMultiples, SameChains
    <3> HIDE DEF c, m
    <3>3. (m + 1) * ideal <= (m + 1) * max
      <4> DEFINE k == m + 1
                 d == max - ideal
      <4>1. k \in Nat /\ d \in Nat /\ max = ideal + d
        BY <1>3, <2>1, <3>1
      <4> HIDE DEF k, d
      <4>2. k * d \in Nat /\ k * (ideal + d) = k * ideal + k * d /\ k * ideal \in Nat
        BY <1>3, <4>1
      <4>3. k * ideal <= k * max
        BY <4>1, <4>2
      <4> QED
        BY <4>3 DEF k
    <3>4. (m + 1) * ideal \in Int /\ (m + 1) * max \in Int
      BY <1>3, <2>1, <3>1
    <3>5. c <= (m + 1) * max
      <4> DEFINE p == (m + 1) * ideal
                 q == (m + 1) * max
      <4> HIDE DEF p, q
      <4>1. c <= p /\ p <= q /\ p \in Int /\ q \in Int /\ c \in Int
        BY <3>1, <3>2, <3>3, <3>4 DEF p, q
      <4>2. c <= q
        BY <4>1
      <4> QED
        BY <4>2 DEF q
    <3> QED
      BY <3>5 DEF c, m
  <2> QED
    BY <2>2 DEF Bounded, max
<1> QED
  BY <1>4, <1>12, <1>13, <1>14

(* HASH_EXPAND_BUCKETS keeps the application order and every item; each    *)
(* one is then in the chain that its hash value names among twice as many, *)
(* and no chain is longer than the multiple of the ideal length that its   *)
(* bucket has put off its next expansion to.                               *)
THEOREM ExpandKeepsTable ==
  ASSUME NEW t, NEW hash \in [Keys -> Nat], NEW order, NEW chains,
         Represents(t, hash, order, chains), UniqueKeys(order)
  PROVE  /\ \E after : Represents(ExpandBuckets(t, hash), hash, order, after)
         /\ Bounded(ExpandBuckets(t, hash))
<1> DEFINE u == ExpandBuckets(t, hash)
<1>1. /\ OrderIs(t, order) /\ order \in Seq(Items) /\ t.tbl.num_items = Len(order)
      /\ Hung(t, hash, order, chains)
  BY RepresentsLists DEF Represents, Hung
<1>2. t.tbl.num_items \in Nat /\ t.tbl.num_items # 0
  BY <1>1 DEF OrderIs
<1>3. /\ \E after : Hung(u, hash, order, after)
      /\ SameOrder(t, u) /\ u.tbl.num_items = t.tbl.num_items /\ Bounded(u)
  BY <1>1, <1>2, ExpandHangs
<1> HIDE DEF u
<1>4. PICK after : Hung(u, hash, order, after)
  BY <1>3
<1>5. OrderIs(u, order)
  BY <1>1, <1>3, OrderStays
<1>6. Represents(u, hash, order, after)
  BY <1>1, <1>3, <1>4, <1>5 DEF Hung, Represents
<1> QED
  BY <1>3, <1>6 DEF u
-----------------------------------------------------------------------------
(* HASH_SRT: the merge of two runs.                                        *)

(* The items of a list come in the order of R, a set of pairs.             *)
InOrder(list, R) == \A i, j \in DOMAIN list : i < j => <<list[i], list[j]>> \in R

Transitive(R) == \A x, y, z : <<x, y>> \in R /\ <<y, z>> \in R => <<x, z>> \in R

LEMMA HeadTaken ==
  ASSUME NEW list \in Seq(Items), list # <<>>, NEW x, x = Head(list),
         NEW rest, rest = Tail(list), Distinct(list), NEW R, InOrder(list, R)
  PROVE  /\ x \in Items /\ rest \in Seq(Items) /\ Len(rest) = Len(list) - 1
         /\ Distinct(rest) /\ InOrder(rest, R) /\ ~Has(rest, x)
         /\ \A y : Has(list, y) <=> y = x \/ Has(rest, y)
         /\ \A y : Has(rest, y) => <<x, y>> \in R
<1>1. /\ Len(list) \in Nat \ {0} /\ DOMAIN list = 1 .. Len(list)
      /\ x = list[1] /\ x \in Items
  OBVIOUS
<1>2. /\ rest \in Seq(Items) /\ Len(rest) = Len(list) - 1
      /\ DOMAIN rest = 1 .. Len(list) - 1
      /\ \A i \in 1 .. Len(list) - 1 : rest[i] = list[i + 1]
  OBVIOUS
<1>3. \A i \in DOMAIN rest : i + 1 \in DOMAIN list /\ i + 1 > 1 /\ 1 \in DOMAIN list
  BY <1>1, <1>2
<1>4. Distinct(rest)
  <2>1. \A i, j \in DOMAIN rest : rest[i] = rest[j] => i + 1 = j + 1
    BY <1>2, <1>3 DEF Distinct
  <2> QED
    BY <1>2, <2>1 DEF Distinct
<1>5. InOrder(rest, R)
  <2>1. \A i, j \in DOMAIN rest : i < j => i + 1 < j + 1
    BY <1>2
  <2> QED
    BY <1>2, <1>3, <2>1 DEF InOrder
<1>6. ~Has(rest, x)
  BY <1>1, <1>2, <1>3 DEF Has, Distinct
<1>7. ASSUME NEW y PROVE Has(list, y) <=> y = x \/ Has(rest, y)
  <2>1. \A i \in DOMAIN list : i = 1 \/ (i - 1 \in DOMAIN rest /\ list[i] = rest[i - 1])
    BY <1>1, <1>2
  <2>2. Has(list, y) => y = x \/ Has(rest, y)
    BY <1>1, <2>1 DEF Has
  <2>3. Has(rest, y) => Has(list, y)
    BY <1>2, <1>3 DEF Has
  <2>4. y = x => Has(list, y)
    BY <1>1 DEF Has
  <2> QED
    BY <2>2, <2>3, <2>4
<1>8. \A y : Has(rest, y) => <<x, y>> \in R
  BY <1>1, <1>2, <1>3 DEF Has, InOrder
<1> QED
  BY <1>1, <1>2, <1>4, <1>5, <1>6, <1>7, <1>8

LEMMA LastAdded ==
  ASSUME NEW list \in Seq(Items), NEW x \in Items, ~Has(list, x), Distinct(list),
         NEW R, InOrder(list, R), \A y : Has(list, y) => <<y, x>> \in R
  PROVE  /\ Append(list, x) \in Seq(Items) /\ Len(Append(list, x)) = Len(list) + 1
         /\ Distinct(Append(list, x)) /\ InOrder(Append(list, x), R)
         /\ \A y : Has(Append(list, x), y) <=> y = x \/ Has(list, y)
<1> DEFINE new == Append(list, x)
<1>1. /\ new \in Seq(Items) /\ Len(new) = Len(list) + 1 /\ Len(list) \in Nat
      /\ DOMAIN new = 1 .. Len(list) + 1 /\ DOMAIN list = 1 .. Len(list)
      /\ \A i \in 1 .. Len(list) + 1 : new[i] = IF i <= Len(list) THEN list[i] ELSE x
  OBVIOUS
<1> HIDE DEF new
<1>2. \A i \in DOMAIN list : Has(list, list[i])
  BY DEF Has
<1>3. /\ \A i \in DOMAIN new : i # Len(list) + 1 => i \in DOMAIN list /\ new[i] = list[i]
      /\ Len(list) + 1 \in DOMAIN new /\ new[Len(list) + 1] = x
      /\ \A i \in DOMAIN list : i \in DOMAIN new /\ new[i] = list[i] /\ i < Len(list) + 1
  BY <1>1
<1>4. Distinct(new)
  <2>1. \A i \in DOMAIN list : list[i] # x
    BY <1>2
  <2> QED
    BY <1>3, <2>1 DEF Distinct
<1>5. InOrder(new, R)
  <2>1. ASSUME NEW i \in DOMAIN new, NEW j \in DOMAIN new, i < j
        PROVE  <<new[i], new[j]>> \in R
    <3>1. i \in DOMAIN list /\ new[i] = list[i]
      BY <1>1, <2>1
    <3>2. CASE j = Len(list) + 1
      BY <1>2, <1>3, <3>1, <3>2
    <3>3. CASE j # Len(list) + 1
      BY <1>3, <2>1, <3>1, <3>3 DEF InOrder
    <3> QED
      BY <3>2, <3>3
  <2> QED
    BY <2>1 DEF InOrder
<1>6. ASSUME NEW y PROVE Has(new, y) <=> y = x \/ Has(list, y)
  BY <1>3 DEF Has
<1> QED
  BY <1>1, <1>4, <1>5, <1>6 DEF new

(* Two runs p and q that are partly merged: what comes first is there.     *)
Mixed(m, p, q, R) ==
  /\ m \in [left : Seq(Items), right : Seq(Items), out : Seq(Items)]
  /\ Distinct(m.left) /\ Distinct(m.right) /\ Distinct(m.out)
  /\ InOrder(m.left, R) /\ InOrder(m.right, R) /\ InOrder(m.out, R)
  /\ \A y : Has(m.left, y) => Has(p, y) /\ ~Has(m.right, y)
  /\ \A y : Has(m.right, y) => Has(q, y)
  /\ \A y : Has(m.out, y) => ~Has(m.left, y) /\ ~Has(m.right, y)
  /\ \A y : Has(p, y) \/ Has(q, y) <=> Has(m.left, y) \/ Has(m.right, y) \/ Has(m.out, y)
  /\ \A x, y : Has(m.out, x) /\ (Has(m.left, y) \/ Has(m.right, y)) => <<x, y>> \in R

(* How the comparison is related to the order, for one item of each run.   *)
Agrees(p, q, greater, R) ==
  \A x, y : Has(p, x) /\ Has(q, y) =>
    IF <<x, y>> \in greater THEN <<y, x>> \in R ELSE <<x, y>> \in R

LEMMA TakeLeft ==
  ASSUME NEW m, NEW p, NEW q, NEW R, Mixed(m, p, q, R), Transitive(R),
         m.left # <<>>,
         m.right # <<>> => <<Head(m.left), Head(m.right)>> \in R
  PROVE  /\ Mixed(FromLeft(m), p, q, R)
         /\ Len(FromLeft(m).left) = Len(m.left) - 1 /\ FromLeft(m).right = m.right
<1> DEFINE x == Head(m.left)
           rest == Tail(m.left)
           new == Append(m.out, x)
           u == FromLeft(m)
<1>1. /\ m \in [left : Seq(Items), right : Seq(Items), out : Seq(Items)]
      /\ Distinct(m.left) /\ Distinct(m.right) /\ Distinct(m.out)
      /\ InOrder(m.left, R) /\ InOrder(m.right, R) /\ InOrder(m.out, R)
      /\ \A y : Has(m.left, y) => Has(p, y) /\ ~Has(m.right, y)
      /\ \A y : Has(m.right, y) => Has(q, y)
      /\ \A y : Has(m.out, y) => ~Has(m.left, y) /\ ~Has(m.right, y)
      /\ \A y : Has(p, y) \/ Has(q, y)
                  <=> Has(m.left, y) \/ Has(m.right, y) \/ Has(m.out, y)
      /\ \A y, z : Has(m.out, y) /\ (Has(m.left, z) \/ Has(m.right, z)) => <<y, z>> \in R
  BY DEF Mixed
<1>2. m.left \in Seq(Items) /\ m.right \in Seq(Items) /\ m.out \in Seq(Items)
  BY <1>1
<1>3. /\ u.left = rest /\ u.right = m.right /\ u.out = new
      /\ (rest \in Seq(Items) /\ new \in Seq(Items) =>
            u \in [left : Seq(Items), right : Seq(Items), out : Seq(Items)])
  <2>1. m \in [left : Seq(Items), right : Seq(Items), out : Seq(Items)]
    BY <1>1
  <2> QED
    BY <2>1 DEF FromLeft
<1>4. /\ x \in Items /\ rest \in Seq(Items) /\ Len(rest) = Len(m.left) - 1
      /\ Distinct(rest) /\ InOrder(rest, R) /\ ~Has(rest, x)
      /\ \A y : Has(m.left, y) <=> y = x \/ Has(rest, y)
      /\ \A y : Has(rest, y) => <<x, y>> \in R
  BY <1>1, <1>2, HeadTaken
<1>5. ASSUME NEW y, Has(m.right, y) PROVE <<x, y>> \in R
  <2>1. m.right # <<>>
    BY <1>5 DEF Has
  <2>2. \A z : Has(m.right, z) <=> z = Head(m.right) \/ Has(Tail(m.right), z)
    BY <1>1, <1>2, <2>1, HeadTaken
  <2>3. \A z : Has(Tail(m.right), z) => <<Head(m.right), z>> \in R
    BY <1>1, <1>2, <2>1, HeadTaken
  <2>4. <<x, Head(m.right)>> \in R
    BY <2>1
  <2> HIDE DEF x
  <2> QED
    BY <1>5, <2>2, <2>3, <2>4 DEF Transitive
<1> HIDE DEF x, rest, u
<1>6. /\ new \in Seq(Items) /\ Distinct(new) /\ InOrder(new, R)
      /\ \A y : Has(new, y) <=> y = x \/ Has(m.out, y)
  BY <1>1, <1>2, <1>4, LastAdded
<1> HIDE DEF new
<1>7. u.left = rest /\ u.right = m.right /\ u.out = new
  BY <1>3
<1>8. u \in [left : Seq(Items), right : Seq(Items), out : Seq(Items)]
  BY <1>2, <1>3, <1>4, <1>6
<1>9. Mixed(u, p, q, R)
  <2>1. \A y : Has(rest, y) => Has(p, y) /\ ~Has(m.right, y)
    BY <1>1, <1>4
  <2>2. \A y : Has(new, y) => ~Has(rest, y) /\ ~Has(m.right, y)
    BY <1>1, <1>4, <1>6
  <2>3. \A y : Has(p, y) \/ Has(q, y)
                 <=> Has(rest, y) \/ Has(m.right, y) \/ Has(new, y)
    BY <1>1, <1>4, <1>6
  <2>4. \A y, z : Has(new, y) /\ (Has(rest, z) \/ Has(m.right, z)) => <<y, z>> \in R
    BY <1>1, <1>4, <1>5, <1>6
  <2> QED
    BY <1>1, <1>4, <1>6, <1>7, <1>8, <2>1, <2>2, <2>3, <2>4 DEF Mixed
<1> QED
  BY <1>4, <1>7, <1>9 DEF u

Swapped(m) == [left |-> m.right, right |-> m.left, out |-> m.out]

LEMMA MixedSwapped ==
  ASSUME NEW m, NEW p, NEW q, NEW R, Mixed(m, p, q, R)
  PROVE  Mixed(Swapped(m), q, p, R)
<1>1. /\ Swapped(m).left = m.right /\ Swapped(m).right = m.left
      /\ Swapped(m).out = m.out
      /\ Swapped(m) \in [left : Seq(Items), right : Seq(Items), out : Seq(Items)]
  BY DEF Mixed, Swapped
<1> QED
  BY <1>1 DEF Mixed

LEMMA TakeRight ==
  ASSUME NEW m, NEW p, NEW q, NEW R, Mixed(m, p, q, R), Transitive(R),
         m.right # <<>>,
         m.left # <<>> => <<Head(m.right), Head(m.left)>> \in R
  PROVE  /\ Mixed(FromRight(m), p, q, R)
         /\ Len(FromRight(m).right) = Len(m.right) - 1 /\ FromRight(m).left = m.left
<1> DEFINE s == Swapped(m)
           u == FromLeft(s)
<1>1. Mixed(s, q, p, R) /\ s.left = m.right /\ s.right = m.left /\ s.out = m.out
  BY MixedSwapped DEF Swapped
<1> HIDE DEF s
<1>4. /\ Mixed(u, q, p, R) /\ Len(u.left) = Len(s.left) - 1 /\ u.right = s.right
  BY <1>1, TakeLeft
<1>5. Swapped(u) = FromRight(m)
  BY <1>1 DEF FromLeft, FromRight, Swapped
<1>6. Mixed(Swapped(u), p, q, R)
  BY <1>4, MixedSwapped
<1>7. Swapped(u).right = u.left /\ Swapped(u).left = u.right
  BY DEF Swapped
<1> HIDE DEF u
<1> QED
  BY <1>1, <1>4, <1>5, <1>6, <1>7

(* One round of the merge.                                                 *)
LEMMA TakeNextMixes ==
  ASSUME NEW m, NEW p, NEW q, NEW R, NEW greater, Mixed(m, p, q, R), Transitive(R),
         Agrees(p, q, greater, R), Len(m.left) + Len(m.right) > 0
  PROVE  /\ Mixed(TakeNext(m, greater), p, q, R)
         /\ Len(TakeNext(m, greater).left) + Len(TakeNext(m, greater).right)
              = (Len(m.left) + Len(m.right)) - 1
<1>1. /\ m.left \in Seq(Items) /\ m.right \in Seq(Items)
      /\ Len(m.left) \in Nat /\ Len(m.right) \in Nat
      /\ \A y : Has(m.left, y) => Has(p, y)
      /\ \A y : Has(m.right, y) => Has(q, y)
  BY DEF Mixed
<1>2. /\ m.left # <<>> => Has(m.left, Head(m.left))
      /\ m.right # <<>> => Has(m.right, Head(m.right))
  <2>1. ASSUME NEW l \in Seq(Items), l # <<>> PROVE Has(l, Head(l))
    <3>1. Head(l) = l[1] /\ 1 \in DOMAIN l
      BY <2>1
    <3> QED
      BY <3>1 DEF Has
  <2> QED
    BY <1>1, <2>1
<1>3. m.left # <<>> \/ m.right # <<>>
  <2>1. /\ m.left = <<>> => Len(m.left) = 0
        /\ m.right = <<>> => Len(m.right) = 0
    OBVIOUS
  <2> DEFINE a == Len(m.left)
             b == Len(m.right)
  <2>2. a + b > 0 /\ (m.left = <<>> => a = 0) /\ (m.right = <<>> => b = 0)
    BY <2>1
  <2> HIDE DEF a, b
  <2> QED
    BY <2>2
<1>4. m.left # <<>> /\ m.right # <<>> =>
        IF <<Head(m.left), Head(m.right)>> \in greater
          THEN <<Head(m.right), Head(m.left)>> \in R
          ELSE <<Head(m.left), Head(m.right)>> \in R
  BY <1>1, <1>2 DEF Agrees
<1>5. CASE /\ m.left # <<>>
           /\ m.right = <<>> \/ <<Head(m.left), Head(m.right)>> \notin greater
  <2>1. TakeNext(m, greater) = FromLeft(m)
    BY <1>5 DEF TakeNext
  <2>2. m.right # <<>> => <<Head(m.left), Head(m.right)>> \in R
    BY <1>4, <1>5
  <2>3. /\ Mixed(FromLeft(m), p, q, R)
        /\ Len(FromLeft(m).left) = Len(m.left) - 1 /\ FromLeft(m).right = m.right
    BY <1>5, <2>2, TakeLeft
  <2> QED
    BY <1>1, <2>1, <2>3
<1>6. CASE ~ /\ m.left # <<>>
             /\ m.right = <<>> \/ <<Head(m.left), Head(m.right)>> \notin greater
  <2>1. TakeNext(m, greater) = FromRight(m)
    BY <1>6 DEF TakeNext
  <2>2. m.right # <<>> /\ (m.left # <<>> => <<Head(m.right), Head(m.left)>> \in R)
    BY <1>3, <1>4, <1>6
  <2>3. /\ Mixed(FromRight(m), p, q, R)
        /\ Len(FromRight(m).right) = Len(m.right) - 1 /\ FromRight(m).left = m.left
    BY <2>2, TakeRight
  <2> QED
    BY <1>1, <2>1, <2>3
<1> QED
  BY <1>5, <1>6
-----------------------------------------------------------------------------
(* HASH_SRT: the merge of two runs to its end.                             *)

(* A loop whose rounds lead from one set of values to the next.            *)
LEMMA GradedLoop ==
  ASSUME NEW N \in Nat, NEW I, NEW start, start \in I[0], NEW W,
         \A n \in 0 .. N - 1 : \A x \in I[n] : W[n + 1][x] \in I[n + 1]
  PROVE  \E f : /\ IsLoop(f, start, W, N)
                /\ \A n \in 0 .. N : f[n] \in I[n]
<1>1. PICK f : IsLoop(f, start, W, N)
  BY LoopExists
<1>2. f[0] = start /\ \A n \in 0 .. N - 1 : f[n + 1] = W[n + 1][f[n]]
  BY <1>1, LoopRounds DEF AreRounds
<1> DEFINE S == {n \in Nat : n <= N => f[n] \in I[n]}
<1>3. 0 \in S
  BY <1>2
<1>4. ASSUME NEW n \in Nat, n \in S PROVE n + 1 \in S
  <2>1. CASE n + 1 <= N
    <3>1. n \in 0 .. N - 1 /\ f[n] \in I[n]
      BY <1>4, <2>1
    <3> QED
      BY <1>2, <3>1
  <2> QED
    BY <2>1
<1>5. Nat \subseteq S
  <2> HIDE DEF S
  <2> QED
    BY <1>3, <1>4, SetInduction
<1> QED
  BY <1>1, <1>5

LEMMA MergeKeeps ==
  ASSUME NEW p \in Seq(Items), NEW q \in Seq(Items), Distinct(p), Distinct(q),
         \A y : ~(Has(p, y) /\ Has(q, y)),
         NEW R, Transitive(R), InOrder(p, R), InOrder(q, R),
         NEW greater, Agrees(p, q, greater, R)
  PROVE  LET list == Merge(p, q, greater)
         IN /\ list \in Seq(Items) /\ Distinct(list) /\ InOrder(list, R)
            /\ \A y : Has(list, y) <=> Has(p, y) \/ Has(q, y)
<1> DEFINE N == Len(p) + Len(q)
           none == <<>>
           start == [left |-> p, right |-> q, out |-> none]
           Take(x) == TakeNext(x, greater)
           I == [n \in Nat |->
                   {m \in [left : Seq(Items), right : Seq(Items), out : Seq(Items)] :
                      /\ Mixed(m, p, q, R)
                      /\ Len(m.left) + Len(m.right) = N - n}]
           W == [n \in Nat |-> [x \in I[n - 1] |-> Take(x)]]
           G(g) == g = [n \in 0 .. N |-> IF n = 0 THEN start ELSE Take(g[n - 1])]
           merged == CHOOSE g : G(g)
<1>1. N \in Nat
  OBVIOUS
<1>2. Merge(p, q, greater) = merged[N].out
  BY DEF Merge
<1>3. \A n \in Nat : \A m : m \in I[n] <=> /\ Mixed(m, p, q, R)
                                           /\ Len(m.left) + Len(m.right) = N - n
  BY DEF Mixed
<1>4. start \in I[0]
  <2>1. start.left = p /\ start.right = q /\ start.out = none
    OBVIOUS
  <2>2. none \in Seq(Items) /\ (\A y : ~Has(none, y))
        /\ Distinct(none) /\ InOrder(none, R)
    BY DEF Has, Distinct, InOrder
  <2>3. start \in [left : Seq(Items), right : Seq(Items), out : Seq(Items)]
    BY <2>2
  <2> HIDE DEF start, none
  <2>4. Mixed(start, p, q, R)
    BY <2>1, <2>2, <2>3 DEF Mixed
  <2>5. Len(start.left) + Len(start.right) = N - 0
    BY <1>1, <2>1
  <2> HIDE DEF I
  <2> QED
    BY <1>3, <2>4, <2>5
<1> HIDE DEF I, start
<1>5. ASSUME NEW n \in 0 .. N - 1, NEW x \in I[n] PROVE Take(x) \in I[n + 1]
  <2>1. n \in Nat /\ n + 1 \in Nat /\ N - n > 0 /\ N - n - 1 = N - (n + 1)
    BY <1>1
  <2>2. Mixed(x, p, q, R) /\ Len(x.left) + Len(x.right) = N - n
    BY <1>3, <2>1
  <2>3. Len(x.left) + Len(x.right) > 0
    BY <2>1, <2>2
  <2>4. /\ Mixed(Take(x), p, q, R)
        /\ Len(Take(x).left) + Len(Take(x).right) = (Len(x.left) + Len(x.right)) - 1
    BY <2>2, <2>3, TakeNextMixes
  <2> DEFINE y == Take(x)
  <2> HIDE DEF Take, N
  <2>5. Mixed(y, p, q, R) /\ Len(y.left) + Len(y.right) = (Len(x.left) + Len(x.right)) - 1
    BY <2>4
  <2> HIDE DEF y
  <2> DEFINE l == Len(x.left) + Len(x.right)
             r == Len(y.left) + Len(y.right)
  <2>6. l = N - n /\ r = l - 1
    BY <2>2, <2>5
  <2> HIDE DEF l, r
  <2>7. r = N - (n + 1) /\ n + 1 \in Nat
    BY <1>1, <2>1, <2>6
  <2>8. \A k \in Nat : Mixed(y, p, q, R) /\ r = N - k => y \in I[k]
    BY <1>3 DEF r
  <2>9. y \in I[n + 1]
    BY <2>5, <2>7, <2>8
  <2> QED
    BY <2>9 DEF y
<1>6. ASSUME NEW n \in 0 .. N - 1, NEW x \in I[n] PROVE W[n + 1][x] = Take(x)
  <2>1. n + 1 \in Nat /\ n + 1 - 1 = n
    BY <1>1
  <2> HIDE DEF Take
  <2> QED
    BY <2>1
<1> HIDE DEF W, Take, N, merged
<1>7. PICK f : IsLoop(f, start, W, N) /\ \A n \in 0 .. N : f[n] \in I[n]
  <2>1. \A n \in 0 .. N - 1 : \A x \in I[n] : W[n + 1][x] \in I[n + 1]
    BY <1>5, <1>6
  <2> QED
    BY <1>1, <1>4, <2>1, GradedLoop
<1>8. G(f)
  <2>1. ASSUME NEW n \in 0 .. N
        PROVE  (IF n = 0 THEN start ELSE W[n][f[n - 1]])
                 = IF n = 0 THEN start ELSE Take(f[n - 1])
    <3>1. CASE n # 0
      <4>1. n - 1 \in 0 .. N - 1 /\ n - 1 + 1 = n /\ n - 1 \in 0 .. N
        BY <1>1, <3>1
      <4>2. W[n - 1 + 1][f[n - 1]] = Take(f[n - 1])
        BY <1>6, <1>7, <4>1
      <4> QED
        BY <3>1, <4>1, <4>2
    <3> QED
      BY <3>1
  <2>2. f = [n \in 0 .. N |-> IF n = 0 THEN start ELSE W[n][f[n - 1]]]
    BY <1>7 DEF IsLoop
  <2> QED
    BY <2>1, <2>2
<1>9. G(merged)
  <2> HIDE DEF G
  <2> QED
    BY <1>8 DEF merged
<1>10. merged[N] \in I[N]
  <2>1. \A k \in 0 .. N : merged[k] = IF k = 0 THEN start ELSE Take(merged[k - 1])
    BY <1>9
  <2>2. merged[0] \in I[0]
    BY <1>1, <1>4, <2>1
  <2>3. ASSUME NEW n \in 0 .. N - 1, merged[n] \in I[n] PROVE merged[n + 1] \in I[n + 1]
    <3>1. n + 1 \in 0 .. N /\ n + 1 # 0 /\ n + 1 - 1 = n
      BY <1>1
    <3>2. merged[n + 1] = Take(merged[n])
      BY <2>1, <3>1
    <3> QED
      BY <1>5, <2>3, <3>2
  <2> QED
    BY <1>1, <2>2, <2>3, RoundsKeep
<1> DEFINE m == merged[N]
<1>11. Mixed(m, p, q, R) /\ Len(m.left) + Len(m.right) = N - N
  BY <1>1, <1>3, <1>10
<1> HIDE DEF m
<1>12. (\A y : ~Has(m.left, y)) /\ (\A y : ~Has(m.right, y))
  <2>1. m.left \in Seq(Items) /\ m.right \in Seq(Items)
    BY <1>11 DEF Mixed
  <2> DEFINE a == Len(m.left)
             b == Len(m.right)
  <2>2. a \in Nat /\ b \in Nat
    BY <2>1
  <2>3. a + b = N - N
    BY <1>11, Zenon
  <2> HIDE DEF a, b
  <2>4. a = 0 /\ b = 0
    BY <1>1, <2>2, <2>3
  <2>5. Len(m.left) = 0 /\ Len(m.right) = 0
    BY <2>4 DEF a, b
  <2> QED
    BY <2>1, <2>5 DEF Has
<1>13. /\ m.out \in Seq(Items) /\ Distinct(m.out) /\ InOrder(m.out, R)
       /\ \A y : Has(p, y) \/ Has(q, y) <=> Has(m.out, y)
  <2>1. /\ m.out \in Seq(Items) /\ Distinct(m.out) /\ InOrder(m.out, R)
        /\ \A y : Has(p, y) \/ Has(q, y)
                    <=> Has(m.left, y) \/ Has(m.right, y) \/ Has(m.out, y)
    BY <1>11 DEF Mixed
  <2> QED
    BY <1>12, <2>1
<1> QED
  BY <1>2, <1>13 DEF m
-----------------------------------------------------------------------------
(* HASH_SRT: the passes.  A list is cut into runs of size items.           *)

IsCut(size, c) == \E k \in Nat : c = k * size

LEMMA Cuts ==
  ASSUME NEW size \in Nat \ {0}
  PROVE  /\ IsCut(size, 0)
         /\ \A c : IsCut(size, c) => c \in Nat /\ IsCut(size, c + size)
         /\ \A c, d : IsCut(size, c) /\ IsCut(size, d) /\ c < d => d >= c + size
         /\ \A c : IsCut(2 * size, c) => IsCut(size, c)
<1>1. \A k \in Nat : k * size \in Nat /\ k * size + size = (k + 1) * size
  OBVIOUS
<1>2. IsCut(size, 0)
  <2>1. 0 = 0 * size /\ 0 \in Nat
    OBVIOUS
  <2> QED
    BY <2>1 DEF IsCut
<1>3. ASSUME NEW c, IsCut(size, c) PROVE c \in Nat /\ IsCut(size, c + size)
  <2>1. PICK k \in Nat : c = k * size
    BY <1>3 DEF IsCut
  <2>2. k + 1 \in Nat /\ c + size = (k + 1) * size
    BY <1>1, <2>1
  <2> QED
    BY <1>1, <2>1, <2>2 DEF IsCut
<1>4. ASSUME NEW c, NEW d, IsCut(size, c), IsCut(size, d), c < d PROVE d >= c + size
  <2>1. PICK k \in Nat : c = k * size
    BY <1>4 DEF IsCut
  <2>2. PICK l \in Nat : d = l * size
    BY <1>4 DEF IsCut
  <2>3. CASE l <= k
    <3> DEFINE e == k - l
    <3>1. e \in Nat /\ k = l + e
      BY <2>3
    <3> HIDE DEF e
    <3>2. (l + e) * size = l * size + e * size /\ e * size \in Nat /\ l * size \in Nat
      BY <3>1
    <3>3. c = d + e * size /\ d \in Nat
      BY <2>1, <2>2, <3>1, <3>2
    <3> QED
      BY <1>4, <3>2, <3>3
  <2>4. CASE l > k
    <3> DEFINE e == l - (k + 1)
    <3>1. e \in Nat /\ l = (k + 1) + e
      BY <2>4
    <3> HIDE DEF e
    <3>2. /\ ((k + 1) + e) * size = (k + 1) * size + e * size
          /\ e * size \in Nat /\ (k + 1) * size \in Nat
      BY <3>1
    <3>3. d = c + size + e * size /\ c \in Nat
      BY <1>1, <2>1, <2>2, <3>1, <3>2
    <3> QED
      BY <3>2, <3>3
  <2> QED
    BY <2>3, <2>4
<1>5. ASSUME NEW c, IsCut(2 * size, c) PROVE IsCut(size, c)
  <2>1. PICK k \in Nat : c = k * (2 * size)
    BY <1>5 DEF IsCut
  <2>2. c = (2 * k) * size /\ 2 * k \in Nat
    BY <2>1
  <2> QED
    BY <2>2 DEF IsCut
<1> QED
  BY <1>2, <1>3, <1>4, <1>5

(* The first c items of a list.                                            *)
Before(list, c, y) == \E i \in DOMAIN list : i <= c /\ list[i] = y

(* The items between two places.                                           *)
Part(list, a, b) == SubSeq(list, a + 1, b)

LEMMA Parts ==
  ASSUME NEW list \in Seq(Items), Distinct(list), NEW a \in Nat, NEW b \in Nat,
         a <= b, b <= Len(list)
  PROVE  /\ Part(list, a, b) \in Seq(Items) /\ Len(Part(list, a, b)) = b - a
         /\ DOMAIN Part(list, a, b) = 1 .. b - a
         /\ \A i \in 1 .. b - a : Part(list, a, b)[i] = list[a + i]
         /\ Distinct(Part(list, a, b))
         /\ \A y : Has(Part(list, a, b), y) <=> Before(list, b, y) /\ ~Before(list, a, y)
<1> DEFINE part == SubSeq(list, a + 1, b)
<1>1. /\ part \in Seq(Items) /\ Len(part) = b - a /\ DOMAIN part = 1 .. b - a
      /\ \A i \in 1 .. b - a : part[i] = list[a + i]
      /\ DOMAIN list = 1 .. Len(list) /\ Len(list) \in Nat
  OBVIOUS
<1> HIDE DEF part
<1>2. Distinct(part)
  <2>1. \A i \in 1 .. b - a : a + i \in DOMAIN list
    BY <1>1
  <2>2. ASSUME NEW i \in 1 .. b - a, NEW j \in 1 .. b - a, part[i] = part[j]
        PROVE  i = j
    <3>1. list[a + i] = list[a + j]
      BY <1>1, <2>2
    <3>2. a + i = a + j
      BY <2>1, <3>1 DEF Distinct
    <3> QED
      BY <3>2
  <2> QED
    BY <1>1, <2>2 DEF Distinct
<1>3. ASSUME NEW y, Has(part, y) PROVE Before(list, b, y) /\ ~Before(list, a, y)
  <2>1. PICK i \in 1 .. b - a : part[i] = y
    BY <1>1, <1>3 DEF Has
  <2>2. a + i \in DOMAIN list /\ list[a + i] = y /\ a + i <= b /\ ~(a + i <= a)
    BY <1>1, <2>1
  <2> QED
    BY <2>2 DEF Before, Distinct
<1>4. ASSUME NEW y, Before(list, b, y), ~Before(list, a, y) PROVE Has(part, y)
  <2>1. PICK i \in DOMAIN list : i <= b /\ list[i] = y
    BY <1>4 DEF Before
  <2>2. i \in Nat /\ ~(i <= a)
    BY <1>1, <1>4, <2>1 DEF Before
  <2>3. i - a \in 1 .. b - a /\ a + (i - a) = i
    BY <2>1, <2>2
  <2>4. part[i - a] = y
    BY <1>1, <2>1, <2>3
  <2> QED
    BY <1>1, <2>3, <2>4 DEF Has
<1> QED
  BY <1>1, <1>2, <1>3, <1>4 DEF Part, part

(* Where items with no cut between them come in the order of R.            *)
RunsSorted(list, size, R) ==
  \A i, j \in DOMAIN list :
    i < j /\ (\A c \in i .. j - 1 : ~IsCut(size, c)) => <<list[i], list[j]>> \in R

(* Between cuts the two lists have the same items.                         *)
InPlace(list, orig, size) ==
  \A c \in Nat : IsCut(size, c) /\ c <= Len(list) =>
    \A y : Before(list, c, y) <=> Before(orig, c, y)

(* The order of R is that of a stable sort of the list orig.               *)
Decides(orig, greater, R) ==
  \A i, j \in DOMAIN orig : i < j =>
    IF <<orig[i], orig[j]>> \in greater THEN <<orig[j], orig[i]>> \in R
                                        ELSE <<orig[i], orig[j]>> \in R

(* A list whose runs are sorted, with what orig has.                       *)
Sorting(list, orig, size, R) ==
  /\ list \in Seq(Items) /\ Distinct(list) /\ Len(list) = Len(orig)
  /\ \A y : Has(list, y) <=> Has(orig, y)
  /\ InPlace(list, orig, size)
  /\ RunsSorted(list, size, R)

(* A run inside the list.                                                  *)
LEMMA RunInOrder ==
  ASSUME NEW list \in Seq(Items), Distinct(list), NEW size \in Nat \ {0}, NEW R,
         RunsSorted(list, size, R), NEW a \in Nat, NEW b \in Nat,
         a <= b, b <= Len(list), b <= a + size, IsCut(size, a) \/ a = b
  PROVE  InOrder(Part(list, a, b), R)
<1> DEFINE part == Part(list, a, b)
<1>1. /\ DOMAIN part = 1 .. b - a
      /\ \A i \in 1 .. b - a : part[i] = list[a + i]
  BY Parts, ZenonT(40)
<1>2. Len(list) \in Nat /\ DOMAIN list = 1 .. Len(list)
  OBVIOUS
<1> HIDE DEF part
<1>3. ASSUME NEW i \in 1 .. b - a, NEW j \in 1 .. b - a, i < j
      PROVE  <<part[i], part[j]>> \in R
  <2>1. a + i \in DOMAIN list /\ a + j \in DOMAIN list /\ a + i < a + j
    BY <1>2, <1>3
  <2>2. ASSUME NEW c \in (a + i) .. (a + j) - 1 PROVE ~IsCut(size, c)
    <3>1. a < c /\ ~(c >= a + size) /\ a # b
      BY <1>3
    <3> QED
      BY <3>1, Cuts
  <2>3. <<list[a + i], list[a + j]>> \in R
    BY <2>1, <2>2 DEF RunsSorted
  <2> QED
    BY <1>1, <2>3
<1> QED
  BY <1>1, <1>3 DEF InOrder, part

(* What a pass has after k rounds: the first items of the list, in runs of *)
(* twice the size.                                                         *)
PartPassed(out, list, double, R, k) ==
  /\ out \in Seq(Items) /\ Distinct(out)
  /\ Len(out) <= Len(list)
  /\ IsCut(double, Len(out)) \/ Len(out) = Len(list)
  /\ Len(out) >= k \/ Len(out) = Len(list)
  /\ \A y : Has(out, y) <=> Before(list, Len(out), y)
  /\ InPlace(out, list, double)
  /\ RunsSorted(out, double, R)

(* The next two runs agree with the order that the stable sort gives.      *)
LEMMA RunsAgree ==
  ASSUME NEW list, NEW orig \in Seq(Items), NEW size \in Nat \ {0}, NEW R, NEW greater,
         Sorting(list, orig, size, R), Decides(orig, greater, R), Distinct(orig),
         NEW a \in Nat, NEW b \in Nat, NEW d \in Nat, a <= b, b <= d, d <= Len(list),
         IsCut(size, b) \/ b = Len(list)
  PROVE  Agrees(Part(list, a, b), Part(list, b, d), greater, R)
<1> DEFINE p == Part(list, a, b)
           q == Part(list, b, d)
<1>1. list \in Seq(Items) /\ Distinct(list) /\ Len(list) \in Nat
  BY DEF Sorting
<1>0. b <= Len(list)
  BY <1>1
<1>2. \A y : Has(p, y) <=> Before(list, b, y) /\ ~Before(list, a, y)
  BY <1>0, <1>1, Parts
<1>3. \A y : Has(q, y) <=> Before(list, d, y) /\ ~Before(list, b, y)
  BY <1>0, <1>1, Parts
<1> HIDE DEF p, q
<1>4. CASE IsCut(size, b)
  <2>1. \A y : Before(list, b, y) <=> Before(orig, b, y)
    BY <1>4 DEF Sorting, InPlace
  <2>2. \A y : Has(q, y) => Has(orig, y)
    <3>1. \A y : Before(list, d, y) => Has(list, y)
      BY DEF Before, Has
    <3> QED
      BY <1>3, <3>1 DEF Sorting
  <2>3. ASSUME NEW x, NEW y, Has(p, x), Has(q, y)
        PROVE  IF <<x, y>> \in greater THEN <<y, x>> \in R ELSE <<x, y>> \in R
    <3>1. Before(orig, b, x) /\ ~Before(orig, b, y) /\ Has(orig, y)
      BY <1>2, <1>3, <2>1, <2>2, <2>3
    <3>2. PICK i \in DOMAIN orig : i <= b /\ orig[i] = x
      BY <3>1 DEF Before
    <3>3. PICK j \in DOMAIN orig : ~(j <= b) /\ orig[j] = y
      BY <3>1 DEF Before, Has
    <3>4. i < j
      <4>1. i \in Nat /\ j \in Nat
        OBVIOUS
      <4> QED
        BY <3>2, <3>3, <4>1
    <3> QED
      BY <3>2, <3>3, <3>4 DEF Decides
  <2> QED
    BY <2>3 DEF Agrees, p, q
<1>5. CASE b = Len(list)
  <2>1. \A y : Before(list, d, y) => Before(list, b, y)
    BY <1>1, <1>5 DEF Before
  <2>2. \A y : ~Has(q, y)
    BY <1>3, <2>1
  <2> QED
    BY <2>2 DEF Agrees, p, q
<1> QED
  BY <1>4, <1>5

(* A list that is followed by another one.                                 *)
LEMMA ConcatElements ==
  ASSUME NEW p \in Seq(Items), NEW q \in Seq(Items), NEW l, l = p \o q
  PROVE  /\ l \in Seq(Items) /\ Len(l) = Len(p) + Len(q)
         /\ DOMAIN l = 1 .. Len(p) + Len(q)
         /\ \A i \in 1 .. Len(p) : l[i] = p[i]
         /\ \A i \in 1 .. Len(q) : l[Len(p) + i] = q[i]
  OBVIOUS

LEMMA BeforeConcat ==
  ASSUME NEW p \in Seq(Items), NEW q \in Seq(Items), NEW c \in Nat, c <= Len(p), NEW y
  PROVE  Before(p \o q, c, y) <=> Before(p, c, y)
<1> DEFINE l == p \o q
<1>1. /\ DOMAIN l = 1 .. Len(p) + Len(q) /\ Len(p) \in Nat /\ Len(q) \in Nat
      /\ DOMAIN p = 1 .. Len(p)
      /\ \A i \in 1 .. Len(p) : l[i] = p[i]
  BY ConcatElements
<1> HIDE DEF l
<1>2. \A i \in DOMAIN l : i <= c => i \in DOMAIN p /\ l[i] = p[i]
  BY <1>1
<1>3. \A i \in DOMAIN p : i \in DOMAIN l /\ l[i] = p[i]
  BY <1>1
<1> QED
  BY <1>2, <1>3 DEF Before, l

(* All items come before the end.                                          *)
LEMMA BeforeEnd ==
  ASSUME NEW list \in Seq(Items), NEW y
  PROVE  Before(list, Len(list), y) <=> Has(list, y)
<1>1. \A i \in DOMAIN list : i <= Len(list)
  OBVIOUS
<1> QED
  BY <1>1 DEF Before, Has

LEMMA ConcatInOrder ==
  ASSUME NEW p \in Seq(Items), NEW q \in Seq(Items), NEW double \in Nat \ {0}, NEW R,
         RunsSorted(p, double, R), InOrder(q, R),
         IsCut(double, Len(p)) \/ q = <<>>
  PROVE  RunsSorted(p \o q, double, R)
<1> DEFINE l == p \o q
           a == Len(p)
           b == Len(q)
<1>1. /\ DOMAIN l = 1 .. a + b /\ a \in Nat /\ b \in Nat
      /\ DOMAIN p = 1 .. a /\ DOMAIN q = 1 .. b
      /\ \A i \in 1 .. a : l[i] = p[i]
      /\ \A i \in 1 .. b : l[a + i] = q[i]
      /\ q = <<>> => b = 0
  BY ConcatElements
<1> HIDE DEF l, a, b
<1>2. ASSUME NEW i \in 1 .. a + b, NEW j \in 1 .. a + b, i < j,
             \A c \in i .. j - 1 : ~IsCut(double, c)
      PROVE  <<l[i], l[j]>> \in R
  <2>1. CASE j <= a
    <3>1. i \in DOMAIN p /\ j \in DOMAIN p /\ l[i] = p[i] /\ l[j] = p[j]
      BY <1>1, <1>2, <2>1
    <3> QED
      BY <1>2, <3>1 DEF RunsSorted
  <2>2. CASE i > a
    <3>1. i - a \in 1 .. b /\ j - a \in 1 .. b /\ i - a < j - a
      BY <1>1, <1>2, <2>2
    <3>2. a + (i - a) = i /\ a + (j - a) = j
      BY <1>1, <1>2
    <3>3. l[i] = q[i - a] /\ l[j] = q[j - a]
      BY <1>1, <3>1, <3>2
    <3>4. <<q[i - a], q[j - a]>> \in R
      BY <1>1, <3>1 DEF InOrder
    <3> QED
      BY <3>3, <3>4
  <2>3. CASE i <= a /\ a < j
    <3>1. a \in i .. j - 1 /\ b # 0
      BY <1>1, <1>2, <2>3
    <3>2. ~IsCut(double, a)
      BY <1>2, <3>1
    <3> QED
      BY <1>1, <3>1, <3>2 DEF a
  <2> QED
    BY <1>1, <1>2, <2>1, <2>2, <2>3
<1> QED
  BY <1>1, <1>2 DEF RunsSorted, l

LEMMA MergeRunsPasses ==
  ASSUME NEW orig \in Seq(Items), Distinct(orig), NEW greater, NEW R, Transitive(R),
         Decides(orig, greater, R), NEW size \in Nat \ {0}, NEW list,
         Sorting(list, orig, size, R), NEW double, double = 2 * size,
         NEW k \in Nat, NEW out, PartPassed(out, list, double, R, k)
  PROVE  PartPassed(MergeRuns(out, list, size, greater), list, double, R, k + 1)
<1> DEFINE L == Len(list)
           p == Len(out)
           q == IF p + size < L THEN p + size ELSE L
           e == IF p + double < L THEN p + double ELSE L
           left == Part(list, p, q)
           right == Part(list, q, e)
           m == Merge(left, right, greater)
           new == out \o m
<1>1. /\ list \in Seq(Items) /\ Distinct(list) /\ InPlace(list, orig, size)
      /\ RunsSorted(list, size, R) /\ L \in Nat
  BY DEF Sorting
<1>2. /\ out \in Seq(Items) /\ Distinct(out) /\ p \in Nat /\ p <= L
      /\ IsCut(double, p) \/ p = L
      /\ p >= k \/ p = L
      /\ \A y : Has(out, y) <=> Before(list, p, y)
      /\ InPlace(out, list, double) /\ RunsSorted(out, double, R)
  BY DEF PartPassed
<1>3. MergeRuns(out, list, size, greater) = new
  BY DEF MergeRuns, Part
<1> HIDE DEF L, p
<1>4. /\ double \in Nat \ {0} /\ q \in Nat /\ e \in Nat /\ p <= q /\ q <= e /\ e <= L
      /\ q <= p + size /\ e <= q + size /\ e <= p + double
      /\ p = L => e = p /\ q = p
      /\ q = L => e = q
      /\ q = p + size \/ q = L
      /\ e = p + double \/ e = L
      /\ e >= k + 1 \/ e = L
  BY <1>1, <1>2
<1> HIDE DEF q, e
<1>5. /\ p = L \/ IsCut(size, p)
      /\ IsCut(size, q) \/ q = L
      /\ IsCut(double, e) \/ e = L
  <2>1. CASE p = L
    BY <1>4, <2>1
  <2>2. CASE p # L
    <3>1. IsCut(double, p) /\ IsCut(size, p)
      BY <1>2, <2>2, Cuts
    <3>2. IsCut(size, p + size) /\ IsCut(double, p + double)
      BY <1>4, <3>1, Cuts
    <3> QED
      BY <1>4, <3>1, <3>2
  <2> QED
    BY <2>1, <2>2
<1>6. /\ left \in Seq(Items) /\ Distinct(left) /\ InOrder(left, R)
      /\ \A y : Has(left, y) <=> Before(list, q, y) /\ ~Before(list, p, y)
  <2>1. q <= Len(list)
    BY <1>1, <1>4 DEF L
  <2>2. IsCut(size, p) \/ p = q
    BY <1>4, <1>5
  <2>3. InOrder(left, R)
    BY <1>1, <1>2, <1>4, <2>1, <2>2, RunInOrder
  <2> QED
    BY <1>1, <1>2, <1>4, <2>1, <2>3, Parts
<1>7. /\ right \in Seq(Items) /\ Distinct(right) /\ InOrder(right, R)
      /\ \A y : Has(right, y) <=> Before(list, e, y) /\ ~Before(list, q, y)
  <2>1. e <= Len(list)
    BY <1>1, <1>4 DEF L
  <2>2. IsCut(size, q) \/ q = e
    BY <1>4, <1>5
  <2>3. InOrder(right, R)
    BY <1>1, <1>4, <2>1, <2>2, RunInOrder
  <2> QED
    BY <1>1, <1>4, <2>1, <2>3, Parts
<1>8. Agrees(left, right, greater, R)
  <2>1. e <= Len(list) /\ (IsCut(size, q) \/ q = Len(list))
    BY <1>1, <1>4, <1>5 DEF L
  <2> QED
    BY <1>2, <1>4, <2>1, RunsAgree
<1> HIDE DEF left, right
<1>9. /\ m \in Seq(Items) /\ Distinct(m) /\ InOrder(m, R)
      /\ \A y : Has(m, y) <=> Has(left, y) \/ Has(right, y)
  <2>1. \A y : ~(Has(left, y) /\ Has(right, y))
    BY <1>6, <1>7
  <2> QED
    BY <1>6, <1>7, <1>8, <2>1, MergeKeeps
<1> HIDE DEF m
<1>10. \A y : /\ Before(list, p, y) => Before(list, q, y)
              /\ Before(list, q, y) => Before(list, e, y)
  <2>1. \A i \in DOMAIN list : (i <= p => i <= q) /\ (i <= q => i <= e)
    BY <1>1, <1>2, <1>4
  <2> QED
    BY <2>1 DEF Before
<1>11. \A y : Has(m, y) <=> Before(list, e, y) /\ ~Before(list, p, y)
  BY <1>6, <1>7, <1>9, <1>10
<1>12. Len(m) = e - p
  <2> DEFINE part == Part(list, p, e)
  <2>1. p <= e /\ e <= Len(list)
    BY <1>1, <1>2, <1>4 DEF L
  <2>2. /\ part \in Seq(Items) /\ Distinct(part) /\ Len(part) = e - p
        /\ \A y : Has(part, y) <=> Before(list, e, y) /\ ~Before(list, p, y)
    BY <1>1, <1>2, <1>4, <2>1, Parts, ZenonT(40)
  <2> HIDE DEF part
  <2>3. Len(m) = Len(part)
    BY <1>9, <1>11, <2>2, SameLength
  <2> QED
    BY <2>2, <2>3
<1>13. new \in Seq(Items) /\ Len(new) = e
  <2>1. Len(new) = Len(out) + Len(m) /\ new \in Seq(Items)
    BY <1>2, <1>9, ConcatElements
  <2> HIDE DEF new
  <2> QED
    BY <1>2, <1>4, <1>12, <2>1 DEF p
<1>14. Distinct(new)
  BY <1>2, <1>9, <1>11, DistinctConcat
<1>15. \A y : Has(new, y) <=> Before(list, e, y)
  <2>1. \A y : Has(new, y) <=> Has(out, y) \/ Has(m, y)
    BY <1>2, <1>9, HasConcat
  <2> HIDE DEF new
  <2> QED
    BY <1>2, <1>10, <1>11, <2>1
<1>16. InPlace(new, list, double)
  <2>1. ASSUME NEW c \in Nat, IsCut(double, c), c <= e, NEW y
        PROVE  Before(new, c, y) <=> Before(list, c, y)
    <3>1. CASE c <= p
      <4>1. Before(new, c, y) <=> Before(out, c, y)
        BY <1>2, <1>9, <3>1, BeforeConcat DEF p
      <4>2. Before(out, c, y) <=> Before(list, c, y)
        BY <1>2, <2>1, <3>1 DEF InPlace, p
      <4> QED
        BY <4>1, <4>2
    <3>2. CASE c > p
      <4>1. IsCut(double, p)
        BY <1>2, <1>4, <2>1, <3>2
      <4>2. c >= p + double
        BY <1>4, <2>1, <3>2, <4>1, Cuts
      <4>3. c = e
        BY <1>2, <1>4, <2>1, <4>2
      <4>4. Before(new, e, y) <=> Has(new, y)
        BY <1>13, BeforeEnd
      <4> HIDE DEF new
      <4> QED
        BY <1>15, <4>3, <4>4
    <3> QED
      BY <1>2, <2>1, <3>1, <3>2
  <2> HIDE DEF new
  <2> QED
    BY <1>13, <2>1 DEF InPlace
<1>17. RunsSorted(new, double, R)
  <2>1. IsCut(double, Len(out)) \/ m = <<>>
    <3>1. CASE p = L
      <4>1. Len(m) = 0
        BY <1>2, <1>4, <1>12, <3>1
      <4> QED
        BY <1>9, <4>1
    <3> QED
      BY <1>2, <3>1 DEF p
  <2> QED
    BY <1>2, <1>4, <1>9, <2>1, ConcatInOrder
<1> HIDE DEF new
<1>18. PartPassed(new, list, double, R, k + 1)
  <2>1. /\ Len(new) <= Len(list)
        /\ IsCut(double, Len(new)) \/ Len(new) = Len(list)
        /\ Len(new) >= k + 1 \/ Len(new) = Len(list)
        /\ \A y : Has(new, y) <=> Before(list, Len(new), y)
    BY <1>4, <1>5, <1>13, <1>15 DEF L
  <2> QED
    BY <1>13, <1>14, <1>16, <1>17, <2>1 DEF PartPassed
<1> QED
  BY <1>3, <1>18

LEMMA SortPassDoubles ==
  ASSUME NEW orig \in Seq(Items), Distinct(orig), NEW greater, NEW R, Transitive(R),
         Decides(orig, greater, R), NEW size \in Nat \ {0}, NEW list,
         Sorting(list, orig, size, R)
  PROVE  Sorting(SortPass(list, size, greater), orig, 2 * size, R)
<1> DEFINE N == Len(list)
           none == <<>>
           double == 2 * size
           Round(x) == MergeRuns(x, list, size, greater)
           I == [k \in Nat |-> {x \in Seq(Items) : PartPassed(x, list, double, R, k)}]
           W == [k \in Nat |-> [x \in I[k - 1] |-> Round(x)]]
           G(g) == g = [k \in 0 .. N |-> IF k = 0 THEN none ELSE Round(g[k - 1])]
           sorted == CHOOSE g : G(g)
           new == sorted[N]
<1>1. /\ list \in Seq(Items) /\ Distinct(list) /\ N \in Nat
      /\ double = 2 * size /\ double \in Nat \ {0}
  BY DEF Sorting
<1>2. SortPass(list, size, greater) = new
  BY DEF SortPass
<1> HIDE DEF double, Round
<1>3. \A k \in Nat : \A x : x \in I[k] <=> PartPassed(x, list, double, R, k)
  BY DEF PartPassed
<1>4. none \in I[0]
  <2>1. /\ none \in Seq(Items) /\ Len(none) = 0 /\ DOMAIN none = {}
    OBVIOUS
  <2> HIDE DEF none, I
  <2>2. \A i \in DOMAIN list : ~(i <= 0)
    BY <1>1
  <2>3. \A c \in Nat : c <= 0 => c = 0
    OBVIOUS
  <2>4. IsCut(double, 0)
    BY <1>1, Cuts
  <2>5. PartPassed(none, list, double, R, 0)
    BY <1>1, <2>1, <2>2, <2>3, <2>4
       DEF PartPassed, Distinct, Has, Before, InPlace, RunsSorted
  <2> QED
    BY <1>3, <2>5
<1> HIDE DEF I, none
<1>5. ASSUME NEW k \in 0 .. N - 1, NEW x \in I[k] PROVE Round(x) \in I[k + 1]
  <2>1. k \in Nat /\ k + 1 \in Nat
    OBVIOUS
  <2>2. PartPassed(x, list, double, R, k)
    BY <1>3, <2>1
  <2>3. PartPassed(Round(x), list, double, R, k + 1)
    BY <1>1, <2>1, <2>2, MergeRunsPasses DEF Round
  <2> QED
    BY <1>3, <2>1, <2>3
<1>6. ASSUME NEW k \in 0 .. N - 1, NEW x \in I[k] PROVE W[k + 1][x] = Round(x)
  <2>1. k + 1 \in Nat /\ k + 1 - 1 = k
    BY <1>1
  <2> QED
    BY <2>1
<1> HIDE DEF W, N, sorted
<1>7. PICK f : IsLoop(f, none, W, N) /\ \A k \in 0 .. N : f[k] \in I[k]
  <2>1. \A k \in 0 .. N - 1 : \A x \in I[k] : W[k + 1][x] \in I[k + 1]
    BY <1>5, <1>6
  <2> QED
    BY <1>1, <1>4, <2>1, GradedLoop
<1>8. G(f)
  <2>1. ASSUME NEW k \in 0 .. N
        PROVE  (IF k = 0 THEN none ELSE W[k][f[k - 1]])
                 = IF k = 0 THEN none ELSE Round(f[k - 1])
    <3>1. CASE k # 0
      <4>1. k - 1 \in 0 .. N - 1 /\ k - 1 + 1 = k /\ k - 1 \in 0 .. N
        BY <1>1, <3>1
      <4>2. W[k - 1 + 1][f[k - 1]] = Round(f[k - 1])
        BY <1>6, <1>7, <4>1
      <4> QED
        BY <3>1, <4>1, <4>2
    <3> QED
      BY <3>1
  <2>2. f = [k \in 0 .. N |-> IF k = 0 THEN none ELSE W[k][f[k - 1]]]
    BY <1>7 DEF IsLoop
  <2> QED
    BY <2>1, <2>2
<1>9. G(sorted)
  <2> HIDE DEF G
  <2> QED
    BY <1>8 DEF sorted
<1>10. new \in I[N]
  <2>1. \A k \in 0 .. N : sorted[k] = IF k = 0 THEN none ELSE Round(sorted[k - 1])
    BY <1>9
  <2>2. sorted[0] \in I[0]
    BY <1>1, <1>4, <2>1
  <2>3. ASSUME NEW k \in 0 .. N - 1, sorted[k] \in I[k] PROVE sorted[k + 1] \in I[k + 1]
    <3>1. k + 1 \in 0 .. N /\ k + 1 # 0 /\ k + 1 - 1 = k
      BY <1>1
    <3>2. sorted[k + 1] = Round(sorted[k])
      BY <2>1, <3>1
    <3> QED
      BY <1>5, <2>3, <3>2
  <2> QED
    BY <1>1, <2>2, <2>3, RoundsKeep
<1> HIDE DEF new, G
<1>11. PartPassed(new, list, double, R, N)
  BY <1>1, <1>3, <1>10
<1>12. /\ new \in Seq(Items) /\ Distinct(new) /\ Len(new) = Len(list)
       /\ \A y : Has(new, y) <=> Before(list, Len(list), y)
       /\ InPlace(new, list, double) /\ RunsSorted(new, double, R)
  <2>1. Len(new) = Len(list)
    <3>1. Len(new) >= N \/ Len(new) = Len(list)
      BY <1>11 DEF PartPassed
    <3>2. Len(new) <= Len(list) /\ Len(new) \in Nat
      BY <1>11 DEF PartPassed
    <3> QED
      BY <1>1, <3>1, <3>2 DEF N
  <2> QED
    BY <1>11, <2>1 DEF PartPassed
<1>13. InPlace(new, orig, double)
  <2>1. ASSUME NEW c \in Nat, IsCut(double, c), c <= Len(new), NEW y
        PROVE  Before(new, c, y) <=> Before(orig, c, y)
    <3>1. Before(new, c, y) <=> Before(list, c, y)
      BY <1>12, <2>1 DEF InPlace
    <3>2. IsCut(size, c)
      BY <2>1, Cuts DEF double
    <3>3. Before(list, c, y) <=> Before(orig, c, y)
      BY <1>12, <2>1, <3>2 DEF Sorting, InPlace
    <3> QED
      BY <3>1, <3>3
  <2> QED
    BY <2>1 DEF InPlace
<1>14. \A y : Has(new, y) <=> Has(orig, y)
  BY <1>1, <1>12, BeforeEnd DEF Sorting
<1>15. Sorting(new, orig, double, R)
  BY <1>12, <1>13, <1>14 DEF Sorting
<1> QED
  BY <1>2, <1>15 DEF double

(* The sort after k passes.                                                *)
PartSorted(s, orig, R, k) ==
  /\ s \in [list : Seq(Items), insize : Nat \ {0}, looping : BOOLEAN]
  /\ Sorting(s.list, orig, s.insize, R)
  /\ IF s.looping THEN s.insize >= k + 1 ELSE s.insize >= Len(orig)

LEMMA NextPassSorts ==
  ASSUME NEW orig \in Seq(Items), Distinct(orig), NEW greater, NEW R, Transitive(R),
         Decides(orig, greater, R), NEW k \in Nat, NEW s, PartSorted(s, orig, R, k)
  PROVE  PartSorted(NextPass(s, greater), orig, R, k + 1)
<1>1. /\ s \in [list : Seq(Items), insize : Nat \ {0}, looping : BOOLEAN]
      /\ s.insize \in Nat \ {0} /\ Sorting(s.list, orig, s.insize, R)
      /\ Len(s.list) = Len(orig) /\ Len(orig) \in Nat
      /\ s.looping => s.insize >= k + 1
      /\ ~s.looping => s.insize >= Len(orig)
  BY DEF PartSorted, Sorting
<1>2. CASE ~s.looping
  <2>1. NextPass(s, greater) = s
    BY <1>2 DEF NextPass
  <2> QED
    BY <1>1, <1>2, <2>1 DEF PartSorted
<1>3. CASE s.looping
  <2> DEFINE list == SortPass(s.list, s.insize, greater)
             u == NextPass(s, greater)
  <2>1. u = [list |-> list, insize |-> 2 * s.insize,
             looping |-> 2 * s.insize < Len(s.list)]
    BY <1>3 DEF NextPass
  <2>2. Sorting(list, orig, 2 * s.insize, R)
    BY <1>1, SortPassDoubles
  <2> HIDE DEF list, u
  <2>3. u.list = list /\ u.insize = 2 * s.insize /\ u.looping = (2 * s.insize < Len(s.list))
    BY <2>1
  <2>4. u \in [list : Seq(Items), insize : Nat \ {0}, looping : BOOLEAN]
    <3>1. list \in Seq(Items) /\ 2 * s.insize \in Nat \ {0}
      BY <1>1, <2>2 DEF Sorting
    <3> QED
      BY <2>1, <3>1
  <2>5. IF u.looping THEN u.insize >= k + 1 + 1 ELSE u.insize >= Len(orig)
    BY <1>1, <1>3, <2>3
  <2>6. Sorting(u.list, orig, u.insize, R)
    BY <2>2, <2>3
  <2>7. PartSorted(u, orig, R, k + 1)
    BY <2>4, <2>5, <2>6 DEF PartSorted
  <2> QED
    BY <2>7 DEF u
<1> QED
  BY <1>2, <1>3

(* A sort leaves the items of the list in the order of R.                  *)
THEOREM SortListSorts ==
  ASSUME NEW orig \in Seq(Items), Distinct(orig), NEW greater, NEW R, Transitive(R),
         Decides(orig, greater, R)
  PROVE  /\ SortList(orig, greater) \in Seq(Items)
         /\ Distinct(SortList(orig, greater))
         /\ Len(SortList(orig, greater)) = Len(orig)
         /\ \A y : Has(SortList(orig, greater), y) <=> Has(orig, y)
         /\ InOrder(SortList(orig, greater), R)
<1> DEFINE N == Len(orig)
           start == [list |-> orig, insize |-> 1, looping |-> TRUE]
           Round(x) == NextPass(x, greater)
           D == [list : Seq(Items), insize : Nat \ {0}, looping : BOOLEAN]
           I == [k \in Nat |-> {s \in D : PartSorted(s, orig, R, k)}]
           W == [k \in Nat |-> [x \in I[k - 1] |-> Round(x)]]
           G(g) == g = [k \in 0 .. N |-> IF k = 0 THEN start ELSE Round(g[k - 1])]
           passed == CHOOSE g : G(g)
           end == passed[N]
<1>1. N \in Nat
  OBVIOUS
<1>2. SortList(orig, greater) = end.list
  BY DEF SortList
<1> HIDE DEF Round
<1>3. \A k \in Nat : \A s : s \in I[k] <=> PartSorted(s, orig, R, k)
  BY DEF PartSorted
<1>4. start \in I[0]
  <2>1. /\ start \in D
        /\ start.list = orig /\ start.insize = 1 /\ start.looping = TRUE
    OBVIOUS
  <2> HIDE DEF start, I
  <2>2. InPlace(orig, orig, 1)
    BY DEF InPlace
  <2>3. RunsSorted(orig, 1, R)
    <3>1. ASSUME NEW i \in DOMAIN orig, NEW j \in DOMAIN orig, i < j
          PROVE  \E c \in i .. j - 1 : IsCut(1, c)
      <4>1. i \in i .. j - 1 /\ i = i * 1 /\ i \in Nat
        BY <3>1
      <4> QED
        BY <4>1 DEF IsCut
    <3> QED
      BY <3>1 DEF RunsSorted
  <2>4. Sorting(orig, orig, 1, R)
    BY <2>2, <2>3 DEF Sorting
  <2>5. PartSorted(start, orig, R, 0)
    BY <2>1, <2>4 DEF PartSorted
  <2> QED
    BY <1>3, <2>5
<1> HIDE DEF I, start, D
<1>5. ASSUME NEW k \in 0 .. N - 1, NEW x \in I[k] PROVE Round(x) \in I[k + 1]
  <2>1. k \in Nat /\ k + 1 \in Nat
    OBVIOUS
  <2>2. PartSorted(x, orig, R, k)
    BY <1>3, <2>1
  <2>3. PartSorted(Round(x), orig, R, k + 1)
    BY <2>1, <2>2, NextPassSorts DEF Round
  <2> QED
    BY <1>3, <2>1, <2>3
<1>6. ASSUME NEW k \in 0 .. N - 1, NEW x \in I[k] PROVE W[k + 1][x] = Round(x)
  <2>1. k + 1 \in Nat /\ k + 1 - 1 = k
    BY <1>1
  <2> QED
    BY <2>1
<1> HIDE DEF W, N, passed
<1>7. PICK f : IsLoop(f, start, W, N) /\ \A k \in 0 .. N : f[k] \in I[k]
  <2>1. \A k \in 0 .. N - 1 : \A x \in I[k] : W[k + 1][x] \in I[k + 1]
    BY <1>5, <1>6
  <2> QED
    BY <1>1, <1>4, <2>1, GradedLoop
<1>8. G(f)
  <2>1. ASSUME NEW k \in 0 .. N
        PROVE  (IF k = 0 THEN start ELSE W[k][f[k - 1]])
                 = IF k = 0 THEN start ELSE Round(f[k - 1])
    <3>1. CASE k # 0
      <4>1. k - 1 \in 0 .. N - 1 /\ k - 1 + 1 = k /\ k - 1 \in 0 .. N
        BY <1>1, <3>1
      <4>2. W[k - 1 + 1][f[k - 1]] = Round(f[k - 1])
        BY <1>6, <1>7, <4>1
      <4> QED
        BY <3>1, <4>1, <4>2
    <3> QED
      BY <3>1
  <2>2. f = [k \in 0 .. N |-> IF k = 0 THEN start ELSE W[k][f[k - 1]]]
    BY <1>7 DEF IsLoop
  <2> QED
    BY <2>1, <2>2
<1>9. G(passed)
  <2> HIDE DEF G
  <2> QED
    BY <1>8 DEF passed
<1>10. end \in I[N]
  <2>1. \A k \in 0 .. N : passed[k] = IF k = 0 THEN start ELSE Round(passed[k - 1])
    BY <1>9
  <2>2. passed[0] \in I[0]
    BY <1>1, <1>4, <2>1
  <2>3. ASSUME NEW k \in 0 .. N - 1, passed[k] \in I[k] PROVE passed[k + 1] \in I[k + 1]
    <3>1. k + 1 \in 0 .. N /\ k + 1 # 0 /\ k + 1 - 1 = k
      BY <1>1
    <3>2. passed[k + 1] = Round(passed[k])
      BY <2>1, <3>1
    <3> QED
      BY <1>5, <2>3, <3>2
  <2> QED
    BY <1>1, <2>2, <2>3, RoundsKeep
<1> HIDE DEF end, G
<1> DEFINE list == end.list
           size == end.insize
<1>11. PartSorted(end, orig, R, N)
  BY <1>1, <1>3, <1>10
<1>12. /\ size \in Nat \ {0} /\ Sorting(list, orig, size, R)
       /\ end.looping => size >= N + 1
       /\ ~end.looping => size >= N
  BY <1>11 DEF PartSorted, N
<1> HIDE DEF list, size
<1>13. InOrder(list, R)
  <2>1. /\ list \in Seq(Items) /\ RunsSorted(list, size, R) /\ DOMAIN list = 1 .. N
    BY <1>12 DEF Sorting, N
  <2>2. ASSUME NEW i \in DOMAIN list, NEW j \in DOMAIN list, i < j,
               NEW c \in i .. j - 1
        PROVE  ~IsCut(size, c)
    <3>1. c \in Nat /\ 0 < c /\ ~(c >= 0 + size)
      BY <1>1, <1>12, <2>1, <2>2
    <3>2. IsCut(size, 0)
      BY <1>12, Cuts
    <3> QED
      BY <1>12, <3>1, <3>2, Cuts
  <2> QED
    BY <2>1, <2>2 DEF RunsSorted, InOrder
<1>14. /\ list \in Seq(Items) /\ Distinct(list) /\ Len(list) = Len(orig)
       /\ \A y : Has(list, y) <=> Has(orig, y)
  BY <1>12 DEF Sorting
<1> QED
  BY <1>2, <1>13, <1>14 DEF list
-----------------------------------------------------------------------------
(* HASH_SRT: the links that it leaves.                                     *)

LEMMA AroundLinks ==
  ASSUME NEW list \in Seq(Items), Distinct(list), NEW link \in Links, NEW step \in Int
  PROVE  /\ Around(list, link, step) \in Links
         /\ \A i \in DOMAIN list :
              Around(list, link, step)[list[i]] = NodeAt(list, i + step)
<1> DEFINE Place(item) == CHOOSE i \in DOMAIN list : list[i] = item
           new == Around(list, link, step)
<1>1. new = [item \in Items |-> IF item \in ToSet(list)
                THEN NodeAt(list, Place(item) + step) ELSE link[item]]
  BY DEF Around
<1>2. \A i \in DOMAIN list : list[i] \in Items /\ list[i] \in ToSet(list)
  BY DEF ToSet
<1>3. \A i \in DOMAIN list : Place(list[i]) = i
  BY DEF Distinct
<1> HIDE DEF Place, new
<1>4. \A k : NodeAt(list, k) \in Items \cup {NULL}
  BY <1>2 DEF NodeAt
<1>5. new \in Links
  <2>1. \A item \in Items : (IF item \in ToSet(list)
            THEN NodeAt(list, Place(item) + step) ELSE link[item]) \in Items \cup {NULL}
    BY <1>4 DEF Links
  <2> QED
    BY <1>1, <2>1 DEF Links
<1>6. \A i \in DOMAIN list : new[list[i]] = NodeAt(list, i + step)
  BY <1>1, <1>2, <1>3
<1> QED
  BY <1>5, <1>6 DEF new

(* A table after its ends are written.                                     *)
WithEnds(t, first, last) == [t EXCEPT !.head = first, !.tbl.tail = last]

LEMMA EndsWritten ==
  ASSUME NEW t, IsTable(t), NEW first \in Items, NEW last \in Items,
         NEW u, u = WithEnds(t, first, last)
  PROVE  /\ IsTable(u) /\ SameChains(t, u) /\ SameSize(t, u)
         /\ u.head = first /\ u.tbl.tail = last
         /\ u.next = t.next /\ u.prev = t.prev
BY DEF IsTable, SameChains, SameSize, WithEnds

LEMMA RelinkKeepsTable ==
  ASSUME NEW t, NEW hash, NEW order, NEW chains, Represents(t, hash, order, chains),
         NEW list \in Seq(Items), Distinct(list), Len(list) = Len(order),
         \A y : Has(list, y) <=> Has(order, y)
  PROVE  /\ Represents(Relink(t, list), hash, list, chains)
         /\ SameLimits(t, Relink(t, list))
         /\ Relink(t, list).tbl.buckets = t.tbl.buckets
<1> DEFINE N == Around(list, t.next, 1)
           P == Around(list, t.prev, -1)
           first == list[1]
           last == list[Len(list)]
           v == WithOrderLinks(t, N, P)
           u == Relink(t, list)
<1>1. /\ IsTable(t) /\ ChainsAre(t, hash, chains) /\ t.tbl.num_items = Len(order)
      /\ order # <<>> /\ order \in Seq(Items)
  BY RepresentsLists DEF OrderIs
<1>2. /\ list # <<>> /\ first \in Items /\ last \in Items
  BY <1>1
<1>3. t.next \in Links /\ t.prev \in Links
  BY <1>1 DEF IsTable
<1>4. /\ N \in Links /\ P \in Links
      /\ \A i \in DOMAIN list : N[list[i]] = NodeAt(list, i + 1)
      /\ \A i \in DOMAIN list : P[list[i]] = NodeAt(list, i + (-1))
  <2>1. -1 \in Int /\ 1 \in Int
    OBVIOUS
  <2>2. N \in Links /\ \A i \in DOMAIN list : N[list[i]] = NodeAt(list, i + 1)
    BY <1>3, <2>1, AroundLinks
  <2>3. P \in Links /\ \A i \in DOMAIN list : P[list[i]] = NodeAt(list, i + (-1))
    BY <1>3, <2>1, AroundLinks
  <2> QED
    BY <2>2, <2>3
<1>5. u = WithEnds(v, first, last)
  BY DEF Relink, WithEnds, WithOrderLinks
<1> HIDE DEF N, P, first, last, u
<1>6. /\ IsTable(v) /\ SameChains(t, v) /\ SameSize(t, v) /\ v.next = N /\ v.prev = P
  BY <1>1, <1>4, OrderLinksWritten DEF WithOrderLinks, IsTable, SameChains, SameSize
<1> HIDE DEF v
<1>7. /\ IsTable(u) /\ SameChains(v, u) /\ SameSize(v, u)
      /\ u.head = first /\ u.tbl.tail = last /\ u.next = v.next /\ u.prev = v.prev
  <2>1. IsTable(v) /\ first \in Items /\ last \in Items /\ u = WithEnds(v, first, last)
    BY <1>2, <1>5, <1>6
  <2> QED
    BY <2>1, EndsWritten
<1>8. SameChains(t, u) /\ SameSize(t, u) /\ u.next = N /\ u.prev = P
  BY <1>6, <1>7 DEF SameChains, SameSize
<1>9. OrderIs(u, list)
  <2>1. \A i \in DOMAIN list : i + (-1) = i - 1
    OBVIOUS
  <2>2. Linked(list, N, P)
    BY <1>4, <2>1 DEF Linked, Distinct
  <2> QED
    BY <1>2, <1>7, <1>8, <2>2 DEF OrderIs, first, last
<1>10. ChainsAre(u, hash, chains)
  BY <1>1, <1>8 DEF ChainsAre, ChainIs, SameChains, SameSize, ToBkt
<1>11. \A y \in Items : Has(list, y) <=> Has(chains[ToBkt(u, hash[KeyOf(y)])], y)
  BY <1>8 DEF Represents, SameSize, ToBkt
<1>12. u.tbl.num_items = Len(list)
  BY <1>1, <1>8 DEF SameSize
<1>13. Represents(u, hash, list, chains)
  BY <1>7, <1>9, <1>10, <1>11, <1>12 DEF Represents
<1>14. SameLimits(t, u) /\ u.tbl.buckets = t.tbl.buckets
  BY <1>8 DEF SameLimits, SameSize, SameChains
<1> QED
  BY <1>13, <1>14 DEF u
-----------------------------------------------------------------------------
(* HASH_SELECT.                                                            *)

LEMMA HungStays ==
  ASSUME NEW t, NEW u, IsTable(u), SameChains(t, u),
         u.tbl.num_buckets = t.tbl.num_buckets,
         NEW hash, NEW order, NEW chains, Hung(t, hash, order, chains)
  PROVE  Hung(u, hash, order, chains)
<1>1. \A y : ToBkt(u, y) = ToBkt(t, y)
  BY DEF ToBkt
<1>2. ChainsAre(u, hash, chains)
  BY ChainsStay DEF Hung
<1> QED
  BY <1>1, <1>2 DEF Hung

(* HASH_ADD_TO_BKT for an item that the application order has already,     *)
(* whatever number of items the table counts.                              *)
LEMMA AddToBktHangs ==
  ASSUME NEW t, IsTable(t), t.tbl.num_items \in Nat, NEW hash \in [Keys -> Nat],
         NEW order \in Seq(Items), UniqueKeys(order),
         NEW chains, ChainsAre(t, hash, chains),
         NEW x \in Items, ~Has(chains[ToBkt(t, hash[KeyOf(x)])], x),
         \A y \in Items :
           Has(order, y) <=> y = x \/ Has(chains[ToBkt(t, hash[KeyOf(y)])], y)
  PROVE  LET u == AddToBkt(t, hash, x)
         IN /\ \E after : Hung(u, hash, order, after)
            /\ SameOrder(t, u) /\ u.tbl.num_items = t.tbl.num_items
<1> DEFINE b == ToBkt(t, hash[KeyOf(x)])
           u == PushInBkt(t, b, x)
           new == [chains EXCEPT ![b] = InsertAt(@, 1, x)]
           v == ExpandBuckets(u, hash)
<1>1. Hung(u, hash, order, new) /\ SameOrder(t, u) /\ SameSize(t, u)
  <2> HIDE DEF b
  <2>1. b = ToBkt(t, hash[KeyOf(x)])
    BY DEF b
  <2> QED
    BY <2>1, PushHangs
<1>2. AddToBkt(t, hash, x) = IF MayExpand(u, b) THEN v ELSE u
  BY DEF AddToBkt
<1> HIDE DEF b, u, new
<1>3. u.tbl.num_items = t.tbl.num_items
  BY <1>1 DEF SameSize
<1>4. /\ \E after : Hung(v, hash, order, after)
      /\ SameOrder(u, v) /\ v.tbl.num_items = u.tbl.num_items
  BY <1>1, <1>3, ExpandHangs
<1> HIDE DEF v
<1>5. SameOrder(t, v)
  BY <1>1, <1>4 DEF SameOrder
<1> QED
  BY <1>1, <1>2, <1>3, <1>4, <1>5

(* The second table once it has the items of the list, of which last is    *)
(* the last one.  Its tail is not the last one, but its first.             *)
Selected(t, hash, list, last) ==
  /\ list \in Seq(Items) /\ UniqueKeys(list)
  /\ list = <<>> => t = EmptyTable /\ last = NULL
  /\ list # <<>> =>
       /\ \E chains : Hung(t, hash, list, chains)
       /\ Linked(list, t.next, t.prev)
       /\ t.head = list[1] /\ t.tbl.num_items = Len(list)
       /\ last = list[Len(list)]

(* The first item that is selected.                                        *)
LEMMA SelectsFirst ==
  ASSUME NEW hash \in [Keys -> Nat], NEW x \in Items
  PROVE  Selected(SelectOne(EmptyTable, hash, x, NULL), hash, <<x>>, x)
<1> DEFINE t == LinkAfter(EmptyTable, x, NULL)
           m == MakeTable(t, x)
           u == AddToBkt(m, hash, x)
           v == WithCount(u, 1)
           none == NoChains(InitialBuckets)
           one == <<x>>
<1>1. IsEmpty(t)
  BY DEF LinkAfter, EmptyTable, Unlinked, IsEmpty, Links
<1>2. /\ IsTable(m) /\ m.head = x /\ m.next[x] = NULL /\ m.prev[x] = NULL
      /\ m.tbl = [tail |-> x, num_buckets |-> InitialBuckets,
                  num_items |-> 0, buckets |-> EmptyBuckets(InitialBuckets),
                  ideal_chain_maxlen |-> 0, ineff_expands |-> 0,
                  noexpand |-> FALSE]
      /\ m.tbl.num_items = 0
  <2> HIDE DEF t
  <2>1. t.next \in [Items -> Items \cup {NULL}] /\ t.prev \in [Items -> Items \cup {NULL}]
    BY <1>1 DEF IsEmpty, Links
  <2>2. /\ IsTable(m) /\ m.head = x /\ m.next = [t.next EXCEPT ![x] = NULL]
        /\ m.prev = [t.prev EXCEPT ![x] = NULL]
        /\ m.tbl = [tail |-> x, num_buckets |-> InitialBuckets,
                    num_items |-> 0, buckets |-> EmptyBuckets(InitialBuckets),
                    ideal_chain_maxlen |-> 0, ineff_expands |-> 0,
                    noexpand |-> FALSE]
        /\ m.tbl.num_items = 0
    BY <1>1, FirstIsTable
  <2> HIDE DEF m
  <2>3. m.next[x] = NULL /\ m.prev[x] = NULL
    BY <2>1, <2>2
  <2> QED
    BY <2>2, <2>3
<1>3. ChainsAre(m, hash, none)
  <2>1. \A c \in 0 .. InitialBuckets - 1 : m.tbl.buckets[c] = EmptyBucket
    BY <1>2 DEF EmptyBuckets
  <2>2. /\ Linked(<<>>, m.hh_next, m.hh_prev) /\ NodeAt(<<>>, 1) = NULL
        /\ EmptyBucket.hh_head = NULL /\ EmptyBucket.count = 0
    BY DEF Linked, NodeAt, EmptyBucket
  <2>3. m.tbl.num_buckets = InitialBuckets
    BY <1>2
  <2> HIDE DEF m
  <2> QED
    BY <2>1, <2>2, <2>3 DEF ChainsAre, ChainIs, NoChains
<1>4. /\ one \in Seq(Items) /\ UniqueKeys(one) /\ one # <<>> /\ Len(one) = 1
      /\ one[1] = x /\ \A y : Has(one, y) <=> y = x
  BY DEF UniqueKeys, Has
<1>5. \A y \in Items : ~Has(none[ToBkt(m, hash[KeyOf(y)])], y)
  <2>1. ASSUME NEW y \in Items PROVE ToBkt(m, hash[KeyOf(y)]) \in 0 .. InitialBuckets - 1
    <3>1. m.tbl.num_buckets = InitialBuckets /\ IsTable(m)
      BY <1>2
    <3> HIDE DEF m
    <3> QED
      BY <3>1, BktInRange
  <2> HIDE DEF m
  <2> QED
    BY <2>1 DEF Has, NoChains
<1>6. SelectOne(EmptyTable, hash, x, NULL) = [u EXCEPT !.tbl.num_items = @ + 1]
  BY DEF SelectOne, EmptyTable
<1> HIDE DEF m, none, one
<1>7. /\ \E chains : Hung(u, hash, one, chains)
      /\ SameOrder(m, u) /\ u.tbl.num_items = 0
  BY <1>2, <1>3, <1>4, <1>5, AddToBktHangs
<1> HIDE DEF u
<1>8. PICK chains : Hung(u, hash, one, chains)
  BY <1>7
<1>9. SelectOne(EmptyTable, hash, x, NULL) = v
  BY <1>6, <1>7 DEF WithCount
<1>10. /\ IsTable(v) /\ SameOrder(u, v) /\ SameChains(u, v)
       /\ v.tbl.num_buckets = u.tbl.num_buckets /\ v.tbl.num_items = 1
  BY <1>8, CountWritten DEF Hung
<1> HIDE DEF v
<1>11. Hung(v, hash, one, chains)
  BY <1>8, <1>10, HungStays
<1>12. v.head = x /\ v.next[x] = NULL /\ v.prev[x] = NULL
  BY <1>2, <1>7, <1>10 DEF SameOrder
<1>13. Linked(one, v.next, v.prev)
  BY <1>12 DEF one, Linked, NodeAt
<1>14. Selected(v, hash, one, x)
  BY <1>4, <1>10, <1>11, <1>12, <1>13 DEF Selected
<1> QED
  BY <1>9, <1>14 DEF one

(* An item that is selected after others.                                  *)
LEMMA SelectsLater ==
  ASSUME NEW dst, NEW hash \in [Keys -> Nat], NEW list, NEW last,
         Selected(dst, hash, list, last), list # <<>>, NEW x \in Items,
         \A i \in DOMAIN list : KeyOf(list[i]) # KeyOf(x)
  PROVE  Selected(SelectOne(dst, hash, x, last), hash, Append(list, x), x)
<1> DEFINE t == LinkAfter(dst, x, last)
           u == AddToBkt(t, hash, x)
           n == Len(list) + 1
           v == WithCount(u, n)
           more == Append(list, x)
           N == [[dst.next EXCEPT ![x] = NULL] EXCEPT ![last] = x]
           P == [dst.prev EXCEPT ![x] = last]
<1>1. /\ list \in Seq(Items) /\ UniqueKeys(list) /\ Linked(list, dst.next, dst.prev)
      /\ dst.head = list[1] /\ dst.tbl.num_items = Len(list)
      /\ last = list[Len(list)] /\ Len(list) \in DOMAIN list
      /\ \E chains : Hung(dst, hash, list, chains)
  BY DEF Selected
<1>2. PICK chains : Hung(dst, hash, list, chains)
  BY <1>1
<1>3. IsTable(dst) /\ ChainsAre(dst, hash, chains)
  BY <1>2 DEF Hung
<1>4. ~Has(list, x) /\ last \in Items /\ last # x /\ last # NULL /\ dst.head # NULL
  <2>1. ~Has(list, x)
    BY DEF Has
  <2>2. last \in Items /\ last # x /\ list[1] \in Items
    BY <1>1, <2>1 DEF Has
  <2> QED
    BY <1>1, <2>1, <2>2, TableAssumption
<1>5. dst.next \in Links /\ dst.prev \in Links
  BY <1>3 DEF IsTable
<1>6. /\ N \in Links /\ P \in Links /\ N[x] = NULL /\ N[last] = x /\ P[x] = last
      /\ \A y \in Items \ {x, last} : N[y] = dst.next[y]
      /\ \A y \in Items \ {x} : P[y] = dst.prev[y]
  BY <1>4, <1>5 DEF Links
<1>7. t = WithOrderLinks(dst, N, P)
  BY <1>3, <1>4 DEF LinkAfter, WithOrderLinks, IsTable
<1> HIDE DEF N, P
<1>8. /\ IsTable(t) /\ t.next = N /\ t.prev = P /\ t.head = dst.head
      /\ SameChains(dst, t) /\ t.tbl = dst.tbl
  <2>1. IsTable(t)
    BY <1>3, <1>6, <1>7, OrderLinksWritten
  <2> HIDE DEF t
  <2> QED
    BY <1>3, <1>7, <2>1 DEF WithOrderLinks, SameChains, IsTable
<1>9. SelectOne(dst, hash, x, last) = [u EXCEPT !.tbl.num_items = @ + 1]
  BY <1>4 DEF SelectOne
<1> HIDE DEF t
<1>10. Linked(more, t.next, t.prev)
  BY <1>1, <1>4, <1>6, <1>8, LinkedAppend
<1>11. /\ more \in Seq(Items) /\ Len(more) = n /\ more # <<>>
       /\ more[1] = list[1] /\ more[n] = x /\ n \in Nat
       /\ DOMAIN more = 1 .. n
       /\ \A i \in DOMAIN list : i \in 1 .. n /\ more[i] = list[i]
       /\ \A i \in 1 .. n : i \in DOMAIN list \/ i = n
  BY <1>1
<1> HIDE DEF more, n
<1>12. UniqueKeys(more)
  <2>1. ASSUME NEW i \in DOMAIN more, NEW j \in DOMAIN more,
               KeyOf(more[i]) = KeyOf(more[j])
        PROVE  i = j
    <3>1. CASE i \in DOMAIN list /\ j \in DOMAIN list
      BY <1>1, <1>11, <2>1, <3>1 DEF UniqueKeys
    <3>2. CASE i \in DOMAIN list /\ j = n
      BY <1>11, <2>1, <3>2
    <3>3. CASE i = n /\ j \in DOMAIN list
      BY <1>11, <2>1, <3>3
    <3> QED
      BY <1>11, <3>1, <3>2, <3>3
  <2> QED
    BY <2>1 DEF UniqueKeys
<1>13. \A y : Has(more, y) <=> y = x \/ Has(list, y)
  <2>1. n \in 1 .. n
    BY <1>11
  <2> QED
    BY <1>11, <2>1 DEF Has
<1>14. Hung(t, hash, list, chains)
  BY <1>2, <1>8, HungStays
<1>15. /\ ~Has(chains[ToBkt(t, hash[KeyOf(x)])], x) /\ ChainsAre(t, hash, chains)
       /\ \A y \in Items :
            Has(more, y) <=> y = x \/ Has(chains[ToBkt(t, hash[KeyOf(y)])], y)
  BY <1>4, <1>13, <1>14 DEF Hung
<1>16. t.tbl.num_items = Len(list) /\ Len(list) \in Nat
  BY <1>1, <1>8
<1>17. /\ \E after : Hung(u, hash, more, after)
       /\ SameOrder(t, u) /\ u.tbl.num_items = Len(list)
  BY <1>8, <1>11, <1>12, <1>15, <1>16, AddToBktHangs, SMTT(30)
<1> HIDE DEF u
<1>18. PICK after : Hung(u, hash, more, after)
  BY <1>17
<1>19. SelectOne(dst, hash, x, last) = v
  BY <1>9, <1>17 DEF WithCount, n
<1>20. /\ IsTable(v) /\ SameOrder(u, v) /\ SameChains(u, v)
       /\ v.tbl.num_buckets = u.tbl.num_buckets /\ v.tbl.num_items = n
  BY <1>11, <1>18, CountWritten DEF Hung
<1> HIDE DEF v
<1>21. Hung(v, hash, more, after)
  BY <1>18, <1>20, HungStays
<1>22. /\ Linked(more, v.next, v.prev) /\ v.head = more[1]
       /\ v.tbl.num_items = Len(more) /\ x = more[Len(more)]
  BY <1>1, <1>8, <1>10, <1>11, <1>17, <1>20 DEF SameOrder
<1>23. Selected(v, hash, more, x)
  BY <1>11, <1>12, <1>21, <1>22 DEF Selected
<1> QED
  BY <1>19, <1>23 DEF more

(* After n rounds the second table has the chosen ones of the first n.     *)
IsSelection(s, hash, items, chosen, n) ==
  \E list : /\ Selected(s.dst, hash, list, s.last)
            /\ \A y : Has(list, y) <=> y \in chosen /\ \E k \in 1 .. n : items[k] = y

LEMMA SelectNextSelects ==
  ASSUME NEW hash \in [Keys -> Nat], NEW items \in Seq(Items), UniqueKeys(items),
         NEW n \in 0 .. Len(items) - 1, NEW chosen, NEW s,
         IsSelection(s, hash, items, chosen, n)
  PROVE  IsSelection(SelectNext(s, hash, chosen, items[n + 1]), hash, items, chosen, n + 1)
<1> DEFINE x == items[n + 1]
           new == SelectNext(s, hash, chosen, x)
<1>1. PICK list : /\ Selected(s.dst, hash, list, s.last)
                  /\ \A y : Has(list, y) <=>
                       y \in chosen /\ \E k \in 1 .. n : items[k] = y
  BY DEF IsSelection
<1>2. x \in Items /\ n + 1 \in DOMAIN items
  OBVIOUS
<1>3. \A y : (\E k \in 1 .. n + 1 : items[k] = y)
               <=> y = x \/ \E k \in 1 .. n : items[k] = y
  <2>1. \A k : k \in 1 .. n + 1 <=> k \in 1 .. n \/ k = n + 1
    OBVIOUS
  <2> QED
    BY <2>1
<1>4. CASE x \notin chosen
  <2>1. new = s
    BY <1>4 DEF SelectNext
  <2>2. \A y : Has(list, y) <=> y \in chosen /\ \E k \in 1 .. n + 1 : items[k] = y
    BY <1>1, <1>3, <1>4
  <2> QED
    BY <1>1, <2>1, <2>2 DEF IsSelection
<1>5. CASE x \in chosen
  <2> DEFINE dst == SelectOne(s.dst, hash, x, s.last)
  <2>1. new.dst = dst /\ new.last = x
    BY <1>5 DEF SelectNext
  <2>2. list \in Seq(Items)
    BY <1>1 DEF Selected
  <2>3. ASSUME NEW i \in DOMAIN list PROVE KeyOf(list[i]) # KeyOf(x)
    <3>1. Has(list, list[i])
      BY DEF Has
    <3>2. PICK k \in 1 .. n : items[k] = list[i]
      BY <1>1, <3>1
    <3>3. k \in DOMAIN items /\ k # n + 1
      OBVIOUS
    <3> QED
      BY <1>2, <3>2, <3>3 DEF UniqueKeys
  <2> HIDE DEF x
  <2>4. \E more : /\ Selected(dst, hash, more, x)
                  /\ \A y : Has(more, y) <=> y = x \/ Has(list, y)
    <3>1. CASE list = <<>>
      <4>1. s.dst = EmptyTable /\ s.last = NULL
        BY <1>1, <3>1 DEF Selected
      <4>2. Selected(dst, hash, <<x>>, x)
        BY <1>2, <4>1, SelectsFirst
      <4>3. \A y : Has(<<x>>, y) <=> y = x \/ Has(list, y)
        BY <3>1 DEF Has
      <4> QED
        BY <4>2, <4>3
    <3>2. CASE list # <<>>
      <4>1. Selected(dst, hash, Append(list, x), x)
        BY <1>1, <1>2, <2>3, <3>2, SelectsLater
      <4>2. ASSUME NEW y PROVE Has(Append(list, x), y) <=> y = x \/ Has(list, y)
        <5> DEFINE p == Len(list) + 1
        <5>1. p \in 1 .. Len(list) + 1 /\ p > Len(list)
          BY <2>2
        <5> HIDE DEF p
        <5>2. InsertAt(list, p, x) = Append(list, x)
          BY <1>2, <2>2, <5>1, AppendIsInsert
        <5>3. Has(InsertAt(list, p, x), y) <=> y = x \/ Has(list, y)
          BY <1>2, <2>2, <5>1, HasInsert
        <5> QED
          BY <5>2, <5>3
      <4> QED
        BY <4>1, <4>2
    <3> QED
      BY <3>1, <3>2
  <2>5. PICK more : /\ Selected(dst, hash, more, x)
                    /\ \A y : Has(more, y) <=> y = x \/ Has(list, y)
    BY <2>4
  <2> HIDE DEF new, dst
  <2>6. \A y : Has(more, y) <=> y \in chosen /\ \E k \in 1 .. n + 1 : items[k] = y
    BY <1>1, <1>3, <1>5, <2>5
  <2>7. Selected(new.dst, hash, more, new.last)
    BY <2>1, <2>5
  <2>8. IsSelection(new, hash, items, chosen, n + 1)
    BY <2>6, <2>7 DEF IsSelection
  <2> QED
    BY <2>8 DEF new, x
<1> QED
  BY <1>4, <1>5

(* What the variables of HASH_SELECT may be.                               *)
FilledTables == UNION {Tables(n) : n \in Nat \ {0}}
Selections == [dst : FilledTables \cup {EmptyTable}, last : Items \cup {NULL}]

LEMMA SelectionTyped ==
  ASSUME NEW t, NEW hash, NEW list, NEW last, Selected(t, hash, list, last)
  PROVE  [dst |-> t, last |-> last] \in Selections
<1>1. CASE list = <<>>
  <2>1. t = EmptyTable /\ last = NULL
    BY <1>1 DEF Selected
  <2> QED
    BY <2>1 DEF Selections
<1>2. CASE list # <<>>
  <2>1. list \in Seq(Items) /\ last = list[Len(list)] /\ \E c : Hung(t, hash, list, c)
    BY <1>2 DEF Selected
  <2>2. last \in Items /\ IsTable(t)
    BY <1>2, <2>1 DEF Hung
  <2> DEFINE n == t.tbl.num_buckets
  <2>3. n \in Nat \ {0}
    BY <2>2 DEF IsTable
  <2> HIDE DEF n
  <2>4. t \in Tables(n)
    BY <2>2, <2>3, TablesOfSize DEF n
  <2>5. t \in FilledTables
    BY <2>3, <2>4 DEF FilledTables
  <2> QED
    BY <2>2, <2>5 DEF Selections
<1> QED
  BY <1>1, <1>2

(* HASH_SELECT makes a table of the chosen items.                          *)
LEMMA SelectSelects ==
  ASSUME NEW src, src.head # NULL, NEW hash \in [Keys -> Nat], NEW items,
         items = AllItems(src), items \in Seq(Items), UniqueKeys(items), NEW chosen
  PROVE  \E list, last :
           /\ Selected(Select(src, hash, chosen), hash, list, last)
           /\ \A y : Has(list, y) <=> y \in chosen /\ Has(items, y)
<1> DEFINE N == Len(items)
           start == [dst |-> EmptyTable, last |-> NULL]
           Go(n, x) == SelectNext(x, hash, chosen, items[n])
           I == [n \in Nat |-> {s \in Selections : IsSelection(s, hash, items, chosen, n)}]
           W == [n \in Nat |-> [x \in I[n - 1] |-> Go(n, x)]]
           G(g) == g = [n \in 0 .. N |-> IF n = 0 THEN start ELSE Go(n, g[n - 1])]
           selected == CHOOSE g : G(g)
<1>1. N \in Nat
  OBVIOUS
<1>2. Select(src, hash, chosen) = selected[N].dst
  BY DEF Select
<1>3. \A n \in Nat : \A s : s \in I[n] <=> /\ s \in Selections
                                           /\ IsSelection(s, hash, items, chosen, n)
  OBVIOUS
<1>4. start \in I[0]
  <2>1. start.dst = EmptyTable /\ start.last = NULL
    OBVIOUS
  <2> DEFINE none == <<>>
  <2>2. /\ none \in Seq(Items) /\ (\A y : ~Has(none, y)) /\ UniqueKeys(none)
        /\ \A y : ~\E k \in 1 .. 0 : items[k] = y
    BY DEF Has, UniqueKeys
  <2>3. Selected(EmptyTable, hash, none, NULL)
    BY <2>2 DEF Selected
  <2>4. start \in Selections
    BY <2>3, SelectionTyped
  <2> HIDE DEF start, none, I
  <2>5. IsSelection(start, hash, items, chosen, 0)
    BY <2>1, <2>2, <2>3 DEF IsSelection
  <2> QED
    BY <1>3, <2>4, <2>5
<1> HIDE DEF I, start
<1>5. ASSUME NEW n \in 0 .. N - 1, NEW x \in I[n] PROVE Go(n + 1, x) \in I[n + 1]
  <2>1. n \in Nat /\ n + 1 \in Nat /\ n \in 0 .. Len(items) - 1
    BY <1>1
  <2>2. x \in Selections /\ IsSelection(x, hash, items, chosen, n)
    BY <1>3, <2>1
  <2> DEFINE y == SelectNext(x, hash, chosen, items[n + 1])
  <2>3. IsSelection(y, hash, items, chosen, n + 1)
    <3> HIDE DEF N
    <3> QED
      BY <2>1, <2>2, SelectNextSelects
  <2>4. y = x \/ \E a, b : y = [dst |-> a, last |-> b]
    BY DEF SelectNext
  <2> HIDE DEF y
  <2>5. y \in Selections
    <3>1. ASSUME NEW a, NEW b, y = [dst |-> a, last |-> b] PROVE y \in Selections
      <4>1. y.dst = a /\ y.last = b
        BY <3>1
      <4>2. PICK list : Selected(y.dst, hash, list, y.last)
        BY <2>3 DEF IsSelection
      <4> QED
        BY <3>1, <4>1, <4>2, SelectionTyped
    <3> QED
      BY <2>2, <2>4, <3>1
  <2>6. y \in I[n + 1]
    BY <1>3, <2>1, <2>3, <2>5
  <2> QED
    BY <2>6 DEF y
<1>6. ASSUME NEW n \in 0 .. N - 1, NEW x \in I[n] PROVE W[n + 1][x] = Go(n + 1, x)
  <2> DEFINE k == n + 1
  <2>1. k \in Nat /\ k - 1 = n
    BY <1>1
  <2> HIDE DEF Go, k
  <2>2. W[k] = [y \in I[n] |-> Go(k, y)]
    BY <2>1
  <2>3. W[k][x] = Go(k, x)
    BY <2>2
  <2> QED
    BY <2>3 DEF k
<1> HIDE DEF W, Go, N, selected
<1>7. PICK f : IsLoop(f, start, W, N) /\ \A n \in 0 .. N : f[n] \in I[n]
  <2>1. \A n \in 0 .. N - 1 : \A x \in I[n] : W[n + 1][x] \in I[n + 1]
    BY <1>5, <1>6
  <2> QED
    BY <1>1, <1>4, <2>1, GradedLoop
<1>8. G(f)
  <2>1. ASSUME NEW n \in 0 .. N
        PROVE  (IF n = 0 THEN start ELSE W[n][f[n - 1]])
                 = IF n = 0 THEN start ELSE Go(n, f[n - 1])
    <3>1. CASE n # 0
      <4>1. n - 1 \in 0 .. N - 1 /\ n - 1 + 1 = n /\ n - 1 \in 0 .. N
        BY <1>1, <3>1
      <4>2. W[n - 1 + 1][f[n - 1]] = Go(n - 1 + 1, f[n - 1])
        BY <1>6, <1>7, <4>1
      <4> QED
        BY <3>1, <4>1, <4>2
    <3> QED
      BY <3>1
  <2>2. f = [n \in 0 .. N |-> IF n = 0 THEN start ELSE W[n][f[n - 1]]]
    BY <1>7 DEF IsLoop
  <2> QED
    BY <2>1, <2>2
<1>9. G(selected)
  <2> HIDE DEF G
  <2> QED
    BY <1>8 DEF selected
<1>10. selected[N] \in I[N]
  <2>1. \A k \in 0 .. N : selected[k] = IF k = 0 THEN start ELSE Go(k, selected[k - 1])
    BY <1>9
  <2>2. selected[0] \in I[0]
    BY <1>1, <1>4, <2>1
  <2>3. ASSUME NEW n \in 0 .. N - 1, selected[n] \in I[n]
        PROVE  selected[n + 1] \in I[n + 1]
    <3>1. n + 1 \in 0 .. N /\ n + 1 # 0 /\ n + 1 - 1 = n
      BY <1>1
    <3>2. selected[n + 1] = Go(n + 1, selected[n])
      BY <2>1, <3>1
    <3> QED
      BY <1>5, <2>3, <3>2
  <2> QED
    BY <1>1, <2>2, <2>3, RoundsKeep
<1> DEFINE s == selected[N]
<1>11. IsSelection(s, hash, items, chosen, N)
  BY <1>1, <1>3, <1>10
<1> HIDE DEF s
<1>12. PICK list : /\ Selected(s.dst, hash, list, s.last)
                   /\ \A y : Has(list, y) <=>
                        y \in chosen /\ \E k \in 1 .. N : items[k] = y
  BY <1>11 DEF IsSelection
<1>13. \A y : Has(items, y) <=> \E k \in 1 .. N : items[k] = y
  BY DEF Has, N
<1>14. \A y : Has(list, y) <=> y \in chosen /\ Has(items, y)
  BY <1>12, <1>13
<1>15. Selected(Select(src, hash, chosen), hash, list, s.last)
  BY <1>2, <1>12 DEF s
<1> QED
  BY <1>14, <1>15
=============================================================================
