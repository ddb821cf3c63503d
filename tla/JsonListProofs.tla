---------------------------- MODULE JsonListProofs ----------------------------
(***************************************************************************)
(* The calls of cJSON that link and unlink a child keep the lists of a     *)
(* heap: each does to the pointers what it should do to the list of the    *)
(* parent, for any number of items and lists, and leaves everything else   *)
(* as it was.                                                              *)
(***************************************************************************)
EXTENDS JsonLists, ListLemmas, FiniteSetTheorems

NextOf(h)  == [n \in Nodes |-> h.node[n].next]
PrevOf(h)  == [n \in Nodes |-> h.node[n].prev]
ChildOf(h) == [n \in Nodes |-> h.node[n].child]

Pointers == [Nodes -> Nodes \cup {NULL}]

(* The heaps differ in nothing but links.                                  *)
Content(cell) ==
  <<cell.alive, cell.isref, cell.constkey, cell.kind, cell.shares, cell.string, cell.value>>

SameItems(h, g) ==
  /\ g.strings = h.strings /\ g.budget = h.budget /\ g.fault = h.fault
  /\ \A n \in Nodes : Content(g.node[n]) = Content(h.node[n])

LEMMA Views ==
  ASSUME NEW h, IsHeap(h)
  PROVE  /\ NextOf(h) \in Pointers /\ PrevOf(h) \in Pointers /\ ChildOf(h) \in Pointers
         /\ \A n \in Nodes : /\ NextOf(h)[n] = h.node[n].next
                             /\ PrevOf(h)[n] = h.node[n].prev
                             /\ ChildOf(h)[n] = h.node[n].child
BY DEF NextOf, PrevOf, ChildOf, Pointers, IsHeap, Cell

WithCell(h, n, cell) == [h EXCEPT !.node[n] = cell]

LEMMA CellWritten ==
  ASSUME NEW h, IsHeap(h), NEW n \in Nodes, NEW cell \in Cell,
         Content(cell) = Content(h.node[n])
  PROVE  /\ IsHeap(WithCell(h, n, cell)) /\ SameItems(h, WithCell(h, n, cell))
         /\ \A m \in Nodes :
              WithCell(h, n, cell).node[m] = IF m = n THEN cell ELSE h.node[m]
<1> DEFINE g == WithCell(h, n, cell)
<1>1. /\ IsHeap(g) /\ g.strings = h.strings /\ g.budget = h.budget /\ g.fault = h.fault
      /\ \A m \in Nodes : g.node[m] = IF m = n THEN cell ELSE h.node[m]
  BY DEF IsHeap, WithCell
<1> HIDE DEF g
<1>2. \A m \in Nodes : Content(g.node[m]) = Content(h.node[m])
  BY <1>1
<1>3. SameItems(h, g)
  BY <1>1, <1>2 DEF SameItems
<1> QED
  BY <1>1, <1>3 DEF g

LEMMA NextWritten ==
  ASSUME NEW h, IsHeap(h), NEW n \in Nodes, NEW x \in Nodes \cup {NULL}
  PROVE  /\ IsHeap(SetNext(h, n, x)) /\ SameItems(h, SetNext(h, n, x))
         /\ NextOf(SetNext(h, n, x)) = [NextOf(h) EXCEPT ![n] = x]
         /\ PrevOf(SetNext(h, n, x)) = PrevOf(h) /\ ChildOf(SetNext(h, n, x)) = ChildOf(h)
<1> DEFINE cell == [h.node[n] EXCEPT !.next = x]
           g == SetNext(h, n, x)
<1>1. h.node[n] \in Cell
  BY DEF IsHeap
<1>2. /\ cell \in Cell /\ Content(cell) = Content(h.node[n])
      /\ cell.next = x /\ cell.prev = h.node[n].prev /\ cell.child = h.node[n].child
  BY <1>1 DEF Cell, Content
<1>3. g = WithCell(h, n, cell)
  BY Zenon DEF SetNext, WithCell
<1> HIDE DEF cell, g
<1>4. /\ IsHeap(g) /\ SameItems(h, g)
      /\ \A m \in Nodes : g.node[m] = IF m = n THEN cell ELSE h.node[m]
  BY <1>2, <1>3, CellWritten
<1>5. /\ \A m \in Nodes : g.node[m].next = IF m = n THEN x ELSE h.node[m].next
      /\ \A m \in Nodes : g.node[m].prev = h.node[m].prev /\ g.node[m].child = h.node[m].child
  BY <1>2, <1>4
<1>6. /\ NextOf(g) = [NextOf(h) EXCEPT ![n] = x]
      /\ PrevOf(g) = PrevOf(h) /\ ChildOf(g) = ChildOf(h)
  BY <1>5 DEF NextOf, PrevOf, ChildOf
<1> QED
  BY <1>4, <1>6 DEF g

LEMMA PrevWritten ==
  ASSUME NEW h, IsHeap(h), NEW n \in Nodes, NEW x \in Nodes \cup {NULL}
  PROVE  /\ IsHeap(SetPrev(h, n, x)) /\ SameItems(h, SetPrev(h, n, x))
         /\ PrevOf(SetPrev(h, n, x)) = [PrevOf(h) EXCEPT ![n] = x]
         /\ NextOf(SetPrev(h, n, x)) = NextOf(h) /\ ChildOf(SetPrev(h, n, x)) = ChildOf(h)
<1> DEFINE cell == [h.node[n] EXCEPT !.prev = x]
           g == SetPrev(h, n, x)
<1>1. h.node[n] \in Cell
  BY DEF IsHeap
<1>2. /\ cell \in Cell /\ Content(cell) = Content(h.node[n])
      /\ cell.prev = x /\ cell.next = h.node[n].next /\ cell.child = h.node[n].child
  BY <1>1 DEF Cell, Content
<1>3. g = WithCell(h, n, cell)
  BY Zenon DEF SetPrev, WithCell
<1> HIDE DEF cell, g
<1>4. /\ IsHeap(g) /\ SameItems(h, g)
      /\ \A m \in Nodes : g.node[m] = IF m = n THEN cell ELSE h.node[m]
  BY <1>2, <1>3, CellWritten
<1>5. /\ \A m \in Nodes : g.node[m].prev = IF m = n THEN x ELSE h.node[m].prev
      /\ \A m \in Nodes : g.node[m].next = h.node[m].next /\ g.node[m].child = h.node[m].child
  BY <1>2, <1>4
<1>6. /\ PrevOf(g) = [PrevOf(h) EXCEPT ![n] = x]
      /\ NextOf(g) = NextOf(h) /\ ChildOf(g) = ChildOf(h)
  BY <1>5 DEF NextOf, PrevOf, ChildOf
<1> QED
  BY <1>4, <1>6 DEF g

LEMMA ChildWritten ==
  ASSUME NEW h, IsHeap(h), NEW n \in Nodes, NEW x \in Nodes \cup {NULL}
  PROVE  /\ IsHeap(SetChild(h, n, x)) /\ SameItems(h, SetChild(h, n, x))
         /\ ChildOf(SetChild(h, n, x)) = [ChildOf(h) EXCEPT ![n] = x]
         /\ NextOf(SetChild(h, n, x)) = NextOf(h) /\ PrevOf(SetChild(h, n, x)) = PrevOf(h)
<1> DEFINE cell == [h.node[n] EXCEPT !.child = x]
           g == SetChild(h, n, x)
<1>1. h.node[n] \in Cell
  BY DEF IsHeap
<1>2. /\ cell \in Cell /\ Content(cell) = Content(h.node[n])
      /\ cell.child = x /\ cell.next = h.node[n].next /\ cell.prev = h.node[n].prev
  BY <1>1 DEF Cell, Content
<1>3. g = WithCell(h, n, cell)
  BY Zenon DEF SetChild, WithCell
<1> HIDE DEF cell, g
<1>4. /\ IsHeap(g) /\ SameItems(h, g)
      /\ \A m \in Nodes : g.node[m] = IF m = n THEN cell ELSE h.node[m]
  BY <1>2, <1>3, CellWritten
<1>5. /\ \A m \in Nodes : g.node[m].child = IF m = n THEN x ELSE h.node[m].child
      /\ \A m \in Nodes : g.node[m].next = h.node[m].next /\ g.node[m].prev = h.node[m].prev
  BY <1>2, <1>4
<1>6. /\ ChildOf(g) = [ChildOf(h) EXCEPT ![n] = x]
      /\ NextOf(g) = NextOf(h) /\ PrevOf(g) = PrevOf(h)
  BY <1>5 DEF NextOf, PrevOf, ChildOf
<1> QED
  BY <1>4, <1>6 DEF g
-----------------------------------------------------------------------------
(* Lists whose first item knows the last one.                              *)

Has(list, item) == \E i \in DOMAIN list : list[i] = item

Distinct(list) == \A i, j \in DOMAIN list : list[i] = list[j] => i = j

Circular(list, next, prev) ==
  /\ list \in Seq(Nodes)
  /\ \A i \in DOMAIN list :
       /\ next[list[i]] = NodeAt(list, i + 1)
       /\ prev[list[i]] = IF i = 1 THEN Last(list) ELSE list[i - 1]

LEMMA ListFacts ==
  ASSUME NEW list \in Seq(Nodes)
  PROVE  /\ Len(list) \in Nat /\ DOMAIN list = 1 .. Len(list)
         /\ \A i \in 1 .. Len(list) : list[i] \in Nodes /\ list[i] # NULL
         /\ \A i \in 1 .. Len(list) : NodeAt(list, i) = list[i]
         /\ NodeAt(list, Len(list) + 1) = NULL
         /\ Last(list) = list[Len(list)]
<1>1. /\ Len(list) \in Nat /\ DOMAIN list = 1 .. Len(list)
      /\ \A i \in 1 .. Len(list) : list[i] \in Nodes
      /\ Len(list) + 1 \notin 1 .. Len(list)
  OBVIOUS
<1> QED
  BY <1>1, HeapAssumption DEF NodeAt, Last

(* Pointers that are the same at the items of the list.                    *)
LEMMA CircularElsewhere ==
  ASSUME NEW list, NEW next, NEW prev, Circular(list, next, prev), NEW N, NEW P,
         \A y \in Nodes : Has(list, y) => N[y] = next[y] /\ P[y] = prev[y]
  PROVE  Circular(list, N, P)
<1>1. /\ list \in Seq(Nodes) /\ DOMAIN list = 1 .. Len(list)
      /\ \A i \in DOMAIN list : list[i] \in Nodes /\ Has(list, list[i])
  BY DEF Circular, Has
<1> QED
  BY <1>1 DEF Circular

LEMMA StartCircle ==
  ASSUME NEW x \in Nodes, NEW N, NEW P, N[x] = NULL, P[x] = x
  PROVE  Circular(<<x>>, N, P) /\ Distinct(<<x>>)
<1> DEFINE list == <<x>>
<1>1. list \in Seq(Nodes) /\ Len(list) = 1 /\ list[1] = x /\ DOMAIN list = 1 .. 1
  OBVIOUS
<1> HIDE DEF list
<1>2. Last(list) = x /\ NodeAt(list, 2) = NULL
  BY <1>1, ListFacts DEF Last, NodeAt
<1>3. Circular(list, N, P) /\ Distinct(list)
  BY <1>1, <1>2 DEF Circular, Distinct
<1> QED
  BY <1>3 DEF list

LEMMA AppendCircle ==
  ASSUME NEW list, NEW next, NEW prev, Circular(list, next, prev), Distinct(list),
         list # <<>>, NEW x \in Nodes, ~Has(list, x), next[x] = NULL,
         NEW N, NEW P, N[Last(list)] = x, P[x] = Last(list), P[list[1]] = x,
         \A y \in Nodes \ {Last(list)} : N[y] = next[y],
         \A y \in Nodes \ {x, list[1]} : P[y] = prev[y]
  PROVE  Circular(Append(list, x), N, P) /\ Distinct(Append(list, x))
<1> DEFINE new == Append(list, x)
           n == Len(list)
<1>1. /\ list \in Seq(Nodes) /\ n \in Nat /\ n # 0 /\ DOMAIN list = 1 .. n
      /\ Last(list) = list[n]
      /\ \A i \in 1 .. n : /\ list[i] \in Nodes /\ list[i] # x
                           /\ next[list[i]] = NodeAt(list, i + 1)
                           /\ prev[list[i]] = IF i = 1 THEN Last(list) ELSE list[i - 1]
      /\ \A i, j \in 1 .. n : list[i] = list[j] => i = j
  BY ListFacts DEF Circular, Has, Distinct
<1>2. /\ new \in Seq(Nodes) /\ Len(new) = n + 1 /\ DOMAIN new = 1 .. n + 1
      /\ \A i \in 1 .. n : new[i] = list[i]
      /\ new[n + 1] = x
  BY <1>1
<1> HIDE DEF new
<1>3. Last(new) = x
  BY <1>2 DEF Last
<1>4. ASSUME NEW i \in 1 .. n + 1 PROVE N[new[i]] = NodeAt(new, i + 1)
  <2>1. CASE i = n + 1
    <3>1. NodeAt(new, i + 1) = NULL
      BY <1>2, <2>1 DEF NodeAt
    <3> QED
      BY <1>1, <1>2, <2>1, <3>1
  <2>2. CASE i = n
    BY <1>1, <1>2, <2>2 DEF NodeAt
  <2>3. CASE i < n
    <3>1. i \in 1 .. n /\ i + 1 \in 1 .. n /\ i + 1 \in 1 .. n + 1
      BY <1>1, <2>3
    <3>2. N[list[i]] = next[list[i]]
      BY <1>1, <2>3, <3>1
    <3> QED
      BY <1>1, <1>2, <3>1, <3>2 DEF NodeAt
  <2>4. i = n + 1 \/ i = n \/ i < n
    <3>1. n \in Nat
      BY <1>1
    <3> QED
      BY <3>1
  <2> QED
    BY <2>1, <2>2, <2>3, <2>4
<1>5. ASSUME NEW i \in 1 .. n + 1
      PROVE  P[new[i]] = IF i = 1 THEN Last(new) ELSE new[i - 1]
  <2>1. CASE i = n + 1
    BY <1>1, <1>2, <2>1
  <2>2. CASE i = 1
    BY <1>1, <1>2, <1>3, <2>2
  <2>3. CASE i # 1 /\ i <= n
    <3>1. i \in 1 .. n /\ i - 1 \in 1 .. n /\ 1 \in 1 .. n
      BY <1>1, <2>3
    <3>2. P[list[i]] = prev[list[i]]
      BY <1>1, <2>3, <3>1
    <3>3. new[i] = list[i] /\ new[i - 1] = list[i - 1]
      BY <1>2, <3>1
    <3>4. prev[list[i]] = list[i - 1]
      BY <1>1, <2>3, <3>1
    <3> QED
      BY <2>3, <3>2, <3>3, <3>4
  <2>4. i = n + 1 \/ i = 1 \/ (i # 1 /\ i <= n)
    BY <1>1
  <2> QED
    BY <2>1, <2>2, <2>3, <2>4
<1>6. Distinct(new)
  <2>1. ASSUME NEW i \in 1 .. n + 1, NEW j \in 1 .. n + 1, new[i] = new[j] PROVE i = j
    BY <1>1, <1>2, <2>1
  <2> QED
    BY <1>2, <2>1 DEF Distinct
<1> QED
  BY <1>2, <1>4, <1>5, <1>6 DEF Circular, new

LEMMA ItemInserted ==
  ASSUME NEW list \in Seq(Nodes), NEW i \in 1 .. Len(list), NEW x \in Nodes
  PROVE  /\ InsertAt(list, i, x) \in Seq(Nodes)
         /\ Len(InsertAt(list, i, x)) = Len(list) + 1
         /\ \A k \in 1 .. Len(list) + 1 :
              InsertAt(list, i, x)[k] = IF k < i THEN list[k]
                                        ELSE IF k = i THEN x ELSE list[k - 1]
<1>1. ASSUME NEW j \in 1 .. Len(list) + 1
      PROVE  /\ InsertAt(list, j, x) \in Seq(Nodes)
             /\ Len(InsertAt(list, j, x)) = Len(list) + 1
             /\ \A k \in 1 .. Len(list) + 1 :
                  InsertAt(list, j, x)[k] = IF k < j THEN list[k]
                                            ELSE IF k = j THEN x ELSE list[k - 1]
  BY InsertElements
<1>2. i \in 1 .. Len(list) + 1
  OBVIOUS
<1> QED
  BY Zenon, <1>1, <1>2

LEMMA InsertCircle ==
  ASSUME NEW list, NEW next, NEW prev, Circular(list, next, prev), Distinct(list),
         NEW i \in 1 .. Len(list), NEW x \in Nodes, ~Has(list, x), NEW N, NEW P,
         N[x] = list[i], P[x] = prev[list[i]], P[list[i]] = x,
         i # 1 => N[list[i - 1]] = x,
         \A y \in Nodes : y # x /\ (i # 1 => y # list[i - 1]) => N[y] = next[y],
         \A y \in Nodes \ {x, list[i]} : P[y] = prev[y]
  PROVE  Circular(InsertAt(list, i, x), N, P) /\ Distinct(InsertAt(list, i, x))
<1> DEFINE new == InsertAt(list, i, x)
           n == Len(list)
<1>1. /\ list \in Seq(Nodes) /\ n \in Nat /\ n # 0 /\ DOMAIN list = 1 .. n
      /\ Last(list) = list[n] /\ i \in 1 .. n
      /\ \A k \in 1 .. n : /\ list[k] \in Nodes /\ list[k] # x
                           /\ next[list[k]] = NodeAt(list, k + 1)
                           /\ prev[list[k]] = IF k = 1 THEN Last(list) ELSE list[k - 1]
      /\ \A k, l \in 1 .. n : list[k] = list[l] => k = l
  <2>1. list \in Seq(Nodes)
    BY DEF Circular
  <2>2. n \in Nat /\ n # 0 /\ DOMAIN list = 1 .. n /\ Last(list) = list[n] /\ i \in 1 .. n
    BY <2>1, ListFacts
  <2>3. ASSUME NEW k \in 1 .. n
        PROVE  /\ list[k] \in Nodes /\ list[k] # x
               /\ next[list[k]] = NodeAt(list, k + 1)
               /\ prev[list[k]] = IF k = 1 THEN Last(list) ELSE list[k - 1]
    <3>1. list[k] \in Nodes /\ k \in DOMAIN list
      BY <2>1, <2>2
    <3>2. /\ next[list[k]] = NodeAt(list, k + 1)
          /\ prev[list[k]] = IF k = 1 THEN Last(list) ELSE list[k - 1]
      BY <3>1 DEF Circular
    <3>3. list[k] # x
      BY <3>1 DEF Has
    <3> QED
      BY <3>1, <3>2, <3>3
  <2>4. \A k, l \in 1 .. n : list[k] = list[l] => k = l
    BY <2>2 DEF Distinct
  <2> QED
    BY <2>1, <2>2, <2>3, <2>4
<1>2. /\ new \in Seq(Nodes) /\ Len(new) = n + 1 /\ DOMAIN new = 1 .. n + 1
      /\ \A k \in 1 .. n + 1 :
           new[k] = IF k < i THEN list[k] ELSE IF k = i THEN x ELSE list[k - 1]
  <2>1. list \in Seq(Nodes)
    BY <1>1
  <2>2. /\ new \in Seq(Nodes) /\ Len(new) = Len(list) + 1
        /\ \A k \in 1 .. Len(list) + 1 :
             new[k] = IF k < i THEN list[k] ELSE IF k = i THEN x ELSE list[k - 1]
    BY <2>1, ItemInserted
  <2> QED
    BY <2>1, <2>2
<1> HIDE DEF new
<1>3. Last(new) = list[n]
  BY <1>1, <1>2 DEF Last
<1>4. ASSUME NEW k \in 1 .. n + 1 PROVE N[new[k]] = NodeAt(new, k + 1)
  <2>1. CASE k = i
    <3>1. new[k] = x /\ k + 1 \in 1 .. n + 1 /\ new[k + 1] = list[i]
      BY <1>1, <1>2, <2>1
    <3> QED
      BY <1>2, <3>1 DEF NodeAt
  <2>2. CASE k = i - 1
    <3>1. k \in 1 .. n /\ i # 1 /\ new[k] = list[i - 1] /\ i \in 1 .. n + 1 /\ new[i] = x
      BY <1>1, <1>2, <2>2
    <3> QED
      BY <1>2, <2>2, <3>1 DEF NodeAt
  <2>3. CASE k < i - 1
    <3>1. /\ k \in 1 .. n /\ k + 1 \in 1 .. n /\ k + 1 \in 1 .. n + 1
          /\ new[k] = list[k] /\ new[k + 1] = list[k + 1] /\ i - 1 \in 1 .. n
          /\ k # i - 1
      BY <1>1, <1>2, <2>3
    <3>2. N[list[k]] = next[list[k]]
      BY <1>1, <3>1
    <3> QED
      BY <1>1, <1>2, <3>1, <3>2 DEF NodeAt
  <2>4. CASE k > i
    <3>1. k - 1 \in 1 .. n /\ new[k] = list[k - 1] /\ k - 1 # i - 1 /\ k - 1 + 1 = k
      BY <1>1, <1>2, <2>4
    <3>2. N[list[k - 1]] = next[list[k - 1]]
      <4>1. i # 1 => i - 1 \in 1 .. n
        BY <1>1
      <4> QED
        BY <1>1, <3>1, <4>1
    <3>3. next[list[k - 1]] = NodeAt(list, k)
      BY <1>1, <3>1
    <3>4. NodeAt(list, k) = NodeAt(new, k + 1)
      <4>1. CASE k = n + 1
        BY <1>1, <1>2, <4>1 DEF NodeAt
      <4>2. CASE k # n + 1
        <5>1. k \in 1 .. n /\ k + 1 \in 1 .. n + 1 /\ i \in 1 .. n /\ k + 1 - 1 = k
          <6>1. n \in Nat /\ k \in 1 .. n + 1 /\ i \in 1 .. n
            BY <1>1
          <6> HIDE DEF n
          <6> QED
            BY <4>2, <6>1
        <5>2. ~(k + 1 < i) /\ k + 1 # i
          BY <2>4, <5>1
        <5>3. new[k + 1] = list[k]
          BY <1>2, <5>1, <5>2
        <5> QED
          BY <1>1, <1>2, <5>1, <5>3 DEF NodeAt
      <4> QED
        BY <4>1, <4>2
    <3> QED
      BY <3>1, <3>2, <3>3, <3>4
  <2>5. k = i \/ k = i - 1 \/ k < i - 1 \/ k > i
    BY <1>1
  <2> QED
    BY <2>1, <2>2, <2>3, <2>4, <2>5
<1>5. ASSUME NEW k \in 1 .. n + 1
      PROVE  P[new[k]] = IF k = 1 THEN Last(new) ELSE new[k - 1]
  <2>1. CASE k = i
    <3>1. P[new[k]] = IF i = 1 THEN Last(list) ELSE list[i - 1]
      BY <1>1, <1>2, <2>1
    <3>2. i # 1 => new[i - 1] = list[i - 1]
      BY <1>1, <1>2
    <3> QED
      BY <1>1, <1>3, <2>1, <3>1, <3>2
  <2>2. CASE k = i + 1
    <3>1. new[k] = list[i] /\ new[k - 1] = x /\ k # 1
      BY <1>1, <1>2, <2>2
    <3> QED
      BY <3>1
  <2>3. CASE k < i
    <3>1. k \in 1 .. n /\ new[k] = list[k] /\ k # i
      BY <1>1, <1>2, <2>3
    <3>2. P[list[k]] = prev[list[k]]
      BY <1>1, <3>1
    <3>3. k # 1 => new[k - 1] = list[k - 1]
      <4>1. k # 1 => k - 1 \in 1 .. n + 1 /\ k - 1 < i
        BY <2>3, <3>1
      <4> QED
        BY <1>2, <4>1
    <3> QED
      BY <1>1, <1>3, <3>1, <3>2, <3>3
  <2>4. CASE k > i + 1
    <3>1. /\ k - 1 \in 1 .. n /\ new[k] = list[k - 1] /\ k - 1 # i /\ k # 1 /\ k - 1 # 1
          /\ k - 1 \in 1 .. n + 1 /\ new[k - 1] = list[k - 1 - 1]
      BY <1>1, <1>2, <2>4
    <3>2. P[list[k - 1]] = prev[list[k - 1]]
      BY <1>1, <3>1
    <3> QED
      BY <1>1, <3>1, <3>2
  <2>5. k = i \/ k = i + 1 \/ k < i \/ k > i + 1
    BY <1>1
  <2> QED
    BY <2>1, <2>2, <2>3, <2>4, <2>5
<1>6. Distinct(new)
  <2>1. ASSUME NEW k \in 1 .. n + 1, NEW l \in 1 .. n + 1, new[k] = new[l] PROVE k = l
    <3> DEFINE Old(m) == IF m < i THEN m ELSE m - 1
    <3>1. \A m \in 1 .. n + 1 : m # i => Old(m) \in 1 .. n /\ new[m] = list[Old(m)]
      BY <1>1, <1>2
    <3>2. \A m \in 1 .. n + 1 : new[m] = x <=> m = i
      BY <1>1, <1>2, <3>1
    <3>3. CASE k # i /\ l # i
      <4>1. Old(k) = Old(l)
        BY <1>1, <2>1, <3>1, <3>3
      <4> QED
        BY <1>1, <3>3, <4>1
    <3> QED
      BY <2>1, <3>2, <3>3
  <2> QED
    BY <1>2, <2>1 DEF Distinct
<1> QED
  BY <1>2, <1>4, <1>5, <1>6 DEF Circular, new

(* The pointers N, P of a list after the item at place i is unlinked.       *)
Unlinked(list, i, next, prev, N, P) ==
  LET right == NodeAt(list, i + 1)
  IN /\ i # 1 => N[list[i - 1]] = right
     /\ right # NULL => P[right] = prev[list[i]]
     /\ i # 1 /\ right = NULL => P[list[1]] = prev[list[i]]
     /\ \A y \in Nodes : y # list[i] /\ (i # 1 => y # list[i - 1]) => N[y] = next[y]
     /\ \A y \in Nodes :
          y # list[i] /\ y # right /\ (i # 1 /\ right = NULL => y # list[1])
            => P[y] = prev[y]

LEMMA ItemRemoved ==
  ASSUME NEW list \in Seq(Nodes), NEW i \in 1 .. Len(list)
  PROVE  /\ RemoveAt(list, i) \in Seq(Nodes)
         /\ Len(RemoveAt(list, i)) = Len(list) - 1
         /\ \A k \in 1 .. Len(list) - 1 :
              RemoveAt(list, i)[k] = IF k < i THEN list[k] ELSE list[k + 1]
BY RemoveElements

LEMMA RemoveCircle ==
  ASSUME NEW list, NEW next, NEW prev, Circular(list, next, prev), Distinct(list),
         NEW i \in 1 .. Len(list), NEW N, NEW P, Unlinked(list, i, next, prev, N, P)
  PROVE  Circular(RemoveAt(list, i), N, P) /\ Distinct(RemoveAt(list, i))
<1> DEFINE right == NodeAt(list, i + 1)
<1>0. /\ i # 1 => N[list[i - 1]] = right
      /\ right # NULL => P[right] = prev[list[i]]
      /\ i # 1 /\ right = NULL => P[list[1]] = prev[list[i]]
      /\ \A y \in Nodes : y # list[i] /\ (i # 1 => y # list[i - 1]) => N[y] = next[y]
      /\ \A y \in Nodes :
           y # list[i] /\ y # right /\ (i # 1 /\ right = NULL => y # list[1])
             => P[y] = prev[y]
  BY Zenon DEF Unlinked
<1> DEFINE new == RemoveAt(list, i)
           n == Len(list)
<1>1. /\ list \in Seq(Nodes) /\ n \in Nat /\ n # 0 /\ DOMAIN list = 1 .. n
      /\ Last(list) = list[n] /\ i \in 1 .. n
      /\ \A k \in 1 .. n : list[k] \in Nodes /\ list[k] # NULL
      /\ \A k, l \in 1 .. n : list[k] = list[l] => k = l
  BY ListFacts DEF Circular, Distinct
<1>8. \A k \in 1 .. n :
        /\ next[list[k]] = NodeAt(list, k + 1)
        /\ prev[list[k]] = IF k = 1 THEN list[n] ELSE list[k - 1]
  BY <1>1 DEF Circular
<1>2. /\ new \in Seq(Nodes) /\ Len(new) = n - 1 /\ DOMAIN new = 1 .. n - 1
      /\ \A k \in 1 .. n - 1 : new[k] = IF k < i THEN list[k] ELSE list[k + 1]
  <2>1. list \in Seq(Nodes) /\ n \in Nat
    BY <1>1
  <2>2. /\ new \in Seq(Nodes) /\ Len(new) = n - 1
        /\ \A k \in 1 .. n - 1 : new[k] = IF k < i THEN list[k] ELSE list[k + 1]
    BY <2>1, ItemRemoved
  <2> HIDE DEF new
  <2> QED
    BY <2>1, <2>2
<1> HIDE DEF new
<1>9. n \in Nat /\ n # 0 /\ i \in 1 .. n /\ 1 \in 1 .. n /\ n \in 1 .. n
  BY <1>1
<1>10. NodeAt(list, n + 1) = NULL /\ \A k \in 1 .. n : NodeAt(list, k) = list[k]
  BY <1>1, ListFacts
<1> HIDE DEF n
<1>3. right = IF i = n THEN NULL ELSE list[i + 1]
  <2>1. i = n \/ i + 1 \in 1 .. n
    BY <1>9
  <2> QED
    BY <1>9, <1>10, <2>1
<1> HIDE DEF right
<1>4. n - 1 # 0 => Last(new) = IF i = n THEN list[n - 1] ELSE list[n]
  <2>1. Last(new) = new[n - 1]
    BY <1>2 DEF Last
  <2>2. n - 1 # 0 => n - 1 \in 1 .. n - 1 /\ n - 1 + 1 = n /\ (n - 1 < i <=> i = n)
    BY <1>9
  <2> QED
    BY <1>2, <2>1, <2>2
<1>11. NodeAt(new, n) = NULL /\ \A k \in 1 .. n - 1 : NodeAt(new, k) = new[k]
  <2>1. DOMAIN new = 1 .. n - 1 /\ n \notin 1 .. n - 1
    BY <1>2, <1>9
  <2> QED
    BY <2>1 DEF NodeAt
<1>12. \A y \in 1 .. n : y # i /\ (i # 1 => y # i - 1) => N[list[y]] = next[list[y]]
  <2>1. i # 1 => i - 1 \in 1 .. n
    BY <1>9
  <2> QED
    BY <1>0, <1>1, <1>9, <2>1
<1>13. \A y \in 1 .. n : y # i /\ (i # n => y # i + 1) /\ (i # 1 /\ i = n => y # 1)
                           => P[list[y]] = prev[list[y]]
  <2> SUFFICES ASSUME NEW y \in 1 .. n, y # i, i # n => y # i + 1, i # 1 /\ i = n => y # 1
               PROVE  P[list[y]] = prev[list[y]]
    OBVIOUS
  <2>1. i # n => i + 1 \in 1 .. n
    BY <1>9
  <2>2. list[y] # list[i] /\ list[y] \in Nodes /\ list[y] # NULL
    BY <1>1, <1>9
  <2>3. list[y] # right
    BY <1>1, <1>3, <2>1, <2>2
  <2>4. i # 1 /\ right = NULL => list[y] # list[1]
    <3>1. right = NULL => i = n
      BY <1>1, <1>3, <2>1
    <3> QED
      BY <1>1, <1>9, <3>1
  <2> QED
    BY <1>0, <2>2, <2>3, <2>4
<1>5. ASSUME NEW k \in 1 .. n - 1 PROVE N[new[k]] = NodeAt(new, k + 1)
  <2>1. CASE k = i - 1
    <3>1. i # 1 /\ k < i /\ k + 1 = i /\ ~(i < i)
      BY <1>9, <2>1
    <3>2. N[new[k]] = right
      BY <1>0, <1>2, <2>1, <3>1
    <3>3. i = n \/ (i \in 1 .. n - 1 /\ i # n)
      BY <1>9
    <3> QED
      BY <1>2, <1>3, <1>11, <3>1, <3>2, <3>3
  <2>2. CASE k < i - 1
    <3>1. /\ k \in 1 .. n /\ k + 1 \in 1 .. n /\ k + 1 \in 1 .. n - 1 /\ k < i /\ k + 1 < i
          /\ k # i - 1 /\ k # i
      BY <1>9, <2>2
    <3>2. new[k] = list[k] /\ NodeAt(new, k + 1) = list[k + 1]
      BY <1>2, <1>11, <3>1
    <3> QED
      BY <1>8, <1>10, <1>12, <3>1, <3>2
  <2>3. CASE k >= i
    <3>1. k + 1 \in 1 .. n /\ k + 1 # i - 1 /\ k + 1 # i /\ ~(k < i) /\ k + 1 + 1 = k + 2
      BY <1>9, <2>3
    <3>2. new[k] = list[k + 1]
      BY <1>2, <3>1
    <3>3. N[list[k + 1]] = NodeAt(list, k + 2)
      BY <1>8, <1>12, <3>1
    <3>4. NodeAt(list, k + 2) = NodeAt(new, k + 1)
      <4>1. CASE k = n - 1
        <5>1. k + 2 = n + 1 /\ k + 1 = n
          BY <1>9, <4>1
        <5> QED
          BY <1>10, <1>11, <5>1
      <4>2. CASE k # n - 1
        <5>1. /\ k + 2 \in 1 .. n /\ k + 1 \in 1 .. n - 1 /\ ~(k + 1 < i)
              /\ k + 1 + 1 = k + 2
          BY <1>9, <2>3, <4>2
        <5> QED
          BY <1>2, <1>10, <1>11, <5>1
      <4> QED
        BY <4>1, <4>2
    <3> QED
      BY <3>2, <3>3, <3>4
  <2>4. k = i - 1 \/ k < i - 1 \/ k >= i
    BY <1>9
  <2> QED
    BY <2>1, <2>2, <2>3, <2>4
<1>6. ASSUME NEW k \in 1 .. n - 1
      PROVE  P[new[k]] = IF k = 1 THEN Last(new) ELSE new[k - 1]
  <2>1. CASE k = i
    <3>1. i # n /\ n - 1 # 0 /\ i + 1 \in 1 .. n /\ ~(k < i)
      BY <1>9, <2>1
    <3>2. new[k] = list[i + 1] /\ right = list[i + 1] /\ right # NULL
      BY <1>1, <1>2, <1>3, <2>1, <3>1
    <3>3. P[new[k]] = IF i = 1 THEN list[n] ELSE list[i - 1]
      BY <1>0, <1>8, <1>9, <3>2
    <3>4. i # 1 => i - 1 \in 1 .. n - 1 /\ i - 1 < i
      BY <1>9
    <3>5. i # 1 => new[i - 1] = list[i - 1]
      BY <1>2, <3>4
    <3> QED
      BY <1>4, <2>1, <3>1, <3>3, <3>5
  <2>2. CASE k = 1 /\ i = n
    <3>1. i # 1 /\ n - 1 # 0 /\ k < i
      BY <1>9, <2>2
    <3>2. new[k] = list[1] /\ right = NULL /\ prev[list[i]] = list[n - 1]
      BY <1>2, <1>3, <1>8, <1>9, <2>2, <3>1
    <3> QED
      BY <1>0, <1>4, <2>2, <3>1, <3>2
  <2>3. CASE k < i /\ ~(k = 1 /\ i = n)
    <3>1. /\ k \in 1 .. n /\ k # i /\ n - 1 # 0 /\ k # i + 1 /\ (i = n => k # 1)
          /\ (k # 1 => k - 1 \in 1 .. n - 1 /\ k - 1 < i)
      BY <1>9, <2>3
    <3>2. new[k] = list[k] /\ (k # 1 => new[k - 1] = list[k - 1])
      BY <1>2, <2>3, <3>1
    <3>3. P[list[k]] = prev[list[k]]
      BY <1>13, <3>1
    <3>4. k = 1 => i # n
      BY <2>3
    <3> QED
      BY <1>4, <1>8, <3>1, <3>2, <3>3, <3>4
  <2>4. CASE k > i
    <3>1. /\ k + 1 \in 1 .. n /\ k + 1 # i /\ k + 1 # i + 1 /\ k + 1 # 1 /\ k + 1 - 1 = k
          /\ k # 1 /\ k - 1 \in 1 .. n - 1 /\ ~(k < i) /\ ~(k - 1 < i) /\ i # n
          /\ k - 1 + 1 = k
      BY <1>9, <2>4
    <3>2. new[k] = list[k + 1] /\ new[k - 1] = list[k]
      BY <1>2, <3>1
    <3>3. P[list[k + 1]] = prev[list[k + 1]]
      BY <1>13, <3>1
    <3>4. prev[list[k + 1]] = list[k]
      BY <1>8, <3>1
    <3> QED
      BY <3>1, <3>2, <3>3, <3>4
  <2>5. k = i \/ (k = 1 /\ i = n) \/ (k < i /\ ~(k = 1 /\ i = n)) \/ k > i
    BY <1>9
  <2> QED
    BY <2>1, <2>2, <2>3, <2>4, <2>5
<1>7. Distinct(new)
  <2>1. ASSUME NEW k \in 1 .. n - 1, NEW l \in 1 .. n - 1, new[k] = new[l] PROVE k = l
    <3> DEFINE Old(m) == IF m < i THEN m ELSE m + 1
    <3>1. \A m \in 1 .. n - 1 : Old(m) \in 1 .. n /\ new[m] = list[Old(m)]
      BY <1>1, <1>2
    <3>2. Old(k) = Old(l)
      BY <1>1, <2>1, <3>1
    <3> QED
      BY <1>1, <3>2
  <2> QED
    BY <1>2, <2>1 DEF Distinct
<1> QED
  BY <1>2, <1>5, <1>6, <1>7 DEF Circular, new, n

(* The pointers N, P of a list after x took the place i.                     *)
Swapped(list, i, x, next, prev, N, P) ==
  LET right == NodeAt(list, i + 1)
  IN /\ N[x] = right /\ (i # 1 => N[list[i - 1]] = x)
     /\ P[x] = IF i = 1 /\ prev[list[i]] = list[i] THEN x ELSE prev[list[i]]
     /\ right # NULL => P[right] = x
     /\ i # 1 /\ right = NULL => P[list[1]] = x
     /\ \A y \in Nodes : y # x /\ y # list[i] /\ (i # 1 => y # list[i - 1]) => N[y] = next[y]
     /\ \A y \in Nodes :
          y # x /\ y # list[i] /\ y # right /\ (i # 1 /\ right = NULL => y # list[1])
            => P[y] = prev[y]

LEMMA ReplaceCircle ==
  ASSUME NEW list, NEW next, NEW prev, Circular(list, next, prev), Distinct(list),
         NEW i \in 1 .. Len(list), NEW x \in Nodes, ~Has(list, x), NEW N, NEW P,
         Swapped(list, i, x, next, prev, N, P)
  PROVE  Circular(ReplaceAt(list, i, x), N, P) /\ Distinct(ReplaceAt(list, i, x))
<1> DEFINE right == NodeAt(list, i + 1)
<1>0. /\ N[x] = right /\ (i # 1 => N[list[i - 1]] = x)
      /\ P[x] = IF i = 1 /\ prev[list[i]] = list[i] THEN x ELSE prev[list[i]]
      /\ right # NULL => P[right] = x
      /\ i # 1 /\ right = NULL => P[list[1]] = x
      /\ \A y \in Nodes : y # x /\ y # list[i] /\ (i # 1 => y # list[i - 1]) => N[y] = next[y]
      /\ \A y \in Nodes :
           y # x /\ y # list[i] /\ y # right /\ (i # 1 /\ right = NULL => y # list[1])
             => P[y] = prev[y]
  BY Zenon DEF Swapped
<1> DEFINE new == ReplaceAt(list, i, x)
           n == Len(list)
<1>1. /\ list \in Seq(Nodes) /\ n \in Nat /\ n # 0 /\ DOMAIN list = 1 .. n
      /\ Last(list) = list[n] /\ i \in 1 .. n
      /\ \A k \in 1 .. n : list[k] \in Nodes /\ list[k] # NULL /\ list[k] # x
      /\ \A k, l \in 1 .. n : list[k] = list[l] => k = l
  BY ListFacts DEF Circular, Distinct, Has
<1>8. \A k \in 1 .. n :
        /\ next[list[k]] = NodeAt(list, k + 1)
        /\ prev[list[k]] = IF k = 1 THEN list[n] ELSE list[k - 1]
  BY <1>1 DEF Circular
<1>2. /\ new \in Seq(Nodes) /\ Len(new) = n /\ DOMAIN new = 1 .. n
      /\ \A k \in 1 .. n : new[k] = IF k = i THEN x ELSE list[k]
  BY <1>1 DEF ReplaceAt
<1> HIDE DEF new
<1>9. n \in Nat /\ n # 0 /\ i \in 1 .. n /\ 1 \in 1 .. n /\ n \in 1 .. n
  BY <1>1
<1>10. NodeAt(list, n + 1) = NULL /\ \A k \in 1 .. n : NodeAt(list, k) = list[k]
  BY <1>1, ListFacts
<1> HIDE DEF n
<1>3. right = IF i = n THEN NULL ELSE list[i + 1]
  <2>1. i = n \/ i + 1 \in 1 .. n
    BY <1>9
  <2> QED
    BY <1>9, <1>10, <2>1
<1> HIDE DEF right
<1>4. Last(new) = IF i = n THEN x ELSE list[n]
  <2>1. Last(new) = new[n]
    BY <1>2 DEF Last
  <2> QED
    BY <1>2, <1>9, <2>1
<1>11. NodeAt(new, n + 1) = NULL /\ \A k \in 1 .. n : NodeAt(new, k) = new[k]
  <2>1. DOMAIN new = 1 .. n /\ n + 1 \notin 1 .. n
    BY <1>2, <1>9
  <2> QED
    BY <2>1 DEF NodeAt
<1>12. \A y \in 1 .. n : y # i /\ (i # 1 => y # i - 1) => N[list[y]] = next[list[y]]
  <2>1. i # 1 => i - 1 \in 1 .. n
    BY <1>9
  <2> QED
    BY <1>0, <1>1, <1>9, <2>1
<1>13. \A y \in 1 .. n : y # i /\ (i # n => y # i + 1) /\ (i # 1 /\ i = n => y # 1)
                           => P[list[y]] = prev[list[y]]
  <2> SUFFICES ASSUME NEW y \in 1 .. n, y # i, i # n => y # i + 1, i # 1 /\ i = n => y # 1
               PROVE  P[list[y]] = prev[list[y]]
    OBVIOUS
  <2>1. i # n => i + 1 \in 1 .. n
    BY <1>9
  <2>2. list[y] # list[i] /\ list[y] \in Nodes /\ list[y] # NULL /\ list[y] # x
    BY <1>1, <1>9
  <2>3. list[y] # right
    BY <1>1, <1>3, <2>1, <2>2
  <2>4. i # 1 /\ right = NULL => list[y] # list[1]
    <3>1. right = NULL => i = n
      BY <1>1, <1>3, <2>1
    <3> QED
      BY <1>1, <1>9, <3>1
  <2> QED
    BY <1>0, <2>2, <2>3, <2>4
<1>5. ASSUME NEW k \in 1 .. n PROVE N[new[k]] = NodeAt(new, k + 1)
  <2>1. CASE k = i
    <3>1. i = n \/ (i + 1 \in 1 .. n /\ i + 1 # i /\ i # n)
      BY <1>9
    <3>2. N[new[k]] = right
      BY <1>0, <1>2, <2>1
    <3> QED
      BY <1>2, <1>3, <1>11, <2>1, <3>1, <3>2
  <2>2. CASE k = i - 1
    <3>1. i # 1 /\ k # i /\ k + 1 = i
      BY <1>9, <2>2
    <3>2. N[new[k]] = x
      BY <1>0, <1>2, <2>2, <3>1
    <3> QED
      BY <1>2, <1>9, <1>11, <3>1, <3>2
  <2>3. CASE k # i /\ k # i - 1
    <3>1. k + 1 # i /\ (k = n \/ k + 1 \in 1 .. n)
      BY <1>9, <2>3
    <3>2. new[k] = list[k] /\ N[list[k]] = NodeAt(list, k + 1)
      BY <1>2, <1>8, <1>12, <2>3
    <3>3. NodeAt(new, k + 1) = NodeAt(list, k + 1)
      BY <1>2, <1>10, <1>11, <3>1
    <3> QED
      BY <3>2, <3>3
  <2> QED
    BY <2>1, <2>2, <2>3
<1>6. ASSUME NEW k \in 1 .. n
      PROVE  P[new[k]] = IF k = 1 THEN Last(new) ELSE new[k - 1]
  <2>1. CASE k = i
    <3>1. CASE i = 1
      <4>1. prev[list[i]] = list[n] /\ (list[n] = list[i] <=> n = 1)
        BY <1>1, <1>8, <1>9, <3>1
      <4> QED
        BY <1>0, <1>2, <1>4, <2>1, <3>1, <4>1
    <3>2. CASE i # 1
      <4>1. i - 1 \in 1 .. n /\ i - 1 # i
        BY <1>9, <3>2
      <4>2. prev[list[i]] = list[i - 1] /\ new[i - 1] = list[i - 1]
        BY <1>2, <1>8, <1>9, <3>2, <4>1
      <4> QED
        BY <1>0, <1>2, <2>1, <3>2, <4>2
    <3> QED
      BY <3>1, <3>2
  <2>2. CASE k = i + 1
    <3>1. i # n /\ k # 1 /\ k - 1 = i /\ k # i
      BY <1>9, <2>2
    <3>2. new[k] = right /\ right # NULL /\ new[k - 1] = x
      BY <1>1, <1>2, <1>3, <1>9, <2>2, <3>1
    <3> QED
      BY <1>0, <3>1, <3>2
  <2>3. CASE k = 1 /\ i = n /\ k # i
    <3>1. new[k] = list[1] /\ i # 1 /\ right = NULL
      BY <1>2, <1>3, <2>3
    <3> QED
      BY <1>0, <1>4, <2>3, <3>1
  <2>4. CASE k # i /\ k # i + 1 /\ ~(k = 1 /\ i = n)
    <3>1. k # 1 => k - 1 \in 1 .. n /\ k - 1 # i
      BY <1>9, <2>4
    <3>2. new[k] = list[k] /\ (k # 1 => new[k - 1] = list[k - 1])
      BY <1>2, <2>4, <3>1
    <3>3. P[list[k]] = prev[list[k]]
      BY <1>13, <2>4
    <3>4. k = 1 => Last(new) = list[n]
      BY <1>4, <2>4
    <3> QED
      BY <1>8, <3>2, <3>3, <3>4
  <2> QED
    BY <2>1, <2>2, <2>3, <2>4
<1>7. Distinct(new)
  BY <1>1, <1>2 DEF Distinct
<1> QED
  BY <1>2, <1>5, <1>6, <1>7 DEF Circular, new, n
-----------------------------------------------------------------------------
(* The lists of a heap, of which one changes.                              *)

LEMMA HasMember ==
  ASSUME NEW list, NEW y
  PROVE  Has(list, y) <=> y \in ToSet(list)
BY DEF Has, ToSet

LEMMA HasAppend ==
  ASSUME NEW list \in Seq(Nodes), NEW x \in Nodes, NEW y, Has(Append(list, x), y)
  PROVE  y = x \/ Has(list, y)
<1> DEFINE new == Append(list, x)
<1>1. /\ DOMAIN new = 1 .. Len(list) + 1 /\ DOMAIN list = 1 .. Len(list)
      /\ \A k \in 1 .. Len(list) : new[k] = list[k]
      /\ new[Len(list) + 1] = x
  OBVIOUS
<1> HIDE DEF new
<1>2. Has(new, y)
  BY DEF new
<1> QED
  BY <1>1, <1>2 DEF Has

LEMMA HasInsert ==
  ASSUME NEW list \in Seq(Nodes), NEW i \in 1 .. Len(list), NEW x \in Nodes, NEW y,
         Has(InsertAt(list, i, x), y)
  PROVE  y = x \/ Has(list, y)
<1> DEFINE new == InsertAt(list, i, x)
<1>1. /\ new \in Seq(Nodes) /\ Len(new) = Len(list) + 1
      /\ \A k \in 1 .. Len(list) + 1 :
           new[k] = IF k < i THEN list[k] ELSE IF k = i THEN x ELSE list[k - 1]
  BY ItemInserted, ZenonT(40)
<1>2. DOMAIN list = 1 .. Len(list)
  OBVIOUS
<1>3. Has(new, y)
  OBVIOUS
<1> HIDE DEF new
<1>4. PICK k \in 1 .. Len(list) + 1 : new[k] = y
  BY <1>1, <1>3 DEF Has
<1>5. CASE k < i
  <2>1. k \in 1 .. Len(list) /\ new[k] = list[k]
    BY <1>1, <1>4, <1>5
  <2> QED
    BY <1>2, <1>4, <2>1 DEF Has
<1>6. CASE k = i
  BY <1>1, <1>4, <1>6
<1>7. CASE k > i
  <2>1. k - 1 \in 1 .. Len(list) /\ new[k] = list[k - 1]
    BY <1>1, <1>4, <1>7
  <2> QED
    BY <1>2, <1>4, <2>1 DEF Has
<1>8. k < i \/ k = i \/ k > i
  BY <1>4
<1> QED
  BY <1>5, <1>6, <1>7, <1>8

LEMMA HasRemove ==
  ASSUME NEW list \in Seq(Nodes), Distinct(list), NEW i \in 1 .. Len(list), NEW y,
         Has(RemoveAt(list, i), y)
  PROVE  y # list[i] /\ Has(list, y)
<1> DEFINE new == RemoveAt(list, i)
<1>1. /\ new \in Seq(Nodes) /\ Len(new) = Len(list) - 1
      /\ \A k \in 1 .. Len(list) - 1 : new[k] = IF k < i THEN list[k] ELSE list[k + 1]
  BY RemoveElements
<1>2. DOMAIN list = 1 .. Len(list) /\ \A j, k \in 1 .. Len(list) : list[j] = list[k] => j = k
  BY DEF Distinct
<1>3. Has(new, y)
  OBVIOUS
<1> HIDE DEF new
<1>4. PICK k \in 1 .. Len(list) - 1 : new[k] = y
  BY <1>1, <1>3 DEF Has
<1>5. \E j \in 1 .. Len(list) : j # i /\ y = list[j]
  <2>1. CASE k < i
    BY <1>1, <1>4, <2>1
  <2>2. CASE ~(k < i)
    <3>1. k + 1 \in 1 .. Len(list) /\ k + 1 # i
      BY <1>4, <2>2
    <3> QED
      BY <1>1, <1>4, <2>2, <3>1
  <2> QED
    BY <2>1, <2>2
<1> QED
  BY <1>2, <1>5 DEF Has

LEMMA HasReplace ==
  ASSUME NEW list \in Seq(Nodes), Distinct(list), NEW i \in 1 .. Len(list),
         NEW x \in Nodes, NEW y, Has(ReplaceAt(list, i, x), y)
  PROVE  y = x \/ (y # list[i] /\ Has(list, y))
<1> DEFINE new == ReplaceAt(list, i, x)
<1>1. /\ DOMAIN new = 1 .. Len(list)
      /\ \A k \in 1 .. Len(list) : new[k] = IF k = i THEN x ELSE list[k]
  BY DEF ReplaceAt
<1>2. DOMAIN list = 1 .. Len(list) /\ \A j, k \in 1 .. Len(list) : list[j] = list[k] => j = k
  BY DEF Distinct
<1>3. Has(new, y)
  OBVIOUS
<1> HIDE DEF new
<1> QED
  BY <1>1, <1>2, <1>3 DEF Has

LEMMA ListParts ==
  ASSUME NEW h, IsHeap(h), NEW p \in Nodes, NEW list
  PROVE  ListIs(h, p, list) <=> /\ Circular(list, NextOf(h), PrevOf(h))
                                /\ ChildOf(h)[p] = NodeAt(list, 1)
<1>1. /\ ChildOf(h)[p] = h.node[p].child
      /\ list \in Seq(Nodes) =>
           \A i \in DOMAIN list : /\ NextOf(h)[list[i]] = h.node[list[i]].next
                                  /\ PrevOf(h)[list[i]] = h.node[list[i]].prev
  <2>1. list \in Seq(Nodes) => \A i \in DOMAIN list : list[i] \in Nodes
    OBVIOUS
  <2> QED
    BY <2>1 DEF NextOf, PrevOf, ChildOf
<1> QED
  BY <1>1 DEF ListIs, Circular

(* The item is in none of the lists.                                       *)
Outside(lists, item) == \A q \in DOMAIN lists : ~Has(lists[q], item)

LEMMA LooseParts ==
  ASSUME NEW h, NEW lists, NEW y \in Nodes
  PROVE  Loose(h, lists, y) <=> /\ Outside(lists, y)
                                /\ NextOf(h)[y] = NULL /\ PrevOf(h)[y] = NULL
BY HasMember DEF Loose, Outside, NextOf, PrevOf

(* No item is twice in the lists.                                          *)
Apart(lists) ==
  \A p, q \in DOMAIN lists : \A i \in DOMAIN lists[p], j \in DOMAIN lists[q] :
    lists[p][i] = lists[q][j] => p = q /\ i = j

LEMMA ApartParts ==
  ASSUME NEW lists
  PROVE  Apart(lists) <=> /\ \A p \in DOMAIN lists : Distinct(lists[p])
                          /\ \A p, q \in DOMAIN lists : \A y :
                               Has(lists[p], y) /\ Has(lists[q], y) => p = q
BY DEF Apart, Distinct, Has

LEMMA ListsParts ==
  ASSUME NEW h, IsHeap(h), NEW lists, DOMAIN lists \subseteq Nodes
  PROVE  ListsAre(h, lists) <=>
           /\ \A p \in DOMAIN lists : /\ Circular(lists[p], NextOf(h), PrevOf(h))
                                      /\ ChildOf(h)[p] = NodeAt(lists[p], 1)
           /\ Apart(lists)
BY ListParts DEF ListsAre, Apart

LEMMA SameTwice ==
  ASSUME NEW h, NEW g, NEW k, SameItems(h, g), SameItems(g, k)
  PROVE  SameItems(h, k)
BY DEF SameItems

(* What a call on the list of p has done to a heap that held the lists: p  *)
(* has the given list now, the other lists are as they were, what was in   *)
(* none is in none, x aside, and the items have what they had.             *)
ListBecomes(h, lists, g, p, list, x) ==
  /\ IsHeap(g) /\ SameItems(h, g)
  /\ ListsAre(g, [lists EXCEPT ![p] = list])
  /\ \A q \in Nodes \ {p} : ChildOf(g)[q] = ChildOf(h)[q]
  /\ \A y \in Nodes \ {x} : Loose(h, lists, y) => Loose(g, [lists EXCEPT ![p] = list], y)

LEMMA ListChanged ==
  ASSUME NEW h, IsHeap(h), NEW lists, DOMAIN lists \subseteq Nodes, ListsAre(h, lists),
         NEW p \in DOMAIN lists, NEW x \in Nodes, Outside(lists, x) \/ Has(lists[p], x),
         NEW g, IsHeap(g), SameItems(h, g), NEW list,
         Circular(list, NextOf(g), PrevOf(g)), Distinct(list),
         ChildOf(g)[p] = NodeAt(list, 1),
         \A y : Has(list, y) => y = x \/ Has(lists[p], y),
         \A q \in Nodes \ {p} : ChildOf(g)[q] = ChildOf(h)[q],
         \A y \in Nodes : y # x /\ ~Has(lists[p], y) =>
           NextOf(g)[y] = NextOf(h)[y] /\ PrevOf(g)[y] = PrevOf(h)[y]
  PROVE  ListBecomes(h, lists, g, p, list, x)
<1> DEFINE new == [lists EXCEPT ![p] = list]
<1>1. /\ DOMAIN new = DOMAIN lists /\ new[p] = list
      /\ \A q \in DOMAIN lists \ {p} : new[q] = lists[q]
  OBVIOUS
<1> HIDE DEF new
<1>2. /\ \A q \in DOMAIN lists : Circular(lists[q], NextOf(h), PrevOf(h))
      /\ \A q \in DOMAIN lists : ChildOf(h)[q] = NodeAt(lists[q], 1)
      /\ Apart(lists)
  BY ListsParts
<1>3. /\ \A q \in DOMAIN lists : Distinct(lists[q])
      /\ \A q, r \in DOMAIN lists : \A y : Has(lists[q], y) /\ Has(lists[r], y) => q = r
  BY <1>2, ApartParts
<1>4. ASSUME NEW q \in DOMAIN lists \ {p}, NEW y, Has(lists[q], y)
      PROVE  y # x /\ ~Has(lists[p], y) /\ ~Has(list, y)
  BY <1>3, <1>4 DEF Outside
<1>5. ASSUME NEW q \in DOMAIN lists \ {p}
      PROVE  Circular(new[q], NextOf(g), PrevOf(g)) /\ ChildOf(g)[q] = NodeAt(new[q], 1)
  <2>1. Circular(lists[q], NextOf(g), PrevOf(g))
    <3>1. Circular(lists[q], NextOf(h), PrevOf(h))
      BY <1>2
    <3>2. \A y \in Nodes : Has(lists[q], y) =>
            NextOf(g)[y] = NextOf(h)[y] /\ PrevOf(g)[y] = PrevOf(h)[y]
      BY <1>4
    <3> QED
      BY <3>1, <3>2, CircularElsewhere
  <2>2. ChildOf(g)[q] = NodeAt(lists[q], 1)
    BY <1>2
  <2> QED
    BY <1>1, <2>1, <2>2
<1>6. Apart(new)
  <2>1. ASSUME NEW q \in DOMAIN new PROVE Distinct(new[q])
    BY <1>1, <1>3
  <2>2. ASSUME NEW q \in DOMAIN new, NEW r \in DOMAIN new, NEW y,
               Has(new[q], y), Has(new[r], y)
        PROVE  q = r
    <3>1. CASE q = p /\ r # p
      BY <1>1, <1>4, <2>2, <3>1
    <3>2. CASE q # p /\ r = p
      BY <1>1, <1>4, <2>2, <3>2
    <3>3. CASE q # p /\ r # p
      BY <1>1, <1>3, <2>2, <3>3
    <3> QED
      BY <3>1, <3>2, <3>3
  <2> QED
    BY <2>1, <2>2, ApartParts
<1>7. ListsAre(g, new)
  <2>1. ASSUME NEW q \in DOMAIN new
        PROVE  Circular(new[q], NextOf(g), PrevOf(g)) /\ ChildOf(g)[q] = NodeAt(new[q], 1)
    BY <1>1, <1>5
  <2>2. DOMAIN new \subseteq Nodes
    BY <1>1
  <2> QED
    BY <1>6, <2>1, <2>2, ListsParts
<1>8. ASSUME NEW y \in Nodes \ {x}, Loose(h, lists, y)
      PROVE  Loose(g, new, y)
  <2>1. Outside(lists, y) /\ NextOf(h)[y] = NULL /\ PrevOf(h)[y] = NULL
    BY <1>8, LooseParts
  <2>2. ~Has(lists[p], y) /\ ~Has(list, y)
    BY <2>1 DEF Outside
  <2>3. Outside(new, y)
    BY <1>1, <2>1, <2>2 DEF Outside
  <2>4. NextOf(g)[y] = NULL /\ PrevOf(g)[y] = NULL
    BY <2>1, <2>2
  <2> QED
    BY <2>3, <2>4, LooseParts
<1> QED
  BY <1>7, <1>8 DEF ListBecomes, new
-----------------------------------------------------------------------------
(* The calls.                                                              *)

LEMMA StartedList ==
  ASSUME NEW h, IsHeap(h), NEW lists, DOMAIN lists \subseteq Nodes, ListsAre(h, lists),
         NEW p \in DOMAIN lists, lists[p] = <<>>, NEW x \in Nodes, Outside(lists, x)
  PROVE  ListBecomes(h, lists, StartList(h, p, x), p, Append(lists[p], x), x)
<1> DEFINE h1 == SetChild(h, p, x)
           h2 == SetPrev(h1, x, x)
           g  == SetNext(h2, x, NULL)
<1>1. IsHeap(h1) /\ SameItems(h, h1) /\ ChildOf(h1) = [ChildOf(h) EXCEPT ![p] = x]
      /\ NextOf(h1) = NextOf(h) /\ PrevOf(h1) = PrevOf(h)
  BY ChildWritten
<1> HIDE DEF h1
<1>2. IsHeap(h2) /\ SameItems(h1, h2) /\ ChildOf(h2) = ChildOf(h1)
      /\ NextOf(h2) = NextOf(h1) /\ PrevOf(h2) = [PrevOf(h1) EXCEPT ![x] = x]
  <2>1. IsHeap(h1) /\ x \in Nodes \cup {NULL}
    BY <1>1
  <2> QED
    BY <2>1, PrevWritten
<1> HIDE DEF h2
<1>3. IsHeap(g) /\ SameItems(h2, g) /\ ChildOf(g) = ChildOf(h2)
      /\ NextOf(g) = [NextOf(h2) EXCEPT ![x] = NULL] /\ PrevOf(g) = PrevOf(h2)
  <2>1. IsHeap(h2) /\ NULL \in Nodes \cup {NULL}
    BY <1>2
  <2> QED
    BY <2>1, NextWritten
<1>4. g = StartList(h, p, x)
  BY DEF StartList, h1, h2
<1> HIDE DEF g
<1>5. SameItems(h, g)
  BY <1>1, <1>2, <1>3, SameTwice
<1>6. NextOf(h) \in Pointers /\ PrevOf(h) \in Pointers /\ ChildOf(h) \in Pointers
  BY Views
<1>7. /\ NextOf(g)[x] = NULL /\ PrevOf(g)[x] = x /\ ChildOf(g)[p] = x
      /\ \A y \in Nodes \ {x} : NextOf(g)[y] = NextOf(h)[y] /\ PrevOf(g)[y] = PrevOf(h)[y]
      /\ \A q \in Nodes \ {p} : ChildOf(g)[q] = ChildOf(h)[q]
  BY <1>1, <1>2, <1>3, <1>6 DEF Pointers
<1>8. Append(lists[p], x) = <<x>> /\ NodeAt(<<x>>, 1) = x /\ \A y : Has(<<x>>, y) => y = x
  BY DEF NodeAt, Has
<1>9. Circular(<<x>>, NextOf(g), PrevOf(g)) /\ Distinct(<<x>>)
  BY <1>7, StartCircle
<1> DEFINE list == <<x>>
<1> HIDE DEF list
<1>10. ListBecomes(h, lists, g, p, list, x)
  <2>1. /\ Circular(list, NextOf(g), PrevOf(g)) /\ Distinct(list)
        /\ ChildOf(g)[p] = NodeAt(list, 1) /\ \A y : Has(list, y) => y = x
    BY <1>7, <1>8, <1>9 DEF list
  <2> QED
    BY <1>3, <1>5, <1>7, <2>1, ListChanged
<1> QED
  BY <1>4, <1>8, <1>10 DEF list

LEMMA AppendedList ==
  ASSUME NEW h, IsHeap(h), NEW lists, DOMAIN lists \subseteq Nodes, ListsAre(h, lists),
         NEW p \in DOMAIN lists, lists[p] # <<>>, NEW x \in Nodes, Outside(lists, x),
         h.node[x].next = NULL
  PROVE  /\ ListBecomes(h, lists, AppendToList(h, p, x), p, Append(lists[p], x), x)
         /\ h.node[p].child # NULL /\ h.node[h.node[p].child].prev # NULL
<1> DEFINE list == lists[p]
           first == list[1]
           last == Last(list)
           h1 == SetNext(h, last, x)
           h2 == SetPrev(h1, x, last)
           g  == SetPrev(h2, first, x)
<1>1. /\ Circular(list, NextOf(h), PrevOf(h)) /\ ChildOf(h)[p] = NodeAt(list, 1)
      /\ Distinct(list) /\ ~Has(list, x)
  BY ListsParts, ApartParts DEF Outside
<1>2. /\ list \in Seq(Nodes) /\ 1 \in DOMAIN list /\ first \in Nodes /\ last \in Nodes
      /\ NodeAt(list, 1) = first /\ Has(list, first) /\ Has(list, last)
      /\ PrevOf(h)[first] = last
  <2>1. list \in Seq(Nodes) /\ list # <<>>
    BY <1>1 DEF Circular
  <2>2. /\ Len(list) \in Nat /\ DOMAIN list = 1 .. Len(list) /\ Len(list) # 0
        /\ \A i \in 1 .. Len(list) : list[i] \in Nodes
        /\ last = list[Len(list)]
    BY <2>1 DEF Last
  <2>3. 1 \in DOMAIN list /\ Len(list) \in DOMAIN list
    BY <2>2
  <2> QED
    BY <1>1, <2>1, <2>2, <2>3 DEF Circular, NodeAt, Has
<1> HIDE DEF first, last
<1>3. h.node[p].child = first /\ h.node[first].prev = last /\ first # NULL /\ last # NULL
  BY <1>1, <1>2, Views, HeapAssumption
<1>4. IsHeap(h1) /\ SameItems(h, h1) /\ ChildOf(h1) = ChildOf(h)
      /\ NextOf(h1) = [NextOf(h) EXCEPT ![last] = x] /\ PrevOf(h1) = PrevOf(h)
  BY <1>2, NextWritten
<1> HIDE DEF h1
<1>5. IsHeap(h2) /\ SameItems(h1, h2) /\ ChildOf(h2) = ChildOf(h1)
      /\ NextOf(h2) = NextOf(h1) /\ PrevOf(h2) = [PrevOf(h1) EXCEPT ![x] = last]
  <2>1. IsHeap(h1) /\ last \in Nodes \cup {NULL}
    BY <1>2, <1>4
  <2> QED
    BY <2>1, PrevWritten
<1> HIDE DEF h2
<1>6. IsHeap(g) /\ SameItems(h2, g) /\ ChildOf(g) = ChildOf(h2)
      /\ NextOf(g) = NextOf(h2) /\ PrevOf(g) = [PrevOf(h2) EXCEPT ![first] = x]
  <2>1. IsHeap(h2) /\ first \in Nodes /\ x \in Nodes \cup {NULL}
    BY <1>2, <1>5
  <2> QED
    BY <2>1, PrevWritten
<1>7. g = AppendToList(h, p, x)
  BY <1>3 DEF AppendToList, SuffixObject, h1, h2
<1> HIDE DEF g
<1>8. SameItems(h, g)
  BY <1>4, <1>5, <1>6, SameTwice
<1>9. /\ NextOf(h) \in Pointers /\ PrevOf(h) \in Pointers /\ ChildOf(h) \in Pointers
      /\ NextOf(h)[x] = NULL
  BY Views
<1>10. first # x /\ last # x
  BY <1>1, <1>2
<1>11. /\ NextOf(g)[last] = x /\ PrevOf(g)[x] = last /\ PrevOf(g)[first] = x
       /\ \A y \in Nodes \ {last} : NextOf(g)[y] = NextOf(h)[y]
       /\ \A y \in Nodes \ {x, first} : PrevOf(g)[y] = PrevOf(h)[y]
       /\ ChildOf(g) = ChildOf(h)
  BY <1>2, <1>4, <1>5, <1>6, <1>9, <1>10 DEF Pointers
<1> DEFINE new == Append(list, x)
<1>12. Circular(new, NextOf(g), PrevOf(g)) /\ Distinct(new)
  <2>1. list # <<>>
    OBVIOUS
  <2> HIDE DEF list
  <2> QED
    BY <1>1, <1>9, <1>11, <2>1, AppendCircle DEF first, last
<1>13. NodeAt(new, 1) = first
  <2>1. list \in Seq(Nodes) /\ 1 \in DOMAIN list
    BY <1>2
  <2> HIDE DEF list
  <2>2. 1 \in DOMAIN new /\ new[1] = list[1]
    BY <2>1
  <2> QED
    BY <2>2 DEF NodeAt, first
<1>14. \A y : Has(new, y) => y = x \/ Has(list, y)
  BY <1>2, HasAppend
<1> HIDE DEF new
<1>15. ListBecomes(h, lists, g, p, new, x)
  <2>1. ChildOf(g)[p] = NodeAt(new, 1)
    BY <1>1, <1>2, <1>11, <1>13
  <2>2. \A y \in Nodes : y # x /\ ~Has(lists[p], y) =>
          NextOf(g)[y] = NextOf(h)[y] /\ PrevOf(g)[y] = PrevOf(h)[y]
    BY <1>2, <1>11
  <2>3. \A q \in Nodes \ {p} : ChildOf(g)[q] = ChildOf(h)[q]
    BY <1>11
  <2>4. \A y : Has(new, y) => y = x \/ Has(lists[p], y)
    BY <1>14
  <2> HIDE DEF list
  <2> QED
    BY <1>6, <1>8, <1>12, <2>1, <2>2, <2>3, <2>4, ListChanged
<1> QED
  BY <1>3, <1>7, <1>15 DEF new

(* cJSON_AddItemToArray puts a loose item behind the children of p: that   *)
(* is the one list that changes, and the call says that it succeeded.      *)
THEOREM AddKeepsLists ==
  ASSUME NEW h, IsHeap(h), NEW lists, DOMAIN lists \subseteq Nodes, ListsAre(h, lists),
         NEW p \in DOMAIN lists, NEW x \in Nodes \ {p}, Loose(h, lists, x)
  PROVE  /\ AddItemToArray(h, p, x).ret = TRUE
         /\ ListBecomes(h, lists, AddItemToArray(h, p, x).h, p, Append(lists[p], x), x)
<1>1. Outside(lists, x) /\ h.node[x].next = NULL
  BY LooseParts DEF Loose
<1>2. x # NULL /\ p # NULL /\ p # x
  BY HeapAssumption
<1>3. CASE lists[p] = <<>>
  <2>1. h.node[p].child = NULL
    BY <1>3 DEF ListsAre, ListIs, NodeAt
  <2>2. AddItemToArray(h, p, x) = Result(StartList(h, p, x), TRUE)
    BY <1>2, <2>1 DEF AddItemToArray
  <2>3. ListBecomes(h, lists, StartList(h, p, x), p, Append(lists[p], x), x)
    BY <1>1, <1>3, StartedList
  <2> QED
    BY <2>2, <2>3 DEF Result
<1>4. CASE lists[p] # <<>>
  <2>1. /\ ListBecomes(h, lists, AppendToList(h, p, x), p, Append(lists[p], x), x)
        /\ h.node[p].child # NULL /\ h.node[h.node[p].child].prev # NULL
    BY <1>1, <1>4, AppendedList
  <2>2. AddItemToArray(h, p, x) = Result(AppendToList(h, p, x), TRUE)
    BY <1>2, <2>1 DEF AddItemToArray
  <2> QED
    BY <2>1, <2>2 DEF Result
<1> QED
  BY <1>3, <1>4

(* What an item of a list knows of its neighbours.                         *)
Neighbours(h, p, list, i) ==
  LET item == list[i]
      left == h.node[item].prev
      right == h.node[item].next
      first == list[1]
  IN /\ list \in Seq(Nodes) /\ i \in 1 .. Len(list) /\ i \in Int /\ Distinct(list)
     /\ item \in Nodes /\ left \in Nodes /\ first \in Nodes /\ right \in Nodes \cup {NULL}
     /\ right = NodeAt(list, i + 1) /\ left = PrevOf(h)[item]
     /\ right # item /\ (i # 1 => left = list[i - 1] /\ left # item)
     /\ (first = item <=> i = 1)
     /\ h.node[p].child = first /\ ChildOf(h)[p] = first /\ NodeAt(list, 1) = first
     /\ Has(list, item) /\ Has(list, left) /\ Has(list, first)
     /\ (right # NULL => Has(list, right))
     /\ Circular(list, NextOf(h), PrevOf(h))

LEMMA KnowsNeighbours ==
  ASSUME NEW h, IsHeap(h), NEW lists, DOMAIN lists \subseteq Nodes, ListsAre(h, lists),
         NEW p \in DOMAIN lists, NEW i \in DOMAIN lists[p]
  PROVE  Neighbours(h, p, lists[p], i)
<1> DEFINE list == lists[p]
           n == Len(list)
           item == list[i]
           left == h.node[item].prev
           right == h.node[item].next
           first == list[1]
<1>1. /\ Circular(list, NextOf(h), PrevOf(h)) /\ ChildOf(h)[p] = NodeAt(list, 1)
      /\ Distinct(list)
  BY ListsParts, ApartParts
<1> HIDE DEF list
<1>2. /\ list \in Seq(Nodes) /\ n \in Nat /\ DOMAIN list = 1 .. n /\ i \in 1 .. n
      /\ \A k \in 1 .. n : list[k] \in Nodes
      /\ \A k, l \in 1 .. n : list[k] = list[l] => k = l
  BY <1>1 DEF Circular, Distinct, list
<1>3. /\ 1 \in 1 .. n /\ n \in 1 .. n /\ (i # 1 => i - 1 \in 1 .. n /\ i - 1 # i)
      /\ i + 1 # i /\ i \in Int
  BY <1>2
<1>4. item \in Nodes /\ first \in Nodes /\ NodeAt(list, 1) = first
  BY <1>2, <1>3 DEF NodeAt
<1>5. right = NodeAt(list, i + 1) /\ left = PrevOf(h)[item]
      /\ left = IF i = 1 THEN list[n] ELSE list[i - 1]
  <2>1. right = NextOf(h)[item] /\ left = PrevOf(h)[item]
    BY <1>4, Views
  <2>2. Last(list) = list[n]
    BY DEF Last
  <2> QED
    BY <1>1, <1>2, <2>1, <2>2 DEF Circular
<1>6. right \in Nodes \cup {NULL} /\ right # item /\ (right # NULL => Has(list, right))
  <2>1. CASE i + 1 \in 1 .. n
    BY <1>2, <1>3, <1>5, <2>1 DEF NodeAt, Has
  <2>2. CASE i + 1 \notin 1 .. n
    BY <1>2, <1>4, <1>5, <2>2, HeapAssumption DEF NodeAt
  <2> QED
    BY <2>1, <2>2
<1>7. left \in Nodes /\ Has(list, left) /\ Has(list, item) /\ Has(list, first)
  BY <1>2, <1>3, <1>5 DEF Has
<1>8. (i # 1 => left = list[i - 1] /\ left # item) /\ (first = item <=> i = 1)
  BY <1>2, <1>3, <1>5
<1>9. ChildOf(h)[p] = first /\ h.node[p].child = first
  <2>1. ChildOf(h)[p] = h.node[p].child
    BY DEF ChildOf
  <2> QED
    BY <1>1, <1>4, <2>1
<1> HIDE DEF item, left, right, first, n
<1>10. /\ list \in Seq(Nodes) /\ i \in 1 .. Len(list) /\ i \in Int /\ Distinct(list)
       /\ item \in Nodes /\ left \in Nodes /\ first \in Nodes /\ right \in Nodes \cup {NULL}
       /\ right = NodeAt(list, i + 1) /\ left = PrevOf(h)[item]
       /\ right # item /\ (i # 1 => left = list[i - 1] /\ left # item)
       /\ (first = item <=> i = 1)
       /\ h.node[p].child = first /\ ChildOf(h)[p] = first /\ NodeAt(list, 1) = first
       /\ Has(list, item) /\ Has(list, left) /\ Has(list, first)
       /\ (right # NULL => Has(list, right))
       /\ Circular(list, NextOf(h), PrevOf(h))
  BY <1>1, <1>2, <1>3, <1>4, <1>5, <1>6, <1>7, <1>8, <1>9 DEF n
<1> QED
  BY Zenon, <1>10 DEF Neighbours, list, item, left, right, first

LEMMA FirstRemoved ==
  ASSUME NEW list \in Seq(Nodes), NEW i \in 1 .. Len(list)
  PROVE  NodeAt(RemoveAt(list, i), 1) = IF i = 1 THEN NodeAt(list, 2) ELSE NodeAt(list, 1)
<1> DEFINE new == RemoveAt(list, i)
<1>1. /\ new \in Seq(Nodes) /\ Len(new) = Len(list) - 1
      /\ \A k \in 1 .. Len(list) - 1 : new[k] = IF k < i THEN list[k] ELSE list[k + 1]
  BY RemoveElements
<1>2. DOMAIN list = 1 .. Len(list) /\ Len(list) \in Nat /\ Len(list) # 0
  OBVIOUS
<1> HIDE DEF new
<1>3. DOMAIN new = 1 .. Len(list) - 1
  BY <1>1
<1>4. CASE Len(list) = 1
  BY <1>2, <1>3, <1>4 DEF NodeAt, new
<1>5. CASE Len(list) # 1
  <2>1. 1 \in 1 .. Len(list) - 1 /\ 1 \in 1 .. Len(list) /\ 2 \in 1 .. Len(list)
    BY <1>2, <1>5
  <2>2. new[1] = IF i = 1 THEN list[2] ELSE list[1]
    BY <1>1, <2>1
  <2> QED
    BY <1>2, <1>3, <2>1, <2>2 DEF NodeAt, new
<1> QED
  BY <1>4, <1>5

(* cJSON_DetachItemViaPointer takes an item out of the children of p and   *)
(* leaves it loose, wherever in the list it was.                           *)
THEOREM DetachKeepsLists ==
  ASSUME NEW h, IsHeap(h), NEW lists, DOMAIN lists \subseteq Nodes, ListsAre(h, lists),
         NEW p \in DOMAIN lists, NEW i \in DOMAIN lists[p]
  PROVE  LET item == lists[p][i]
             g == DetachItemViaPointer(h, p, item)
             list == RemoveAt(lists[p], i)
         IN /\ ListBecomes(h, lists, g, p, list, item)
            /\ Loose(g, [lists EXCEPT ![p] = list], item)
<1> DEFINE list == lists[p]
           item == list[i]
           left == h.node[item].prev
           right == h.node[item].next
           first == list[1]
           b == IF i = 1 THEN h ELSE SetNext(h, left, right)
           a == IF right = NULL THEN b ELSE SetPrev(b, right, left)
           e == IF i = 1 THEN SetChild(a, p, right)
                ELSE IF right = NULL THEN SetPrev(a, first, left) ELSE a
           f == SetPrev(e, item, NULL)
           g == SetNext(f, item, NULL)
           new == RemoveAt(list, i)
<1>1. /\ list \in Seq(Nodes) /\ i \in 1 .. Len(list) /\ i \in Int /\ Distinct(list)
      /\ item \in Nodes /\ left \in Nodes /\ first \in Nodes /\ right \in Nodes \cup {NULL}
      /\ right = NodeAt(list, i + 1) /\ left = PrevOf(h)[item]
      /\ right # item /\ (i # 1 => left = list[i - 1] /\ left # item)
      /\ (first = item <=> i = 1)
      /\ h.node[p].child = first /\ ChildOf(h)[p] = first /\ NodeAt(list, 1) = first
      /\ Has(list, item) /\ Has(list, left) /\ Has(list, first)
      /\ (right # NULL => Has(list, right))
      /\ Circular(list, NextOf(h), PrevOf(h))
  BY Zenon, KnowsNeighbours DEF Neighbours
<1> HIDE DEF list, item, left, right, first
<1>2. NextOf(h) \in Pointers /\ PrevOf(h) \in Pointers /\ ChildOf(h) \in Pointers
  BY Views
<1>3. /\ IsHeap(b) /\ SameItems(h, b) /\ PrevOf(b) = PrevOf(h) /\ ChildOf(b) = ChildOf(h)
      /\ NextOf(b) = IF i = 1 THEN NextOf(h) ELSE [NextOf(h) EXCEPT ![left] = right]
  <2>1. CASE i = 1
    BY <2>1 DEF SameItems
  <2>2. CASE i # 1
    <3>1. b = SetNext(h, left, right) /\ left \in Nodes /\ right \in Nodes \cup {NULL}
      BY <1>1, <2>2
    <3> HIDE DEF b
    <3>2. /\ IsHeap(SetNext(h, left, right)) /\ SameItems(h, SetNext(h, left, right))
          /\ NextOf(SetNext(h, left, right)) = [NextOf(h) EXCEPT ![left] = right]
          /\ PrevOf(SetNext(h, left, right)) = PrevOf(h)
          /\ ChildOf(SetNext(h, left, right)) = ChildOf(h)
      BY <3>1, NextWritten
    <3> QED
      BY <2>2, <3>1, <3>2
  <2> QED
    BY <2>1, <2>2
<1> HIDE DEF b
<1>4. /\ IsHeap(a) /\ SameItems(b, a) /\ NextOf(a) = NextOf(b) /\ ChildOf(a) = ChildOf(h)
      /\ PrevOf(a) = IF right = NULL THEN PrevOf(h) ELSE [PrevOf(h) EXCEPT ![right] = left]
  <2>1. CASE right = NULL
    BY <1>3, <2>1 DEF SameItems
  <2>2. CASE right # NULL
    <3>1. a = SetPrev(b, right, left) /\ right \in Nodes /\ left \in Nodes \cup {NULL}
      BY <1>1, <2>2
    <3> HIDE DEF a
    <3>2. /\ IsHeap(a) /\ SameItems(b, a) /\ NextOf(a) = NextOf(b) /\ ChildOf(a) = ChildOf(b)
          /\ PrevOf(a) = [PrevOf(b) EXCEPT ![right] = left]
      <4>1. IsHeap(b)
        BY <1>3
      <4> QED
        BY <3>1, <4>1, PrevWritten
    <3> QED
      BY <1>3, <2>2, <3>2
  <2> QED
    BY <2>1, <2>2
<1> HIDE DEF a
<1>5. /\ IsHeap(e) /\ SameItems(a, e) /\ NextOf(e) = NextOf(b)
      /\ ChildOf(e) = IF i = 1 THEN [ChildOf(h) EXCEPT ![p] = right] ELSE ChildOf(h)
      /\ PrevOf(e) = IF i # 1 /\ right = NULL THEN [PrevOf(h) EXCEPT ![first] = left]
                     ELSE PrevOf(a)
  <2>1. CASE i = 1
    <3>1. e = SetChild(a, p, right) /\ right \in Nodes \cup {NULL} /\ p \in Nodes /\ IsHeap(a)
      BY <1>1, <1>4, <2>1
    <3> HIDE DEF e
    <3>2. /\ IsHeap(e) /\ SameItems(a, e) /\ NextOf(e) = NextOf(a) /\ PrevOf(e) = PrevOf(a)
          /\ ChildOf(e) = [ChildOf(a) EXCEPT ![p] = right]
      BY <3>1, ChildWritten
    <3> QED
      BY <1>4, <2>1, <3>2
  <2>2. CASE i # 1 /\ right = NULL
    <3>1. e = SetPrev(a, first, left) /\ left \in Nodes \cup {NULL} /\ first \in Nodes /\ IsHeap(a)
      BY <1>1, <1>4, <2>2
    <3> HIDE DEF e
    <3>2. /\ IsHeap(e) /\ SameItems(a, e) /\ NextOf(e) = NextOf(a) /\ ChildOf(e) = ChildOf(a)
          /\ PrevOf(e) = [PrevOf(a) EXCEPT ![first] = left]
      BY <3>1, PrevWritten
    <3> QED
      BY <1>4, <2>2, <3>2
  <2>3. CASE i # 1 /\ right # NULL
    BY <1>4, <2>3 DEF SameItems
  <2> QED
    BY <2>1, <2>2, <2>3
<1> HIDE DEF e
<1>6. /\ IsHeap(f) /\ SameItems(e, f) /\ NextOf(f) = NextOf(b) /\ ChildOf(f) = ChildOf(e)
      /\ PrevOf(f) = [PrevOf(e) EXCEPT ![item] = NULL]
  <2>1. IsHeap(e) /\ item \in Nodes /\ NULL \in Nodes \cup {NULL}
    BY <1>1, <1>5
  <2>2. /\ IsHeap(f) /\ SameItems(e, f) /\ NextOf(f) = NextOf(e) /\ ChildOf(f) = ChildOf(e)
        /\ PrevOf(f) = [PrevOf(e) EXCEPT ![item] = NULL]
    BY <2>1, PrevWritten
  <2> HIDE DEF f
  <2> QED
    BY <1>5, <2>2
<1> HIDE DEF f
<1>7. /\ IsHeap(g) /\ SameItems(f, g) /\ PrevOf(g) = PrevOf(f) /\ ChildOf(g) = ChildOf(e)
      /\ NextOf(g) = [NextOf(b) EXCEPT ![item] = NULL]
  <2>1. IsHeap(f) /\ item \in Nodes /\ NULL \in Nodes \cup {NULL}
    BY <1>1, <1>6
  <2>2. /\ IsHeap(g) /\ SameItems(f, g) /\ PrevOf(g) = PrevOf(f) /\ ChildOf(g) = ChildOf(f)
        /\ NextOf(g) = [NextOf(f) EXCEPT ![item] = NULL]
    BY <2>1, NextWritten
  <2> HIDE DEF g
  <2> QED
    BY <1>6, <2>2
<1>8. g = DetachItemViaPointer(h, p, item)
  <2>1. a.node[p].child = first
    BY <1>1, <1>4, Views
  <2>2. h.node[p].child = item <=> i = 1
    BY <1>1
  <2> QED
    BY <2>1, <2>2 DEF DetachItemViaPointer, f, e, a, b, left, right
<1> HIDE DEF g
<1>9. SameItems(h, g)
  BY <1>3, <1>4, <1>5, <1>6, <1>7, SameTwice
<1>10. /\ NextOf(g)[item] = NULL
       /\ i # 1 => NextOf(g)[list[i - 1]] = right
       /\ \A y \in Nodes : y # item /\ (i # 1 => y # list[i - 1]) => NextOf(g)[y] = NextOf(h)[y]
  BY <1>1, <1>2, <1>3, <1>7 DEF Pointers
<1>11. /\ PrevOf(g)[item] = NULL
       /\ right # NULL => PrevOf(g)[right] = left
       /\ i # 1 /\ right = NULL => PrevOf(g)[first] = left
       /\ \A y \in Nodes :
            y # item /\ y # right /\ (i # 1 /\ right = NULL => y # first)
              => PrevOf(g)[y] = PrevOf(h)[y]
  <2>1. PrevOf(g) = [PrevOf(e) EXCEPT ![item] = NULL] /\ item \in Nodes /\ right # item
    BY <1>1, <1>6, <1>7
  <2>2. CASE right = NULL
    <3>1. PrevOf(e) = IF i # 1 THEN [PrevOf(h) EXCEPT ![first] = left] ELSE PrevOf(h)
      BY <1>4, <1>5, <2>2
    <3>2. first \in Nodes /\ (i # 1 => first # item)
      BY <1>1
    <3>3. \A y \in Nodes : PrevOf(e)[y] = IF i # 1 /\ y = first THEN left ELSE PrevOf(h)[y]
      BY <1>2, <3>1 DEF Pointers
    <3>4. \A y \in Nodes : PrevOf(g)[y] = IF y = item THEN NULL ELSE PrevOf(e)[y]
      BY <1>2, <2>1, <3>1 DEF Pointers
    <3> QED
      BY <2>1, <2>2, <3>2, <3>3, <3>4
  <2>3. CASE right # NULL
    <3>1. PrevOf(e) = [PrevOf(h) EXCEPT ![right] = left] /\ right \in Nodes
      BY <1>1, <1>4, <1>5, <2>3
    <3>2. \A y \in Nodes : PrevOf(e)[y] = IF y = right THEN left ELSE PrevOf(h)[y]
      BY <1>2, <3>1 DEF Pointers
    <3>3. \A y \in Nodes : PrevOf(g)[y] = IF y = item THEN NULL ELSE PrevOf(e)[y]
      BY <1>2, <2>1, <3>1 DEF Pointers
    <3> QED
      BY <2>1, <2>3, <3>1, <3>2, <3>3
  <2> QED
    BY <2>2, <2>3
<1>12. Circular(new, NextOf(g), PrevOf(g)) /\ Distinct(new)
  <2>1. Unlinked(list, i, NextOf(h), PrevOf(h), NextOf(g), PrevOf(g))
    BY <1>1, <1>10, <1>11 DEF Unlinked, first, item
  <2> QED
    BY <1>1, <2>1, RemoveCircle
<1>13. ChildOf(g)[p] = NodeAt(new, 1)
  BY <1>1, <1>2, <1>5, <1>7, FirstRemoved DEF Pointers
<1>14. \A y : Has(new, y) => y # item /\ Has(list, y)
  BY <1>1, HasRemove DEF item
<1> HIDE DEF new
<1>15. ListBecomes(h, lists, g, p, new, item)
  <2>1. \A q \in Nodes \ {p} : ChildOf(g)[q] = ChildOf(h)[q]
    BY <1>2, <1>5, <1>7 DEF Pointers
  <2>2. \A y \in Nodes : y # item /\ ~Has(list, y) =>
          NextOf(g)[y] = NextOf(h)[y] /\ PrevOf(g)[y] = PrevOf(h)[y]
    <3>1. ASSUME NEW y \in Nodes, y # item, ~Has(list, y)
          PROVE  NextOf(g)[y] = NextOf(h)[y] /\ PrevOf(g)[y] = PrevOf(h)[y]
      <4>1. y # left /\ y # first /\ y # right
        <5>1. Has(list, left) /\ Has(list, first) /\ (right # NULL => Has(list, right))
          BY <1>1
        <5> QED
          BY <3>1, <5>1, HeapAssumption
      <4> QED
        BY <1>1, <1>10, <1>11, <3>1, <4>1
    <3> QED
      BY <3>1
  <2>3. /\ Has(list, item) /\ item \in Nodes /\ IsHeap(g)
        /\ \A y : Has(new, y) => y = item \/ Has(list, y)
    BY <1>1, <1>7, <1>14
  <2> QED
    BY <1>9, <1>12, <1>13, <2>1, <2>2, <2>3, ListChanged DEF list
<1>16. Loose(g, [lists EXCEPT ![p] = new], item)
  <2>1. \A q \in DOMAIN lists : q # p => ~Has(lists[q], item)
    BY <1>1, ListsParts, ApartParts DEF list
  <2>2. Outside([lists EXCEPT ![p] = new], item)
    BY <1>14, <2>1 DEF Outside
  <2> QED
    BY <1>1, <1>10, <1>11, <2>2, LooseParts
<1> QED
  BY <1>8, <1>15, <1>16 DEF new, item, list

(* The pointers cJSON_ReplaceItemViaPointer moves put x in the place of an *)
(* item, which it leaves loose.                                            *)
THEOREM ReplaceKeepsLists ==
  ASSUME NEW h, IsHeap(h), NEW lists, DOMAIN lists \subseteq Nodes, ListsAre(h, lists),
         NEW p \in DOMAIN lists, NEW i \in DOMAIN lists[p],
         NEW x \in Nodes, Loose(h, lists, x)
  PROVE  LET item == lists[p][i]
             g == ReplaceLinks(h, p, item, x)
             list == ReplaceAt(lists[p], i, x)
         IN /\ ListBecomes(h, lists, g, p, list, x)
            /\ Loose(g, [lists EXCEPT ![p] = list], item)
<1> DEFINE list == lists[p]
           item == list[i]
           left == h.node[item].prev
           right == h.node[item].next
           first == list[1]
           xleft == IF i = 1 /\ left = item THEN x ELSE left
           a == SetNext(h, x, right)
           b == SetPrev(a, x, xleft)
           c == IF right = NULL THEN b ELSE SetPrev(b, right, x)
           d == IF i = 1 THEN SetChild(c, p, x) ELSE SetNext(c, left, x)
           e == IF i # 1 /\ right = NULL THEN SetPrev(d, first, x) ELSE d
           f == SetNext(e, item, NULL)
           g == SetPrev(f, item, NULL)
           new == ReplaceAt(list, i, x)
<1>1. /\ list \in Seq(Nodes) /\ i \in 1 .. Len(list) /\ i \in Int /\ Distinct(list)
      /\ item \in Nodes /\ left \in Nodes /\ first \in Nodes /\ right \in Nodes \cup {NULL}
      /\ right = NodeAt(list, i + 1) /\ left = PrevOf(h)[item]
      /\ right # item /\ (i # 1 => left = list[i - 1] /\ left # item)
      /\ (first = item <=> i = 1)
      /\ h.node[p].child = first /\ ChildOf(h)[p] = first /\ NodeAt(list, 1) = first
      /\ Has(list, item) /\ Has(list, left) /\ Has(list, first)
      /\ (right # NULL => Has(list, right))
      /\ Circular(list, NextOf(h), PrevOf(h))
  BY Zenon, KnowsNeighbours DEF Neighbours
<1>2. Outside(lists, x) /\ ~Has(list, x)
  BY LooseParts DEF Outside
<1> HIDE DEF list, item, left, right, first
<1>3. /\ x # item /\ x # left /\ x # first /\ x # right /\ xleft \in Nodes
      /\ x \in Nodes \cup {NULL} /\ p \in Nodes
  BY <1>1, <1>2, HeapAssumption
<1> HIDE DEF xleft
<1>4. NextOf(h) \in Pointers /\ PrevOf(h) \in Pointers /\ ChildOf(h) \in Pointers
  BY Views
<1>5. /\ IsHeap(a) /\ SameItems(h, a) /\ PrevOf(a) = PrevOf(h) /\ ChildOf(a) = ChildOf(h)
      /\ NextOf(a) = [NextOf(h) EXCEPT ![x] = right]
  <2>1. right \in Nodes \cup {NULL}
    BY <1>1
  <2> QED
    BY <2>1, NextWritten
<1> HIDE DEF a
<1>6. /\ IsHeap(b) /\ SameItems(a, b) /\ NextOf(b) = NextOf(a) /\ ChildOf(b) = ChildOf(h)
      /\ PrevOf(b) = [PrevOf(h) EXCEPT ![x] = xleft]
  <2>1. IsHeap(a) /\ xleft \in Nodes \cup {NULL}
    BY <1>3, <1>5
  <2>2. /\ IsHeap(b) /\ SameItems(a, b) /\ NextOf(b) = NextOf(a) /\ ChildOf(b) = ChildOf(a)
        /\ PrevOf(b) = [PrevOf(a) EXCEPT ![x] = xleft]
    BY <2>1, PrevWritten
  <2> HIDE DEF b
  <2> QED
    BY <1>5, <2>2
<1> HIDE DEF b
<1>7. /\ IsHeap(c) /\ SameItems(b, c) /\ NextOf(c) = NextOf(a) /\ ChildOf(c) = ChildOf(h)
      /\ PrevOf(c) = IF right = NULL THEN PrevOf(b) ELSE [PrevOf(b) EXCEPT ![right] = x]
  <2>1. CASE right = NULL
    BY <1>6, <2>1 DEF SameItems
  <2>2. CASE right # NULL
    <3>1. c = SetPrev(b, right, x) /\ right \in Nodes /\ x \in Nodes \cup {NULL} /\ IsHeap(b)
      BY <1>1, <1>6, <2>2
    <3> HIDE DEF c
    <3>2. /\ IsHeap(c) /\ SameItems(b, c) /\ NextOf(c) = NextOf(b) /\ ChildOf(c) = ChildOf(b)
          /\ PrevOf(c) = [PrevOf(b) EXCEPT ![right] = x]
      BY <3>1, PrevWritten
    <3> QED
      BY <1>6, <2>2, <3>2
  <2> QED
    BY <2>1, <2>2
<1> HIDE DEF c
<1>8. /\ IsHeap(d) /\ SameItems(c, d) /\ PrevOf(d) = PrevOf(c)
      /\ NextOf(d) = IF i = 1 THEN NextOf(a) ELSE [NextOf(a) EXCEPT ![left] = x]
      /\ ChildOf(d) = IF i = 1 THEN [ChildOf(h) EXCEPT ![p] = x] ELSE ChildOf(h)
  <2>1. CASE i = 1
    <3>1. d = SetChild(c, p, x) /\ p \in Nodes /\ x \in Nodes \cup {NULL} /\ IsHeap(c)
      BY <1>3, <1>7, <2>1
    <3> HIDE DEF d
    <3>2. /\ IsHeap(d) /\ SameItems(c, d) /\ PrevOf(d) = PrevOf(c) /\ NextOf(d) = NextOf(c)
          /\ ChildOf(d) = [ChildOf(c) EXCEPT ![p] = x]
      BY <3>1, ChildWritten
    <3> QED
      BY <1>7, <2>1, <3>2
  <2>2. CASE i # 1
    <3>1. d = SetNext(c, left, x) /\ left \in Nodes /\ x \in Nodes \cup {NULL} /\ IsHeap(c)
      BY <1>1, <1>7, <2>2
    <3> HIDE DEF d
    <3>2. /\ IsHeap(d) /\ SameItems(c, d) /\ PrevOf(d) = PrevOf(c) /\ ChildOf(d) = ChildOf(c)
          /\ NextOf(d) = [NextOf(c) EXCEPT ![left] = x]
      BY <3>1, NextWritten
    <3> QED
      BY <1>7, <2>2, <3>2
  <2> QED
    BY <2>1, <2>2
<1> HIDE DEF d
<1>9. /\ IsHeap(e) /\ SameItems(d, e) /\ NextOf(e) = NextOf(d) /\ ChildOf(e) = ChildOf(d)
      /\ PrevOf(e) = IF i # 1 /\ right = NULL THEN [PrevOf(b) EXCEPT ![first] = x]
                     ELSE PrevOf(c)
  <2>1. CASE i # 1 /\ right = NULL
    <3>1. e = SetPrev(d, first, x) /\ first \in Nodes /\ x \in Nodes \cup {NULL} /\ IsHeap(d)
      BY <1>1, <1>8, <2>1
    <3> HIDE DEF e
    <3>2. /\ IsHeap(e) /\ SameItems(d, e) /\ NextOf(e) = NextOf(d) /\ ChildOf(e) = ChildOf(d)
          /\ PrevOf(e) = [PrevOf(d) EXCEPT ![first] = x]
      BY <3>1, PrevWritten
    <3> QED
      BY <1>7, <1>8, <2>1, <3>2
  <2>2. CASE ~(i # 1 /\ right = NULL)
    BY <1>8, <2>2 DEF SameItems
  <2> QED
    BY <2>1, <2>2
<1> HIDE DEF e
<1>10. /\ IsHeap(f) /\ SameItems(e, f) /\ PrevOf(f) = PrevOf(e) /\ ChildOf(f) = ChildOf(d)
       /\ NextOf(f) = [NextOf(d) EXCEPT ![item] = NULL]
  <2>1. IsHeap(e) /\ item \in Nodes /\ NULL \in Nodes \cup {NULL}
    BY <1>1, <1>9
  <2>2. /\ IsHeap(f) /\ SameItems(e, f) /\ PrevOf(f) = PrevOf(e) /\ ChildOf(f) = ChildOf(e)
        /\ NextOf(f) = [NextOf(e) EXCEPT ![item] = NULL]
    BY <2>1, NextWritten
  <2> HIDE DEF f
  <2> QED
    BY <1>9, <2>2
<1> HIDE DEF f
<1>11. /\ IsHeap(g) /\ SameItems(f, g) /\ NextOf(g) = NextOf(f) /\ ChildOf(g) = ChildOf(d)
       /\ PrevOf(g) = [PrevOf(e) EXCEPT ![item] = NULL]
  <2>1. IsHeap(f) /\ item \in Nodes /\ NULL \in Nodes \cup {NULL}
    BY <1>1, <1>10
  <2>2. /\ IsHeap(g) /\ SameItems(f, g) /\ NextOf(g) = NextOf(f) /\ ChildOf(g) = ChildOf(f)
        /\ PrevOf(g) = [PrevOf(f) EXCEPT ![item] = NULL]
    BY <2>1, PrevWritten
  <2> HIDE DEF g
  <2> QED
    BY <1>10, <2>2
<1>12. g = ReplaceLinks(h, p, item, x)
  <2>1. i # 1 => d.node[p].child = first
    <3>1. d.node[p].child = ChildOf(d)[p]
      BY <1>3, <1>8, Views
    <3> QED
      BY <1>1, <1>8, <3>1
  <2>2. h.node[p].child = item <=> i = 1
    BY <1>1
  <2> QED
    BY <2>1, <2>2 DEF ReplaceLinks, f, e, d, c, b, a, xleft, left, right
<1> HIDE DEF g
<1>13. SameItems(h, g)
  BY <1>5, <1>6, <1>7, <1>8, <1>9, <1>10, <1>11, SameTwice
<1>14. \A y \in Nodes : NextOf(g)[y] = IF y = item THEN NULL
                                       ELSE IF i # 1 /\ y = left THEN x
                                       ELSE IF y = x THEN right ELSE NextOf(h)[y]
  <2>1. \A y \in Nodes : NextOf(a)[y] = IF y = x THEN right ELSE NextOf(h)[y]
    BY <1>4, <1>5 DEF Pointers
  <2>2. \A y \in Nodes : NextOf(d)[y] = IF i # 1 /\ y = left THEN x ELSE NextOf(a)[y]
    BY <1>4, <1>5, <1>8 DEF Pointers
  <2>3. \A y \in Nodes : NextOf(g)[y] = IF y = item THEN NULL ELSE NextOf(d)[y]
    <3>1. NextOf(d) \in Pointers
      BY <1>8, Views
    <3> QED
      BY <1>10, <1>11, <3>1 DEF Pointers
  <2> QED
    BY <2>1, <2>2, <2>3
<1>15. \A y \in Nodes : PrevOf(g)[y] = IF y = item THEN NULL
                                       ELSE IF right # NULL /\ y = right THEN x
                                       ELSE IF i # 1 /\ right = NULL /\ y = first THEN x
                                       ELSE IF y = x THEN xleft ELSE PrevOf(h)[y]
  <2>1. \A y \in Nodes : PrevOf(b)[y] = IF y = x THEN xleft ELSE PrevOf(h)[y]
    BY <1>4, <1>6 DEF Pointers
  <2>2. \A y \in Nodes : PrevOf(e)[y] = IF right # NULL /\ y = right THEN x
                                        ELSE IF i # 1 /\ right = NULL /\ y = first THEN x
                                        ELSE PrevOf(b)[y]
    <3>1. PrevOf(b) \in Pointers
      BY <1>6, Views
    <3> QED
      BY <1>7, <1>9, <3>1 DEF Pointers
  <2>3. \A y \in Nodes : PrevOf(g)[y] = IF y = item THEN NULL ELSE PrevOf(e)[y]
    <3>1. PrevOf(e) \in Pointers
      BY <1>9, Views
    <3> QED
      BY <1>11, <3>1 DEF Pointers
  <2> QED
    BY <2>1, <2>2, <2>3
<1>16. \A q \in Nodes : ChildOf(g)[q] = IF i = 1 /\ q = p THEN x ELSE ChildOf(h)[q]
  BY <1>4, <1>8, <1>11 DEF Pointers
<1>17. Swapped(list, i, x, NextOf(h), PrevOf(h), NextOf(g), PrevOf(g))
  <2>1. NextOf(g)[x] = right /\ (i # 1 => NextOf(g)[left] = x)
    BY <1>1, <1>3, <1>14
  <2>2. PrevOf(g)[x] = xleft /\ (right # NULL => PrevOf(g)[right] = x)
    BY <1>1, <1>3, <1>15
  <2>3. i # 1 /\ right = NULL => PrevOf(g)[first] = x
    BY <1>1, <1>15
  <2>4. \A y \in Nodes : y # x /\ y # item /\ (i # 1 => y # left) => NextOf(g)[y] = NextOf(h)[y]
    BY <1>14
  <2>5. \A y \in Nodes :
          y # x /\ y # item /\ y # right /\ (i # 1 /\ right = NULL => y # first)
            => PrevOf(g)[y] = PrevOf(h)[y]
    BY <1>15
  <2>6. xleft = IF i = 1 /\ left = item THEN x ELSE left
    BY DEF xleft
  <2> QED
    BY <1>1, <2>1, <2>2, <2>3, <2>4, <2>5, <2>6 DEF Swapped, first, item
<1>18. Circular(new, NextOf(g), PrevOf(g)) /\ Distinct(new)
  BY <1>1, <1>2, <1>17, ReplaceCircle
<1>19. NodeAt(new, 1) = IF i = 1 THEN x ELSE first
  <2>1. DOMAIN new = DOMAIN list /\ 1 \in DOMAIN list /\ new[1] = IF i = 1 THEN x ELSE list[1]
    BY <1>1 DEF ReplaceAt
  <2> QED
    BY <2>1 DEF NodeAt, first
<1>20. \A y : Has(new, y) => y = x \/ (y # item /\ Has(list, y))
  BY <1>1, HasReplace DEF item
<1> HIDE DEF new
<1>21. ListBecomes(h, lists, g, p, new, x)
  <2>1. ChildOf(g)[p] = NodeAt(new, 1) /\ \A q \in Nodes \ {p} : ChildOf(g)[q] = ChildOf(h)[q]
    BY <1>1, <1>3, <1>16, <1>19
  <2>2. ASSUME NEW y \in Nodes, y # x, ~Has(list, y)
        PROVE  NextOf(g)[y] = NextOf(h)[y] /\ PrevOf(g)[y] = PrevOf(h)[y]
    <3>1. y # item /\ y # left /\ y # first /\ y # right
      <4>1. /\ Has(list, item) /\ Has(list, left) /\ Has(list, first)
            /\ (right # NULL => Has(list, right))
        BY <1>1
      <4> QED
        BY <2>2, <4>1, HeapAssumption
    <3> QED
      BY <1>14, <1>15, <2>2, <3>1
  <2>3. IsHeap(g) /\ \A y : Has(new, y) => y = x \/ Has(list, y)
    BY <1>11, <1>20
  <2> QED
    BY <1>2, <1>13, <1>18, <2>1, <2>2, <2>3, ListChanged DEF list
<1>22. Loose(g, [lists EXCEPT ![p] = new], item)
  <2>1. \A q \in DOMAIN lists : q # p => ~Has(lists[q], item)
    BY <1>1, ListsParts, ApartParts DEF list
  <2>2. Outside([lists EXCEPT ![p] = new], item)
    BY <1>3, <1>20, <2>1 DEF Outside
  <2> QED
    BY <1>1, <1>14, <1>15, <2>2, LooseParts
<1> QED
  BY <1>12, <1>21, <1>22 DEF new, item, list

LEMMA FirstInserted ==
  ASSUME NEW list \in Seq(Nodes), NEW i \in 1 .. Len(list), NEW x \in Nodes
  PROVE  NodeAt(InsertAt(list, i, x), 1) = IF i = 1 THEN x ELSE NodeAt(list, 1)
<1> DEFINE new == InsertAt(list, i, x)
<1>1. /\ new \in Seq(Nodes) /\ Len(new) = Len(list) + 1
      /\ \A k \in 1 .. Len(list) + 1 :
           new[k] = IF k < i THEN list[k] ELSE IF k = i THEN x ELSE list[k - 1]
  BY ItemInserted
<1> HIDE DEF new
<1>2. /\ DOMAIN new = 1 .. Len(list) + 1 /\ DOMAIN list = 1 .. Len(list)
      /\ 1 \in 1 .. Len(list) + 1 /\ 1 \in 1 .. Len(list) /\ (i # 1 => 1 < i)
  BY <1>1
<1>3. new[1] = IF i = 1 THEN x ELSE list[1]
  BY <1>1, <1>2
<1> QED
  BY <1>2, <1>3 DEF NodeAt, new

LEMMA InsertedList ==
  ASSUME NEW h, IsHeap(h), NEW lists, DOMAIN lists \subseteq Nodes, ListsAre(h, lists),
         NEW p \in DOMAIN lists, NEW i \in DOMAIN lists[p],
         NEW x \in Nodes, Loose(h, lists, x)
  PROVE  ListBecomes(h, lists, InsertBefore(h, p, lists[p][i], x), p,
                     InsertAt(lists[p], i, x), x)
<1> DEFINE list == lists[p]
           item == list[i]
           left == h.node[item].prev
           right == h.node[item].next
           first == list[1]
           a == SetNext(h, x, item)
           b == SetPrev(a, x, left)
           c == SetPrev(b, item, x)
           g == IF i = 1 THEN SetChild(c, p, x) ELSE SetNext(c, left, x)
           new == InsertAt(list, i, x)
<1>1. /\ list \in Seq(Nodes) /\ i \in 1 .. Len(list) /\ i \in Int /\ Distinct(list)
      /\ item \in Nodes /\ left \in Nodes /\ first \in Nodes /\ right \in Nodes \cup {NULL}
      /\ right = NodeAt(list, i + 1) /\ left = PrevOf(h)[item]
      /\ right # item /\ (i # 1 => left = list[i - 1] /\ left # item)
      /\ (first = item <=> i = 1)
      /\ h.node[p].child = first /\ ChildOf(h)[p] = first /\ NodeAt(list, 1) = first
      /\ Has(list, item) /\ Has(list, left) /\ Has(list, first)
      /\ (right # NULL => Has(list, right))
      /\ Circular(list, NextOf(h), PrevOf(h))
  BY Zenon, KnowsNeighbours DEF Neighbours
<1>2. Outside(lists, x) /\ ~Has(list, x)
  BY LooseParts DEF Outside
<1> HIDE DEF list, item, left, right, first
<1>3. x # item /\ x # left /\ x \in Nodes \cup {NULL} /\ p \in Nodes
  BY <1>1, <1>2
<1>4. NextOf(h) \in Pointers /\ PrevOf(h) \in Pointers /\ ChildOf(h) \in Pointers
  BY Views
<1>5. /\ IsHeap(a) /\ SameItems(h, a) /\ PrevOf(a) = PrevOf(h) /\ ChildOf(a) = ChildOf(h)
      /\ NextOf(a) = [NextOf(h) EXCEPT ![x] = item]
  <2>1. item \in Nodes \cup {NULL}
    BY <1>1
  <2> QED
    BY <2>1, NextWritten
<1> HIDE DEF a
<1>6. /\ IsHeap(b) /\ SameItems(a, b) /\ NextOf(b) = NextOf(a) /\ ChildOf(b) = ChildOf(h)
      /\ PrevOf(b) = [PrevOf(h) EXCEPT ![x] = left]
  <2>1. IsHeap(a) /\ left \in Nodes \cup {NULL}
    BY <1>1, <1>5
  <2>2. /\ IsHeap(b) /\ SameItems(a, b) /\ NextOf(b) = NextOf(a) /\ ChildOf(b) = ChildOf(a)
        /\ PrevOf(b) = [PrevOf(a) EXCEPT ![x] = left]
    BY <2>1, PrevWritten
  <2> HIDE DEF b
  <2> QED
    BY <1>5, <2>2
<1> HIDE DEF b
<1>7. /\ IsHeap(c) /\ SameItems(b, c) /\ NextOf(c) = NextOf(a) /\ ChildOf(c) = ChildOf(h)
      /\ PrevOf(c) = [PrevOf(b) EXCEPT ![item] = x]
  <2>1. IsHeap(b) /\ item \in Nodes /\ x \in Nodes \cup {NULL}
    BY <1>1, <1>3, <1>6
  <2>2. /\ IsHeap(c) /\ SameItems(b, c) /\ NextOf(c) = NextOf(b) /\ ChildOf(c) = ChildOf(b)
        /\ PrevOf(c) = [PrevOf(b) EXCEPT ![item] = x]
    BY <2>1, PrevWritten
  <2> HIDE DEF c
  <2> QED
    BY <1>6, <2>2
<1> HIDE DEF c
<1>8. /\ IsHeap(g) /\ SameItems(c, g) /\ PrevOf(g) = PrevOf(c)
      /\ NextOf(g) = IF i = 1 THEN NextOf(a) ELSE [NextOf(a) EXCEPT ![left] = x]
      /\ ChildOf(g) = IF i = 1 THEN [ChildOf(h) EXCEPT ![p] = x] ELSE ChildOf(h)
  <2>1. CASE i = 1
    <3>1. g = SetChild(c, p, x) /\ p \in Nodes /\ x \in Nodes \cup {NULL} /\ IsHeap(c)
      BY <1>3, <1>7, <2>1
    <3> HIDE DEF g
    <3>2. /\ IsHeap(g) /\ SameItems(c, g) /\ PrevOf(g) = PrevOf(c) /\ NextOf(g) = NextOf(c)
          /\ ChildOf(g) = [ChildOf(c) EXCEPT ![p] = x]
      BY <3>1, ChildWritten
    <3> QED
      BY <1>7, <2>1, <3>2
  <2>2. CASE i # 1
    <3>1. g = SetNext(c, left, x) /\ left \in Nodes /\ x \in Nodes \cup {NULL} /\ IsHeap(c)
      BY <1>1, <1>7, <2>2
    <3> HIDE DEF g
    <3>2. /\ IsHeap(g) /\ SameItems(c, g) /\ PrevOf(g) = PrevOf(c) /\ ChildOf(g) = ChildOf(c)
          /\ NextOf(g) = [NextOf(c) EXCEPT ![left] = x]
      BY <3>1, NextWritten
    <3> QED
      BY <1>7, <2>2, <3>2
  <2> QED
    BY <2>1, <2>2
<1>9. g = InsertBefore(h, p, item, x)
  <2>1. h.node[p].child = item <=> i = 1
    BY <1>1
  <2> QED
    BY <2>1 DEF InsertBefore, c, b, a, left
<1> HIDE DEF g
<1>10. SameItems(h, g)
  BY <1>5, <1>6, <1>7, <1>8, SameTwice
<1>11. \A y \in Nodes : NextOf(g)[y] = IF i # 1 /\ y = left THEN x
                                       ELSE IF y = x THEN item ELSE NextOf(h)[y]
  <2>1. \A y \in Nodes : NextOf(a)[y] = IF y = x THEN item ELSE NextOf(h)[y]
    BY <1>4, <1>5 DEF Pointers
  <2>2. \A y \in Nodes : NextOf(g)[y] = IF i # 1 /\ y = left THEN x ELSE NextOf(a)[y]
    <3>1. NextOf(a) \in Pointers
      BY <1>5, Views
    <3> QED
      BY <1>8, <3>1 DEF Pointers
  <2> QED
    BY <2>1, <2>2
<1>12. \A y \in Nodes : PrevOf(g)[y] = IF y = item THEN x
                                       ELSE IF y = x THEN left ELSE PrevOf(h)[y]
  <2>1. \A y \in Nodes : PrevOf(b)[y] = IF y = x THEN left ELSE PrevOf(h)[y]
    BY <1>4, <1>6 DEF Pointers
  <2>2. \A y \in Nodes : PrevOf(g)[y] = IF y = item THEN x ELSE PrevOf(b)[y]
    <3>1. PrevOf(b) \in Pointers
      BY <1>6, Views
    <3> QED
      BY <1>7, <1>8, <3>1 DEF Pointers
  <2> QED
    BY <2>1, <2>2
<1>13. \A q \in Nodes : ChildOf(g)[q] = IF i = 1 /\ q = p THEN x ELSE ChildOf(h)[q]
  BY <1>4, <1>8 DEF Pointers
<1>14. Circular(new, NextOf(g), PrevOf(g)) /\ Distinct(new)
  <2>1. /\ NextOf(g)[x] = list[i] /\ (i # 1 => NextOf(g)[list[i - 1]] = x)
        /\ PrevOf(g)[x] = PrevOf(h)[list[i]] /\ PrevOf(g)[list[i]] = x
    BY <1>1, <1>3, <1>11, <1>12 DEF item
  <2>2. \A y \in Nodes : y # x /\ (i # 1 => y # list[i - 1]) => NextOf(g)[y] = NextOf(h)[y]
    BY <1>1, <1>11
  <2>3. \A y \in Nodes \ {x, list[i]} : PrevOf(g)[y] = PrevOf(h)[y]
    BY <1>12 DEF item
  <2> QED
    BY <1>1, <1>2, <2>1, <2>2, <2>3, InsertCircle
<1>15. NodeAt(new, 1) = IF i = 1 THEN x ELSE first
  BY <1>1, FirstInserted
<1>16. \A y : Has(new, y) => y = x \/ Has(list, y)
  BY <1>1, HasInsert
<1> HIDE DEF new
<1>17. ListBecomes(h, lists, g, p, new, x)
  <2>1. ChildOf(g)[p] = NodeAt(new, 1) /\ \A q \in Nodes \ {p} : ChildOf(g)[q] = ChildOf(h)[q]
    BY <1>1, <1>3, <1>13, <1>15
  <2>2. ASSUME NEW y \in Nodes, y # x, ~Has(list, y)
        PROVE  NextOf(g)[y] = NextOf(h)[y] /\ PrevOf(g)[y] = PrevOf(h)[y]
    <3>1. y # item /\ y # left
      <4>1. Has(list, item) /\ Has(list, left)
        BY <1>1
      <4> QED
        BY <2>2, <4>1
    <3> QED
      BY <1>11, <1>12, <2>2, <3>1
  <2>3. IsHeap(g)
    BY <1>8
  <2> QED
    BY <1>2, <1>10, <1>14, <1>16, <2>1, <2>2, <2>3, ListChanged DEF list
<1> QED
  BY <1>9, <1>17 DEF new, item, list
-----------------------------------------------------------------------------
(* Reading a list.                                                         *)

LEMMA ListFits ==
  ASSUME NEW list \in Seq(Nodes), Distinct(list)
  PROVE  MaxLen \in Nat /\ Len(list) < MaxLen
<1> DEFINE at == [i \in 1 .. Len(list) |-> list[i]]
<1>1. IsFiniteSet(Nodes) /\ Cardinality(Nodes) \in Nat
  BY HeapAssumption, FS_CardinalityType
<1>2. at \in [1 .. Len(list) -> Nodes]
  OBVIOUS
<1>3. \A i, j \in 1 .. Len(list) : at[i] = at[j] => i = j
  BY DEF Distinct
<1> HIDE DEF at
<1>4. at \in Injection(1 .. Len(list), Nodes)
  BY <1>2, <1>3 DEF Injection, IsInjective
<1>5. Cardinality(1 .. Len(list)) <= Cardinality(Nodes)
  BY <1>1, <1>4, FS_Injection
<1>6. Cardinality(1 .. Len(list)) = Len(list)
  <2>1. Len(list) \in Nat /\ 1 \in Int /\ Len(list) \in Int
    OBVIOUS
  <2>2. Cardinality(1 .. Len(list)) = IF 1 > Len(list) THEN 0 ELSE Len(list) - 1 + 1
    BY <2>1, FS_Interval
  <2> QED
    BY <2>1, <2>2
<1> QED
  BY <1>1, <1>5, <1>6 DEF MaxLen

(* The walk from child along next visits the list.                         *)
THEOREM ChildrenAreList ==
  ASSUME NEW h, IsHeap(h), NEW lists, DOMAIN lists \subseteq Nodes, ListsAre(h, lists),
         NEW p \in DOMAIN lists
  PROVE  Children(h, p) = lists[p]
<1> DEFINE list == lists[p]
           first == h.node[p].child
           W == WalkOn(h, first)
           Round == [k \in Nat |-> W]
           n == Len(list)
           I == [k \in Nat |-> {x \in Seq(Nodes) :
                   /\ Len(x) = IF k < n THEN k ELSE n
                   /\ \A i \in 1 .. Len(x) : x[i] = list[i]}]
<1>0. /\ Circular(list, NextOf(h), PrevOf(h)) /\ ChildOf(h)[p] = NodeAt(list, 1)
      /\ Distinct(list)
  BY ListsParts, ApartParts
<1> HIDE DEF list
<1>1. /\ list \in Seq(Nodes) /\ n \in Nat /\ MaxLen \in Nat /\ n < MaxLen
      /\ DOMAIN list = 1 .. n
      /\ \A i \in 1 .. n : list[i] \in Nodes /\ h.node[list[i]].next = NodeAt(list, i + 1)
      /\ first = NodeAt(list, 1)
  <2>1. list \in Seq(Nodes)
    BY <1>0 DEF Circular
  <2>2. n \in Nat /\ MaxLen \in Nat /\ n < MaxLen /\ DOMAIN list = 1 .. n
    BY <1>0, <2>1, ListFits
  <2>3. ASSUME NEW i \in 1 .. n
        PROVE  list[i] \in Nodes /\ h.node[list[i]].next = NodeAt(list, i + 1)
    <3>1. list[i] \in Nodes /\ NextOf(h)[list[i]] = NodeAt(list, i + 1)
      BY <1>0, <2>1, <2>2 DEF Circular
    <3> QED
      BY <3>1 DEF NextOf
  <2>4. first = NodeAt(list, 1)
    BY <1>0 DEF ChildOf
  <2> QED
    BY <2>1, <2>2, <2>3, <2>4
<1>2. PICK f : Children(h, p) = f[MaxLen] /\ IsLoop(f, <<>>, Round, MaxLen)
  <2> DEFINE walked == CHOOSE g : g = [k \in 0 .. MaxLen |->
                                  IF k = 0 THEN <<>> ELSE W[g[k - 1]]]
  <2>1. Children(h, p) = walked[MaxLen]
    BY DEF Children
  <2> HIDE DEF W, first
  <2>2. IsLoop(walked, <<>>, Round, MaxLen)
    BY <1>1, LoopChosen
  <2> HIDE DEF walked
  <2> QED
    BY <2>1, <2>2
<1>3. <<>> \in I[0]
  <2> DEFINE none == <<>>
  <2>1. none \in Seq(Nodes) /\ Len(none) = 0
    OBVIOUS
  <2> HIDE DEF none, n
  <2>2. none \in I[0]
    BY <1>1, <2>1
  <2> QED
    BY <2>2 DEF none
<1>4. ASSUME NEW k \in 0 .. MaxLen - 1, NEW x \in I[k]
      PROVE  W[x] \in I[k + 1]
  <2>1. /\ x \in Seq(Nodes) /\ Len(x) = (IF k < n THEN k ELSE n)
        /\ \A i \in 1 .. Len(x) : x[i] = list[i]
    BY <1>4
  <2> DEFINE item == IF x = <<>> THEN first ELSE h.node[Last(x)].next
  <2>2. item = NodeAt(list, Len(x) + 1)
    <3>1. CASE x = <<>>
      BY <1>1, <3>1
    <3>2. CASE x # <<>>
      <4>1. Len(x) \in 1 .. n /\ Last(x) = list[Len(x)]
        BY <1>1, <2>1, <3>2 DEF Last
      <4> QED
        BY <1>1, <3>2, <4>1
    <3> QED
      BY <3>1, <3>2
  <2>3. W[x] = IF item = NULL THEN x ELSE Append(x, item)
    BY <2>1 DEF WalkOn
  <2> HIDE DEF item, W
  <2>4. CASE k < n
    <3>1. item = list[k + 1] /\ item \in Nodes /\ item # NULL
      BY <1>1, <2>1, <2>2, <2>4, HeapAssumption DEF NodeAt
    <3>2. /\ Append(x, item) \in Seq(Nodes) /\ Len(Append(x, item)) = k + 1
          /\ \A i \in 1 .. k + 1 : Append(x, item)[i] = IF i = k + 1 THEN item ELSE x[i]
      BY <2>1, <2>4, <3>1
    <3>3. W[x] = Append(x, item) /\ k + 1 <= n
      BY <1>1, <2>3, <2>4, <3>1
    <3>4. \A i \in 1 .. k + 1 : Append(x, item)[i] = list[i]
      BY <2>1, <2>4, <3>1, <3>2
    <3> HIDE DEF n
    <3>5. k + 1 \in Nat /\ Len(W[x]) = IF k + 1 < n THEN k + 1 ELSE n
      BY <1>1, <3>2, <3>3
    <3> QED
      BY <3>2, <3>3, <3>4, <3>5
  <2>5. CASE k >= n
    <3>1. item = NULL
      BY <1>1, <2>1, <2>2, <2>5 DEF NodeAt
    <3> QED
      BY <1>1, <2>1, <2>3, <2>5, <3>1
  <2> QED
    BY <1>1, <2>4, <2>5
<1>5. f[MaxLen] \in I[MaxLen]
  <2>1. \A k \in 0 .. MaxLen - 1 : Round[k + 1] = W
    BY <1>1
  <2> HIDE DEF I, W, Round
  <2> QED
    BY <1>1, <1>2, <1>3, <1>4, <2>1, LoopKeeps, ZenonT(40)
<1>6. f[MaxLen] = list
  <2> DEFINE l == f[MaxLen]
  <2>1. l \in Seq(Nodes) /\ Len(l) = n /\ \A i \in 1 .. Len(l) : l[i] = list[i]
    BY <1>1, <1>5
  <2> HIDE DEF l
  <2>2. l = list
    BY <1>1, <2>1
  <2> QED
    BY <2>2 DEF l
<1> QED
  BY <1>2, <1>6 DEF list

LEMMA FindsByIndex ==
  ASSUME NEW h, IsHeap(h), NEW lists, DOMAIN lists \subseteq Nodes, ListsAre(h, lists),
         NEW p \in DOMAIN lists, NEW which \in Int
  PROVE  GetArrayItem(h, p, which) = NodeAt(lists[p], which + 1)
<1>1. Children(h, p) = lists[p] /\ p # NULL
  BY ChildrenAreList, HeapAssumption
<1>2. Len(lists[p]) \in Nat /\ DOMAIN lists[p] = 1 .. Len(lists[p])
  BY DEF ListsAre, ListIs
<1>3. which >= 0 /\ which < Len(lists[p]) <=> which + 1 \in DOMAIN lists[p]
  BY <1>2
<1> QED
  BY <1>1, <1>3 DEF GetArrayItem, GetArraySize, NodeAt

(* cJSON_InsertItemInArray puts a loose item before the child that has the *)
(* index, or behind all children if none has it.                           *)
THEOREM InsertKeepsLists ==
  ASSUME NEW h, IsHeap(h), NEW lists, DOMAIN lists \subseteq Nodes, ListsAre(h, lists),
         NEW p \in DOMAIN lists, NEW x \in Nodes \ {p}, Loose(h, lists, x), NEW which \in Nat
  PROVE  LET list == IF which + 1 \in DOMAIN lists[p] THEN InsertAt(lists[p], which + 1, x)
                     ELSE Append(lists[p], x)
             r == InsertItemInArray(h, p, which, x)
         IN r.ret = TRUE /\ ListBecomes(h, lists, r.h, p, list, x)
<1>1. x # NULL /\ ~(which < 0) /\ which \in Int
  BY HeapAssumption
<1>2. GetArrayItem(h, p, which) = NodeAt(lists[p], which + 1)
  BY <1>1, FindsByIndex
<1>3. CASE which + 1 \in DOMAIN lists[p]
  <2> DEFINE i == which + 1
             after == lists[p][i]
  <2>1. i \in DOMAIN lists[p]
    BY <1>3
  <2> HIDE DEF i
  <2>2. Neighbours(h, p, lists[p], i)
    BY <2>1, KnowsNeighbours
  <2>3. after \in Nodes /\ h.node[after].prev \in Nodes
    BY <2>2 DEF Neighbours
  <2>4. after # NULL /\ h.node[after].prev # NULL /\ GetArrayItem(h, p, which) = after
    BY <1>2, <1>3, <2>3, HeapAssumption DEF NodeAt, i
  <2>5. InsertItemInArray(h, p, which, x) = Result(InsertBefore(h, p, after, x), TRUE)
    BY <1>1, <2>4 DEF InsertItemInArray
  <2>6. ListBecomes(h, lists, InsertBefore(h, p, after, x), p, InsertAt(lists[p], i, x), x)
    BY <2>1, InsertedList
  <2> QED
    BY <1>3, <2>5, <2>6 DEF Result, i
<1>4. CASE which + 1 \notin DOMAIN lists[p]
  <2>1. GetArrayItem(h, p, which) = NULL
    BY <1>2, <1>4 DEF NodeAt
  <2>2. InsertItemInArray(h, p, which, x) = AddItemToArray(h, p, x)
    BY <1>1, <2>1 DEF InsertItemInArray
  <2>3. /\ AddItemToArray(h, p, x).ret = TRUE
        /\ ListBecomes(h, lists, AddItemToArray(h, p, x).h, p, Append(lists[p], x), x)
    BY AddKeepsLists
  <2> QED
    BY <1>4, <2>2, <2>3
<1> QED
  BY <1>3, <1>4

(* So each call does to what a walk over the children finds what its name  *)
(* says, in every heap whose items are linked into lists.                  *)
THEOREM CallsDoAsNamed ==
  ASSUME NEW h, IsHeap(h), NEW lists, DOMAIN lists \subseteq Nodes, ListsAre(h, lists),
         NEW p \in DOMAIN lists, NEW which \in Nat
  PROVE  LET list == Children(h, p)
             inside == which + 1 \in DOMAIN list
         IN /\ inside => Children(DetachItemViaPointer(h, p, list[which + 1]), p)
                           = RemoveAt(list, which + 1)
            /\ \A x \in Nodes \ {p} : Loose(h, lists, x) =>
                 /\ Children(AddItemToArray(h, p, x).h, p) = Append(list, x)
                 /\ Children(InsertItemInArray(h, p, which, x).h, p)
                      = IF inside THEN InsertAt(list, which + 1, x) ELSE Append(list, x)
                 /\ inside => Children(ReplaceLinks(h, p, list[which + 1], x), p)
                                = ReplaceAt(list, which + 1, x)
<1> DEFINE list == lists[p]
           inside == which + 1 \in DOMAIN list
<1>1. Children(h, p) = list
  BY ChildrenAreList
<1>2. ASSUME NEW g, NEW new, NEW x, ListBecomes(h, lists, g, p, new, x)
      PROVE  Children(g, p) = new
  <2> DEFINE after == [lists EXCEPT ![p] = new]
  <2>1. IsHeap(g) /\ ListsAre(g, after)
    BY <1>2 DEF ListBecomes
  <2>2. DOMAIN after = DOMAIN lists /\ after[p] = new
    OBVIOUS
  <2> HIDE DEF after
  <2> QED
    BY <2>1, <2>2, ChildrenAreList
<1>3. ASSUME inside
      PROVE  Children(DetachItemViaPointer(h, p, list[which + 1]), p) = RemoveAt(list, which + 1)
  <2>1. ListBecomes(h, lists, DetachItemViaPointer(h, p, list[which + 1]), p,
                    RemoveAt(list, which + 1), list[which + 1])
    BY <1>3, DetachKeepsLists
  <2> QED
    BY <1>2, <2>1
<1>4. ASSUME NEW x \in Nodes \ {p}, Loose(h, lists, x)
      PROVE  Children(AddItemToArray(h, p, x).h, p) = Append(list, x)
  <2>1. ListBecomes(h, lists, AddItemToArray(h, p, x).h, p, Append(list, x), x)
    BY <1>4, AddKeepsLists
  <2> QED
    BY <1>2, <2>1
<1>5. ASSUME NEW x \in Nodes \ {p}, Loose(h, lists, x)
      PROVE  Children(InsertItemInArray(h, p, which, x).h, p)
               = IF inside THEN InsertAt(list, which + 1, x) ELSE Append(list, x)
  <2> DEFINE new == IF inside THEN InsertAt(list, which + 1, x) ELSE Append(list, x)
  <2>1. ListBecomes(h, lists, InsertItemInArray(h, p, which, x).h, p, new, x)
    BY <1>5, InsertKeepsLists
  <2> HIDE DEF new
  <2>2. Children(InsertItemInArray(h, p, which, x).h, p) = new
    BY <1>2, <2>1
  <2> QED
    BY <2>2 DEF new
<1>6. ASSUME NEW x \in Nodes \ {p}, Loose(h, lists, x), inside
      PROVE  Children(ReplaceLinks(h, p, list[which + 1], x), p) = ReplaceAt(list, which + 1, x)
  <2>1. ListBecomes(h, lists, ReplaceLinks(h, p, list[which + 1], x), p,
                    ReplaceAt(list, which + 1, x), x)
    BY <1>6, ReplaceKeepsLists
  <2> QED
    BY <1>2, <2>1
<1> HIDE DEF list
<1> QED
  BY <1>1, <1>3, <1>4, <1>5, <1>6 DEF list
=============================================================================
