-------------------------------- MODULE UtHash --------------------------------
(***************************************************************************)
(* The hash table of tool/uthash.h: what its macros do by walking along    *)
(* the lists of UtHashLists, and the operations that an application calls. *)
(***************************************************************************)
EXTENDS UtHashLists

(* The items from first on along the pointers in link.  A list is no       *)
(* longer than there are items; one that has a cycle is cut there.  Loops  *)
(* are functions of the number of rounds.                                  *)
MaxLen == Cardinality(Keys) + 1

WalkOn(link, first) ==
  [list \in Seq(Items) |->
     LET item == IF list = <<>> THEN first ELSE link[Last(list)]
     IN IF item = NULL THEN list ELSE Append(list, item)]

Follow(link, first) ==
  LET walked[n \in 0 .. MaxLen] ==
        IF n = 0 THEN <<>> ELSE WalkOn(link, first)[walked[n - 1]]
  IN walked[MaxLen]

AppOrder(t) == Follow(t.next, t.head)
Chain(t, b) == Follow(t.hh_next, t.tbl.buckets[b].hh_head)
Chains(t) == [b \in DOMAIN t.tbl.buckets |-> Chain(t, b)]
Members(t) == ToSet(AppOrder(t))

(* All items, bucket after bucket.                                         *)
AllItems(t) ==
  LET items[n \in 0 .. t.tbl.num_buckets] ==
        IF n = 0 THEN <<>> ELSE items[n - 1] \o Chain(t, n - 1)
  IN items[t.tbl.num_buckets]
-----------------------------------------------------------------------------
(* Buckets.                                                                *)

(* A fault of Matches: the keys are not compared.                          *)
HashesMatch(hash, key, item) == hash[KeyOf(item)] = hash[key]

(* HASH_FIND goes along the chain of the key's bucket to the first item    *)
(* that is the one: the hash values are compared first, then the keys.     *)
Matches(hash, key, item) == hash[KeyOf(item)] = hash[key] /\ KeyOf(item) = key

LookOn(t, hash, key) ==
  [item \in Items \cup {NULL} |->
     IF item = NULL \/ Matches(hash, key, item) THEN item ELSE t.hh_next[item]]

Find(t, hash, key) ==
  LET bucket == t.tbl.buckets[ToBkt(t, hash[key])]
      at[n \in 0 .. MaxLen] ==
        IF n = 0 THEN bucket.hh_head ELSE LookOn(t, hash, key)[at[n - 1]]
  IN IF t.head = NULL THEN NULL ELSE at[MaxLen]

Ceiling(n, d) == n \div d + (IF n % d # 0 THEN 1 ELSE 0)

(* A round of the expansion, which counts the items beyond the ideal place. *)
MoveNext(moved, hash, item) ==
  LET next == MoveItem(moved.t, hash, item)
      bucket == next.tbl.buckets[ToBkt(next, hash[KeyOf(item)])]
      over == bucket.count > next.tbl.ideal_chain_maxlen
  IN [t |-> next, nonideal |-> moved.nonideal + (IF over THEN 1 ELSE 0)]

MoveAll(fresh, hash, items) ==
  LET moved[n \in 0 .. Len(items)] ==
        IF n = 0 THEN [t |-> fresh, nonideal |-> 0]
                 ELSE MoveNext(moved[n - 1], hash, items[n])
  IN moved[Len(items)]

Doubled(t) ==
  LET doubled == 2 * t.tbl.num_buckets
  IN [t EXCEPT !.tbl.num_buckets = doubled,
               !.tbl.buckets = EmptyBuckets(doubled),
               !.tbl.ideal_chain_maxlen = Ceiling(t.tbl.num_items, doubled)]

(* HASH_EXPAND_BUCKETS.  All items move to twice as many buckets.  After   *)
(* two expansions in a row that left more than half of the items beyond    *)
(* the ideal place there is no further one.                                *)
ExpandBuckets(t, hash) ==
  LET done  == MoveAll(Doubled(t), hash, AllItems(t))
      ineff == IF done.nonideal > t.tbl.num_items \div 2
                 THEN t.tbl.ineff_expands + 1 ELSE 0
  IN [done.t EXCEPT !.tbl.ineff_expands = ineff,
                    !.tbl.noexpand = @ \/ ineff > 1]

MayExpand(t, b) ==
  /\ t.tbl.buckets[b].count >= (t.tbl.buckets[b].expand_mult + 1) * CapacityThresh
  /\ ~t.tbl.noexpand

AddToBkt(t, hash, item) ==
  LET b     == ToBkt(t, hash[KeyOf(item)])
      added == PushInBkt(t, b, item)
  IN IF MayExpand(added, b) THEN ExpandBuckets(added, hash) ELSE added

-----------------------------------------------------------------------------
(* The application order.                                                  *)

AddToTable(t, hash, item) ==
  AddToBkt([t EXCEPT !.tbl.num_items = @ + 1], hash, item)

(* HASH_ADD_KEYPTR: the item comes last.                                   *)
Add(t, hash, item) ==
  AddToTable(IF t.head = NULL THEN MakeTable(t, item) ELSE AppendList(t, item),
             hash, item)

(* HASH_ADD_KEYPTR_INORDER: the item comes before the first one that is    *)
(* greater: greater holds the pairs <<a, b>> with cmpfcn(a, b) > 0.         *)
AddInOrder(t, hash, item, greater) ==
  LET place == SelectInSeq(AppOrder(t), LAMBDA other : <<other, item>> \in greater)
      listed == CASE t.head = NULL -> MakeTable(t, item)
                  [] t.head # NULL /\ place # 0 ->
                       InsertBefore(t, AppOrder(t)[place], item)
                  [] OTHER -> AppendList(t, item)
  IN AddToTable(listed, hash, item)

(* HASH_REPLACE: the item that has the key is deleted and given back to    *)
(* the caller, who frees it.                                               *)
WithoutKey(t, hash, key) ==
  LET replaced == Find(t, hash, key)
  IN IF replaced = NULL THEN t ELSE Free(Delete(t, hash, replaced), replaced)

Replace(t, hash, item) == Add(WithoutKey(t, hash, KeyOf(item)), hash, item)

ReplaceInOrder(t, hash, item, greater) ==
  AddInOrder(WithoutKey(t, hash, KeyOf(item)), hash, item, greater)

(* HASH_CLEAR frees the table at once; the items stay with the caller.     *)
Clear(t) == IF t.head = NULL THEN t ELSE EmptyTable
-----------------------------------------------------------------------------
(* HASH_SRT: a mergesort of the application order, bottom-up.  Runs of     *)
(* insize items are merged two by two, the left one first among equals,    *)
(* and the last pass is the one that merges once.                          *)

FromLeft(m) ==
  [left |-> Tail(m.left), right |-> m.right, out |-> Append(m.out, Head(m.left))]

FromRight(m) ==
  [left |-> m.left, right |-> Tail(m.right), out |-> Append(m.out, Head(m.right))]

TakeUnstably(m, greater) ==   (* a fault of TakeNext: the right one first *)
  IF /\ m.left # <<>>
     /\ m.right = <<>> \/ <<Head(m.right), Head(m.left)>> \in greater
    THEN FromLeft(m) ELSE FromRight(m)

TakeNext(m, greater) ==
  IF /\ m.left # <<>>
     /\ m.right = <<>> \/ <<Head(m.left), Head(m.right)>> \notin greater
    THEN FromLeft(m) ELSE FromRight(m)

Merge(p, q, greater) ==
  LET merged[n \in 0 .. Len(p) + Len(q)] ==
        IF n = 0 THEN [left |-> p, right |-> q, out |-> <<>>]
                 ELSE TakeNext(merged[n - 1], greater)
  IN merged[Len(p) + Len(q)].out

(* The items of the list that out does not have yet come in runs of        *)
(* insize: the next two are merged behind out.                             *)
MergeRuns(out, list, insize, greater) ==
  LET Upto(i) == IF i < Len(list) THEN i ELSE Len(list)
      p == Len(out)
      q == Upto(p + insize)
      end == Upto(p + 2 * insize)
  IN out \o Merge(SubSeq(list, p + 1, q), SubSeq(list, q + 1, end), greater)

SortPass(list, insize, greater) ==
  LET sorted[n \in 0 .. Len(list)] ==
        IF n = 0 THEN <<>> ELSE MergeRuns(sorted[n - 1], list, insize, greater)
  IN sorted[Len(list)]

NextPass(s, greater) ==
  IF ~s.looping THEN s
  ELSE [list    |-> SortPass(s.list, s.insize, greater),
        insize  |-> 2 * s.insize,
        looping |-> 2 * s.insize < Len(s.list)]

SortList(list, greater) ==
  LET passed[n \in 0 .. Len(list)] ==
        IF n = 0 THEN [list |-> list, insize |-> 1, looping |-> TRUE]
                 ELSE NextPass(passed[n - 1], greater)
  IN passed[Len(list)].list

(* The passes leave the links of a list, and its ends in head and tail.    *)
Around(list, link, step) ==
  LET Place(item) == CHOOSE i \in DOMAIN list : list[i] = item
  IN [item \in Items |-> IF item \in ToSet(list)
                           THEN NodeAt(list, Place(item) + step) ELSE link[item]]

Relink(t, list) ==
  [t EXCEPT !.next = Around(list, t.next, 1), !.prev = Around(list, t.prev, -1),
            !.head = list[1], !.tbl.tail = list[Len(list)]]

Sort(t, greater) ==
  IF t.head = NULL THEN t
  ELSE Relink(t, SortList(AppOrder(t), greater))
-----------------------------------------------------------------------------
(* HASH_SELECT: the items that meet a condition get a place in a second    *)
(* table too, through a second handle.  The items come bucket by bucket.   *)
(* num_items is counted after the bucket, and tbl->tail stays at the first *)
(* item that was selected.                                                 *)
LinkAlone(dst, item, last) ==   (* a fault of LinkAfter *)
  [dst EXCEPT !.prev[item] = NULL, !.next[item] = NULL]

LinkAfter(dst, item, last) ==
  LET linked == [dst EXCEPT !.prev[item] = last, !.next[item] = NULL]
  IN IF last = NULL THEN linked ELSE [linked EXCEPT !.next[last] = item]

SelectOne(dst, hash, item, last) ==
  LET linked == LinkAfter(dst, item, last)
      table  == IF dst.head = NULL THEN MakeTable(linked, item) ELSE linked
  IN [AddToBkt(table, hash, item) EXCEPT !.tbl.num_items = @ + 1]

SelectNext(s, hash, chosen, item) ==
  IF item \in chosen
    THEN [dst |-> SelectOne(s.dst, hash, item, s.last), last |-> item]
    ELSE s

Select(src, hash, chosen) ==
  LET items == AllItems(src)
      selected[n \in 0 .. Len(items)] ==
        IF n = 0 THEN [dst |-> EmptyTable, last |-> NULL]
                 ELSE SelectNext(selected[n - 1], hash, chosen, items[n])
  IN IF src.head = NULL THEN EmptyTable ELSE selected[Len(items)].dst
-----------------------------------------------------------------------------
(* HASH_COUNT *)
Count(t) == IF t.head = NULL THEN 0 ELSE t.tbl.num_items

(* The longest chain that a bucket with expand_mult 0 may have.            *)
MaxChain(t) ==
  IF t.tbl.ideal_chain_maxlen > CapacityThresh THEN t.tbl.ideal_chain_maxlen
                                               ELSE CapacityThresh

Bounded(t) ==
  ~t.tbl.noexpand =>
    \A b \in DOMAIN t.tbl.buckets :
      t.tbl.buckets[b].count <= (t.tbl.buckets[b].expand_mult + 1) * MaxChain(t)

(* prev is the inverse of next along a list.                               *)
BackLinked(list, back) ==
  \A i \in DOMAIN list : back[list[i]] = IF i = 1 THEN NULL ELSE list[i - 1]

(* HASH_FSCK, the check that uthash runs on itself under HASH_DEBUG: links *)
(* in both directions, the count of every bucket and of the table.         *)
Fsck(t) ==
  t.head # NULL =>
    /\ \A b \in DOMAIN t.tbl.buckets :
         /\ BackLinked(Chain(t, b), t.hh_prev)
         /\ t.tbl.buckets[b].count = Len(Chain(t, b))
    /\ Len(AllItems(t)) = t.tbl.num_items
    /\ BackLinked(AppOrder(t), t.prev)
    /\ Len(AppOrder(t)) = t.tbl.num_items
=============================================================================
