----------------------------- MODULE UtHashLists -----------------------------
(***************************************************************************)
(* The lists of tool/uthash.h.  An item of the application is in two       *)
(* doubly linked lists: the application order (next, prev), which starts   *)
(* at the head pointer and ends at tbl->tail, and the chain of its bucket  *)
(* (hh_next, hh_prev).  A table is the value                               *)
(*                                                                         *)
(*   [head, next, prev, hh_next, hh_prev, tbl]                             *)
(*                                                                         *)
(* with the handles of all items, and every macro is a function from       *)
(* tables to tables.  An item is its key and its value.  HASH_JEN is any   *)
(* function from keys to hash values.  HASH_BLOOM and HASH_NONFATAL_OOM    *)
(* are off, as in the program: malloc failing ends the process.            *)
(*                                                                         *)
(* Here is what a macro does to one item; what it does by walking along a  *)
(* list is in UtHash.                                                      *)
(***************************************************************************)
EXTENDS Integers, SequencesExt

CONSTANTS
  Keys, Values,
  NULL,
  InitialBuckets,  (* HASH_INITIAL_NUM_BUCKETS, 32 in the code             *)
  CapacityThresh   (* HASH_BKT_CAPACITY_THRESH, 10 in the code             *)

Items == Keys \X Values
KeyOf(item) == item[1]
ValueOf(item) == item[2]

ASSUME TableAssumption ==
  /\ NULL \notin Items
  /\ IsFiniteSet(Keys)
  /\ InitialBuckets \in Nat \ {0} /\ CapacityThresh \in Nat \ {0}

Unlinked == [item \in Items |-> NULL]
NoTable == [num_buckets |-> 0]

(* What a null head pointer stands for.                                    *)
EmptyTable == [head |-> NULL, next |-> Unlinked, prev |-> Unlinked,
               hh_next |-> Unlinked, hh_prev |-> Unlinked, tbl |-> NoTable]

EmptyBucket == [hh_head |-> NULL, count |-> 0, expand_mult |-> 0]
EmptyBuckets(n) == [b \in 0 .. n - 1 |-> EmptyBucket]

(* HASH_TO_BKT: the hash value modulo the number of buckets, which is a    *)
(* power of two.                                                           *)
ToBkt(t, hashv) == hashv % t.tbl.num_buckets
-----------------------------------------------------------------------------
(* The chain of a bucket.                                                  *)

Longer(bucket, item) == [bucket EXCEPT !.count = @ + 1, !.hh_head = item]

(* The item, which may be the first of the chain, has the next one after.  *)
Shorter(bucket, item, after) ==
  [bucket EXCEPT !.count = @ - 1, !.hh_head = IF @ = item THEN after ELSE @]

(* An item becomes the first of a chain.                                   *)
PushInBkt(t, b, item) ==
  LET first  == t.tbl.buckets[b].hh_head
      linked == [t EXCEPT !.hh_next[item] = first, !.hh_prev[item] = NULL]
      pushed == IF first = NULL THEN linked ELSE [linked EXCEPT !.hh_prev[first] = item]
  IN [pushed EXCEPT !.tbl.buckets[b] = Longer(@, item)]

DelInBkt(t, b, item) ==
  LET before == t.hh_prev[item]
      after  == t.hh_next[item]
      headed == [t EXCEPT !.tbl.buckets[b] = Shorter(@, item, after)]
      forward == IF before = NULL THEN headed
                 ELSE [headed EXCEPT !.hh_next[before] = after]
  IN IF after = NULL THEN forward ELSE [forward EXCEPT !.hh_prev[after] = before]

(* A bucket that got more than the ideal number of items puts off its next *)
(* expansion.                                                              *)
NeverPutsOff(bucket, ideal_chain_maxlen) == bucket   (* a fault of PutsOff *)

PutsOff(bucket, ideal_chain_maxlen) ==
  IF /\ bucket.count > ideal_chain_maxlen
     /\ bucket.count > bucket.expand_mult * ideal_chain_maxlen
    THEN [bucket EXCEPT !.expand_mult = @ + 1]
    ELSE bucket

(* One round of HASH_EXPAND_BUCKETS: the item moves to one of the new      *)
(* buckets.                                                                *)
MoveItem(t, hash, item) ==
  LET b == ToBkt(t, hash[KeyOf(item)])
  IN [PushInBkt(t, b, item) EXCEPT
        !.tbl.buckets[b] = PutsOff(@, t.tbl.ideal_chain_maxlen)]
-----------------------------------------------------------------------------
(* The application order.                                                  *)

(* HASH_MAKE_TABLE: the item is head and tail of a new table.              *)
MakeTable(t, item) ==
  [t EXCEPT !.head = item, !.next[item] = NULL, !.prev[item] = NULL,
            !.tbl = [tail |-> item, num_buckets |-> InitialBuckets,
                     num_items |-> 0, buckets |-> EmptyBuckets(InitialBuckets),
                     ideal_chain_maxlen |-> 0, ineff_expands |-> 0,
                     noexpand |-> FALSE]]

AppendList(t, item) ==
  [t EXCEPT !.next[item] = NULL, !.prev[item] = t.tbl.tail,
            !.next[t.tbl.tail] = item, !.tbl.tail = item]

InsertBefore(t, place, item) ==
  LET before == t.prev[place]
      linked == [t EXCEPT !.next[item] = place, !.prev[item] = before,
                          !.prev[place] = item]
  IN IF before = NULL THEN [linked EXCEPT !.head = item]
                      ELSE [linked EXCEPT !.next[before] = item]

KeepTail(t, item) == t   (* a fault of MoveTail *)

MoveTail(t, item) ==
  IF item = t.tbl.tail THEN [t EXCEPT !.tbl.tail = t.prev[item]] ELSE t

(* The first half of HASH_DELETE_HH, for an item that is not the only one. *)
Unlink(t, item) ==
  LET before == t.prev[item]
      after  == t.next[item]
      tailed == MoveTail(t, item)
      headed == IF before = NULL THEN [tailed EXCEPT !.head = after]
                                 ELSE [tailed EXCEPT !.next[before] = after]
  IN IF after = NULL THEN headed ELSE [headed EXCEPT !.prev[after] = before]

(* HASH_DELETE_HH.  The last item takes the table with it.                 *)
Delete(t, hash, item) ==
  IF t.prev[item] = NULL /\ t.next[item] = NULL
    THEN [t EXCEPT !.head = NULL, !.tbl = NoTable]
    ELSE [DelInBkt(Unlink(t, item), ToBkt(t, hash[KeyOf(item)]), item)
            EXCEPT !.tbl.num_items = @ - 1]

(* free of the item, or its reuse: nothing is known of its handle.         *)
Free(t, item) ==
  [t EXCEPT !.next[item] = NULL, !.prev[item] = NULL,
            !.hh_next[item] = NULL, !.hh_prev[item] = NULL]
-----------------------------------------------------------------------------
(* The lists that a table is.                                              *)

Links == [Items -> Items \cup {NULL}]
Bucket == [hh_head : Items \cup {NULL}, count : Int, expand_mult : Nat]

IsTable(t) ==
  t \in [head : Items \cup {NULL}, next : Links, prev : Links,
         hh_next : Links, hh_prev : Links,
         tbl : [tail : Items, num_buckets : Nat \ {0}, num_items : Int,
                buckets : [0 .. t.tbl.num_buckets - 1 -> Bucket],
                ideal_chain_maxlen : Nat, ineff_expands : Nat, noexpand : BOOLEAN]]

NodeAt(list, i) == IF i \in DOMAIN list THEN list[i] ELSE NULL

(* The items of the list are linked one to the next in both directions,    *)
(* none is in it twice, and NULL is at both ends.                          *)
Linked(list, next, prev) ==
  /\ list \in Seq(Items)
  /\ \A i, j \in DOMAIN list : list[i] = list[j] => i = j
  /\ \A i \in DOMAIN list : /\ next[list[i]] = NodeAt(list, i + 1)
                            /\ prev[list[i]] = NodeAt(list, i - 1)

OrderIs(t, order) ==
  /\ Linked(order, t.next, t.prev)
  /\ order # <<>>
  /\ t.head = order[1] /\ t.tbl.tail = order[Len(order)]

ChainIs(t, b, chain) ==
  /\ Linked(chain, t.hh_next, t.hh_prev)
  /\ t.tbl.buckets[b].hh_head = NodeAt(chain, 1)
  /\ t.tbl.buckets[b].count = Len(chain)

(* The bucket that the item belongs to has it, and no other does.          *)
ChainsAre(t, hash, chains) ==
  /\ DOMAIN chains = 0 .. t.tbl.num_buckets - 1
  /\ \A b \in DOMAIN chains :
       /\ ChainIs(t, b, chains[b])
       /\ \A i \in DOMAIN chains[b] : ToBkt(t, hash[KeyOf(chains[b][i])]) = b

Has(list, item) == \E i \in DOMAIN list : list[i] = item

(* A table that is not empty is these lists: each item of the application  *)
(* order hangs in one chain, the one of its hash value.                    *)
Represents(t, hash, order, chains) ==
  /\ IsTable(t)
  /\ OrderIs(t, order)
  /\ ChainsAre(t, hash, chains)
  /\ \A item \in Items :
       Has(order, item) <=> Has(chains[ToBkt(t, hash[KeyOf(item)])], item)
  /\ t.tbl.num_items = Len(order)
=============================================================================
