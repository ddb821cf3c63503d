------------------------------- MODULE JsonLists -------------------------------
(***************************************************************************)
(* The items of tool/cjson.cpp and the lists of children they are linked   *)
(* into: what adding, inserting, detaching and replacing do to the links,  *)
(* and what it means that a heap holds certain lists.                      *)
(*                                                                         *)
(* The children of an array or object are a list: the parent's child       *)
(* points to the first, next leads to NULL behind the last, and prev of    *)
(* the FIRST child is the last one, so that appending finds the end.       *)
(*                                                                         *)
(* A heap is the value [node, strings, budget, fault]: the cJSON structs,  *)
(* the number of strings that are allocated, how many allocations of the   *)
(* current call still succeed, and whether freed memory was freed again.   *)
(* A function of cJSON maps a heap to [h |-> a heap, ret |-> its result].  *)
(***************************************************************************)
EXTENDS Integers, SequencesExt

CONSTANTS
  Nodes,   (* the cells cJSON_New_Item may return                          *)
  Texts,   (* the contents of strings                                      *)
  Keys,    (* the names of members                                         *)
  Fold,    (* Fold[k]: the name k in lower case                            *)
  NULL

Containers == {"array", "object"}
WithText == {"string", "raw"}
Kinds == Containers \cup WithText \cup {"false", "true", "null", "number"}

ASSUME HeapAssumption ==
  /\ NULL \notin Nodes /\ IsFiniteSet(Nodes)
  /\ NULL \notin Texts \cup Keys /\ Fold \in [Keys -> Keys]

(* cJSON_New_Item zeroes the struct.  Free cells are alike, which one it   *)
(* takes makes no difference.                                              *)
Blank == [alive |-> TRUE, next |-> NULL, prev |-> NULL, child |-> NULL,
          kind |-> "invalid", isref |-> FALSE, constkey |-> FALSE,
          string |-> NULL, value |-> NULL, shares |-> NULL]
Dead == [Blank EXCEPT !.alive = FALSE]

EmptyHeap == [node |-> [n \in Nodes |-> Dead], strings |-> 0, budget |-> 0,
              fault |-> FALSE]

Result(heap, value) == [h |-> heap, ret |-> value]
-----------------------------------------------------------------------------
(* Links.                                                                  *)

SetNext(h, n, item)  == [h EXCEPT !.node[n].next = item]
SetPrev(h, n, item)  == [h EXCEPT !.node[n].prev = item]
SetChild(h, n, item) == [h EXCEPT !.node[n].child = item]

(* The children of an item: from its child on along next.  A list is no    *)
(* longer than there are items; one that has a cycle is cut behind that.   *)
MaxLen == Cardinality(Nodes) + 1

WalkOn(h, first) ==
  [list \in Seq(Nodes) |->
     LET item == IF list = <<>> THEN first ELSE h.node[Last(list)].next
     IN IF item = NULL THEN list ELSE Append(list, item)]

Children(h, parent) ==
  LET walked[n \in 0 .. MaxLen] ==
        IF n = 0 THEN <<>> ELSE WalkOn(h, h.node[parent].child)[walked[n - 1]]
  IN walked[MaxLen]

GetArraySize(h, array) == IF array = NULL THEN 0 ELSE Len(Children(h, array))

GetArrayItem(h, array, index) ==
  IF array # NULL /\ index >= 0 /\ index < GetArraySize(h, array)
    THEN Children(h, array)[index + 1]
    ELSE NULL
-----------------------------------------------------------------------------
(* Adding.                                                                 *)

SuffixObject(h, last, item) == SetPrev(SetNext(h, last, item), item, last)

(* The first item of a list is its own last one.                           *)
StartList(h, array, item) ==
  SetNext(SetPrev(SetChild(h, array, item), item, item), item, NULL)

AppendToList(h, array, item) ==
  LET first == h.node[array].child
  IN SetPrev(SuffixObject(h, h.node[first].prev, item), first, item)

AddItemToArray(h, array, item) ==
  LET first == h.node[array].child
  IN IF item = NULL \/ array = NULL \/ array = item THEN Result(h, FALSE)
     ELSE IF first = NULL THEN Result(StartList(h, array, item), TRUE)
     ELSE IF h.node[first].prev = NULL THEN Result(h, TRUE)
     ELSE Result(AppendToList(h, array, item), TRUE)
-----------------------------------------------------------------------------
(* Taking out, inserting, replacing.                                       *)

DetachForgetsLast(h, parent, item) ==   (* a fault of DetachItemViaPointer *)
  LET node == h.node[item]
      before == IF h.node[parent].child = item THEN SetChild(h, parent, node.next)
                ELSE SetNext(h, node.prev, node.next)
      after == IF node.next = NULL THEN before ELSE SetPrev(before, node.next, node.prev)
  IN SetNext(SetPrev(after, item, NULL), item, NULL)

DetachItemViaPointer(h, parent, item) ==
  LET node  == h.node[item]
      first == h.node[parent].child = item
      before == IF first THEN h ELSE SetNext(h, node.prev, node.next)
      after == IF node.next = NULL THEN before ELSE SetPrev(before, node.next, node.prev)
      ends == CASE first -> SetChild(after, parent, node.next)
                [] ~first /\ node.next = NULL ->
                     SetPrev(after, after.node[parent].child, node.prev)
                [] OTHER -> after
  IN SetNext(SetPrev(ends, item, NULL), item, NULL)

InsertKeepsFirst(h, array, after, newitem) ==   (* a fault of InsertBefore *)
  LET prev == h.node[after].prev
  IN SetNext(SetPrev(SetPrev(SetNext(h, newitem, after), newitem, prev), after, newitem),
             prev, newitem)

InsertBefore(h, array, after, newitem) ==
  LET prev == h.node[after].prev
      linked == SetPrev(SetPrev(SetNext(h, newitem, after), newitem, prev), after, newitem)
  IN IF h.node[array].child = after THEN SetChild(linked, array, newitem)
                                    ELSE SetNext(linked, prev, newitem)

InsertItemInArray(h, array, which, newitem) ==
  LET after == GetArrayItem(h, array, which)
  IN IF which < 0 \/ newitem = NULL THEN Result(h, FALSE)
     ELSE IF after = NULL THEN AddItemToArray(h, array, newitem)
     ELSE IF h.node[array].child # after /\ h.node[after].prev = NULL THEN Result(h, FALSE)
     ELSE Result(InsertBefore(h, array, after, newitem), TRUE)

(* The replacement takes the item's place; cJSON_ReplaceItemViaPointer     *)
(* then deletes the item.                                                  *)
ReplaceLinks(h, parent, item, replacement) ==
  LET node  == h.node[item]
      first == h.node[parent].child = item
      single == node.prev = item
      placed == SetPrev(SetNext(h, replacement, node.next), replacement,
                        IF first /\ single THEN replacement ELSE node.prev)
      after == IF node.next = NULL THEN placed ELSE SetPrev(placed, node.next, replacement)
      before == IF first THEN SetChild(after, parent, replacement)
                ELSE SetNext(after, node.prev, replacement)
      ends == IF ~first /\ node.next = NULL
                THEN SetPrev(before, before.node[parent].child, replacement) ELSE before
  IN SetPrev(SetNext(ends, item, NULL), item, NULL)
-----------------------------------------------------------------------------
(* What it means that a heap holds lists.                                  *)

Cell == [alive : BOOLEAN, isref : BOOLEAN, constkey : BOOLEAN, kind : STRING,
         next : Nodes \cup {NULL}, prev : Nodes \cup {NULL}, child : Nodes \cup {NULL},
         shares : Nodes \cup {NULL}, string : Keys \cup {NULL}, value : Texts \cup {NULL}]

IsHeap(h) ==
  h \in [node : [Nodes -> Cell], strings : Int, budget : Int, fault : BOOLEAN]

NodeAt(list, i) == IF i \in DOMAIN list THEN list[i] ELSE NULL

(* The children of p are the items of the list, in that order.             *)
ListIs(h, p, list) ==
  /\ list \in Seq(Nodes)
  /\ h.node[p].child = NodeAt(list, 1)
  /\ \A i \in DOMAIN list :
       /\ h.node[list[i]].next = NodeAt(list, i + 1)
       /\ h.node[list[i]].prev = IF i = 1 THEN Last(list) ELSE list[i - 1]

(* lists[p] has the children of p, and nothing is a child in two places.   *)
ListsAre(h, lists) ==
  /\ \A p \in DOMAIN lists : ListIs(h, p, lists[p])
  /\ \A p, q \in DOMAIN lists : \A i \in DOMAIN lists[p], j \in DOMAIN lists[q] :
       lists[p][i] = lists[q][j] => p = q /\ i = j

(* The item is in none of the lists, and points nowhere.                   *)
Loose(h, lists, item) ==
  /\ \A p \in DOMAIN lists : item \notin ToSet(lists[p])
  /\ h.node[item].next = NULL /\ h.node[item].prev = NULL
=============================================================================
