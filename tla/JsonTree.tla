------------------------------- MODULE JsonTree -------------------------------
(***************************************************************************)
(* A program that builds, changes and frees item trees with the functions  *)
(* of tool/cjson.cpp, one call after the other; any allocation of a call   *)
(* may fail.  The program keeps the rules of cjson.h: it adds an item it   *)
(* owns, to one place and not below itself, deletes what it owns, and      *)
(* leaves an item alone while a reference outside of it shares its         *)
(* children or its string.                                                 *)
(***************************************************************************)
EXTENDS JsonHeap

CONSTANTS
  MadeKinds,   (* the kinds of the items the program creates               *)
  Rarities,    (* names and texts that few items have                      *)
  MaxWeight,   (* bound: live items, the rare ones counted twice           *)
  MaxBudget    (* bound: allocations of one copy before malloc fails       *)

ASSUME ProgramAssumption ==
  /\ MadeKinds \subseteq Kinds /\ Rarities \subseteq Keys \cup Texts
  /\ MaxWeight \in Nat /\ MaxBudget \in Nat

VARIABLES
  h,      (* the heap between two calls                                    *)
  owned,  (* the items the program holds and has to add or delete          *)
  lost    (* references that nobody holds                                  *)

vars == <<h, owned, lost>>

Live == {n \in Nodes : h.node[n].alive}

RECURSIVE Subtree(_)
Subtree(item) ==
  IF h.node[item].isref THEN {item}
  ELSE {item} \cup UNION {Subtree(c) : c \in ToSet(Children(h, item))}

Held == UNION {Subtree(item) : item \in owned}

SharedWith(item) == {r \in Live \ lost : h.node[r].shares = item}

(* The arrays and objects whose list the program may change: the p of the  *)
(* calls below.                                                            *)
Open == {n \in Live \ lost : h.node[n].kind \in Containers /\ ~h.node[n].isref}
          \ UNION {Subtree(n) : n \in {i \in Live : SharedWith(i) # {}}}

(* Nothing outside of the tree shares a part of it.                        *)
Releasable(item) == \A n \in Subtree(item) : SharedWith(n) \subseteq Subtree(item)

Addable(p, item) == p = item \/ p \notin Subtree(item)

Init == h = EmptyHeap /\ owned = {} /\ lost = {}

Rare == {n \in Live : \/ h.node[n].isref \/ h.node[n].constkey
                     \/ {h.node[n].string, h.node[n].value} \cap Rarities # {}}

(* A call that leaves some of its budget does the same with less: only the *)
(* budgets are taken that the call uses up.                                *)
After(result) ==
  /\ result.h.budget = 0
  /\ h' = result.h
  /\ Cardinality(Live') + Cardinality(Rare') <= MaxWeight

(* A call that returns a new item, or NULL.                                *)
Returns(result) ==
  /\ After(result)
  /\ owned' = IF result.ret = NULL THEN owned ELSE owned \cup {result.ret}
  /\ UNCHANGED lost

(* A call that takes an item over when it returns true.                    *)
Takes(item, result) ==
  /\ After(result)
  /\ owned' = IF result.ret THEN owned \ {item} ELSE owned
  /\ UNCHANGED lost

Quietly(heap) == After(Result(heap, NULL)) /\ UNCHANGED <<owned, lost>>
-----------------------------------------------------------------------------
Budgeted(b) == [h EXCEPT !.budget = b]

Create(b, kind, value) == Returns(CreateItem(Budgeted(b), kind, value))

CreateArray(b, values, kind) == Returns(CreateArrayOf(Budgeted(b), values, kind))

CreateShared(b, p) ==
  /\ h.node[p].kind \in Containers
  /\ Returns(CreateChildReference(Budgeted(b), h.node[p].kind, p))

Append1(p, item) ==
  /\ Addable(p, item)
  /\ Takes(item, AddItemToArray(h, p, item))

AddMember(b, p, key, item, constant) ==
  /\ Addable(p, item)
  /\ Takes(item, AddItemToObject(Budgeted(b), p, key, item, constant))

(* A reference may not share a list it is in.                              *)
MayRefer(p, item) == p \notin Subtree(Origin(h, item))

AddReference(b, p, item) ==
  /\ MayRefer(p, item)
  /\ Quietly(AddItemReferenceToArray(Budgeted(b), p, item).h)

AddReferenceMember(b, p, key, item) ==
  LET result == AddItemReferenceToObject(Budgeted(b), p, key, item)
  IN /\ MayRefer(p, item)
     /\ After(result)
     /\ lost' = IF result.ret THEN lost
                ELSE lost \cup {n \in Nodes : result.h.node[n].alive /\ n \notin Live}
     /\ UNCHANGED owned

AddNew(b, p, key, kind, value) ==
  Quietly(AddNewToObject(Budgeted(b), p, key, kind, value).h)

Detach(p, item) ==
  /\ item # NULL
  /\ Returns(Result(DetachItemViaPointer(h, p, item), item))

DetachAt(p, which) == Detach(p, GetArrayItem(h, p, which))

DetachMember(p, key, case_sensitive) ==
  Detach(p, GetObjectItem(h, p, key, case_sensitive))

(* cJSON_DeleteItemFromArray and the like detach and delete.               *)
DeleteChild(p, item) ==
  /\ item # NULL /\ Releasable(item)
  /\ Quietly(Delete(DetachItemViaPointer(h, p, item), item))

DeleteAt(p, which) == DeleteChild(p, GetArrayItem(h, p, which))

DeleteMember(p, key, case_sensitive) ==
  DeleteChild(p, GetObjectItem(h, p, key, case_sensitive))

InsertAt1(p, which, item) ==
  /\ Addable(p, item) /\ p # item
  /\ Takes(item, InsertItemInArray(h, p, which, item))

ReplaceAt1(p, which, item) ==
  /\ Addable(p, item) /\ p # item
  /\ GetArrayItem(h, p, which) # NULL => Releasable(GetArrayItem(h, p, which))
  /\ Takes(item, ReplaceItemInArray(h, p, which, item))

ReplaceMember(b, p, key, item, case_sensitive) ==
  LET old == GetObjectItem(h, p, key, case_sensitive)
  IN /\ Addable(p, item) /\ p # item
     /\ old # NULL => Releasable(old)
     /\ Takes(item, ReplaceItemInObject(Budgeted(b), p, key, item, case_sensitive))

DeleteTree(item) ==
  /\ Releasable(item)
  /\ h' = Delete(h, item)
  /\ owned' = owned \ {item}
  /\ UNCHANGED lost

Copy(b, item, recurse) ==
  Returns(Duplicate(Budgeted(b), item, recurse))

SetText(b, item, text, longer) ==
  /\ SharedWith(item) = {}
  /\ Quietly(SetValuestring(Budgeted(b), item, text, longer).h)

SetBool(item, boolean) ==
  Quietly(SetBoolValue(h, item, boolean))

Places == 0 .. Cardinality(Nodes)

(* malloc fails from some allocation of a call on.                         *)
Creations ==
  \E kind \in MadeKinds : \E text \in IF kind \in WithText THEN Texts ELSE {NULL} :
    \/ \E b \in 0 .. 2 : Create(b, kind, text)
    \/ \E b \in 0 .. 3, p \in Open, key \in Keys : AddNew(b, p, key, kind, text)
    \/ \E b \in 0 .. 5, n \in 0 .. 2 :
         kind \notin Containers /\ CreateArray(b, [i \in 1 .. n |-> text], kind)

Sharing ==
  \E item \in Held :
    \/ \E b \in 0 .. 1 : CreateShared(b, item)
    \/ \E b \in 0 .. 1, p \in Open : AddReference(b, p, item)
    \/ \E b \in 0 .. 2, p \in Open, key \in Keys : AddReferenceMember(b, p, key, item)
    \/ \E b \in 0 .. MaxBudget, recurse \in BOOLEAN : Copy(b, item, recurse)

Placing ==
  \E p \in Open, item \in owned :
    \/ Append1(p, item)
    \/ \E which \in Places : InsertAt1(p, which, item) \/ ReplaceAt1(p, which, item)
    \/ \E b \in 0 .. 1, key \in Keys, flag \in BOOLEAN :
         AddMember(b, p, key, item, flag) \/ ReplaceMember(b, p, key, item, flag)

Removing ==
  \/ \E item \in owned : DeleteTree(item)
  \/ \E p \in Open :
       \/ \E which \in Places : DetachAt(p, which) \/ DeleteAt(p, which)
       \/ \E key \in Keys, flag \in BOOLEAN :
            DetachMember(p, key, flag) \/ DeleteMember(p, key, flag)

Setting ==
  \E item \in Held :
    \/ \E b \in 0 .. 1, text \in Texts, longer \in BOOLEAN : SetText(b, item, text, longer)
    \/ \E boolean \in BOOLEAN : SetBool(item, boolean)

Next == Creations \/ Sharing \/ Placing \/ Removing \/ Setting

Spec == Init /\ [][Next]_vars
-----------------------------------------------------------------------------
(* Properties.                                                             *)

Lists == [p \in {n \in Live : ~h.node[n].isref} |-> Children(h, p)]

(* Every list is closed: prev of the first is the last, prev of any other  *)
(* is the one before; and each live item is in one place, in the hands of  *)
(* the program or in one list.  cJSON_AddItemToArray finds the end through *)
(* prev and would drop an item without a word were it NULL.  A reference   *)
(* shares the list that its original has now.                              *)
WellLinked ==
  /\ IsHeap(h) /\ ListsAre(h, Lists)
  /\ \A n \in Live : n \in owned \cup lost \/ \E p \in DOMAIN Lists : n \in ToSet(Lists[p])
  /\ \A n \in owned \cup lost : Loose(h, Lists, n)
  /\ \A p \in DOMAIN Lists : \A n \in ToSet(Lists[p]) : n \in Live /\ h.node[n].kind \in Kinds
  /\ \A r \in Held : h.node[r].isref =>
       h.node[r].shares \in Held /\ h.node[r].child = h.node[h.node[r].shares].child

(* Whatever fails in a call, nothing is freed twice and nothing is left    *)
(* behind: what is allocated is what the trees of the program hold.  The   *)
(* one exception is a reference that AddItemReferenceToObject made and     *)
(* could not add.                                                          *)
NothingLeaks ==
  /\ ~h.fault
  /\ Live = Held \cup lost
  /\ \A r \in lost : h.node[r].isref
  /\ LET total[S \in SUBSET Live] ==
           IF S = {} THEN 0
           ELSE LET n == CHOOSE n \in S : TRUE
                IN StringsOf(h.node[n]) + total[S \ {n}]
     IN h.strings = total[Live]

(* What the calls that name a place do to the list of the parent, for any  *)
(* place, also beyond its end, and for the first, the last and the only    *)
(* item of it.                                                             *)
ListsAsNamed ==
  \A p \in Open, which \in Places :
    LET list == Children(h, p)
        In(heap) == Children(heap, p)
        inside == which + 1 \in DOMAIN list
    IN /\ inside => In(DetachItemViaPointer(h, p, list[which + 1])) = RemoveAt(list, which + 1)
       /\ \A item \in owned \ {p} : Addable(p, item) =>
            /\ In(AddItemToArray(h, p, item).h) = Append(list, item)
            /\ In(InsertItemInArray(h, p, which, item).h) =
                 IF inside THEN InsertAt(list, which + 1, item) ELSE Append(list, item)
            /\ inside /\ Releasable(list[which + 1]) =>
                 In(ReplaceItemInArray(h, p, which, item).h) = ReplaceAt(list, which + 1, item)

(* What a tree says: a reader of it sees the members of an object by name  *)
(* and the elements of an array by place.                                  *)
Names(item) == {h.node[c].string : c \in ToSet(Children(h, item))}

RECURSIVE Meaning(_, _)
Meaning(heap, item) ==
  LET node == heap.node[item]
      list == Children(heap, item)
  IN CASE node.kind = "array" -> <<"array", [i \in DOMAIN list |-> Meaning(heap, list[i])]>>
       [] node.kind = "object" ->
            <<"object", {<<heap.node[c].string, Meaning(heap, c)>> : c \in ToSet(list)}>>
       [] OTHER -> <<node.kind, node.value>>

(* No two members of an object have one name, and all have one.            *)
RECURSIVE Proper(_)
Proper(item) ==
  LET list == Children(h, item)
  IN /\ h.node[item].kind = "object" =>
          NULL \notin Names(item) /\ Cardinality(Names(item)) = Len(list)
     /\ \A c \in ToSet(list) : Proper(c)

(* cJSON_Compare tells, of trees whose members can be told apart by name,  *)
(* exactly those apart that say different things.                          *)
CompareIsEquality ==
  \A a, b \in Held : Proper(a) /\ Proper(b) =>
    (Compare(h, a, b, TRUE) <=> Meaning(h, a) = Meaning(h, b))

(* A copy says the same as its original and shares nothing with it, also   *)
(* when that has references in it; and the original is left as it was.     *)
CopiesAreTrue ==
  \A item \in Held :
    LET copy == Duplicate([h EXCEPT !.budget = 3 * Cardinality(Nodes)], item, TRUE)
    IN copy.ret # NULL =>
         /\ Meaning(copy.h, copy.ret) = Meaning(h, item)
         /\ \A n \in Live : copy.h.node[n] = h.node[n]
         /\ \A n \in Nodes \ Live :
              copy.h.node[n].alive => ~copy.h.node[n].isref
                /\ {copy.h.node[n].next, copy.h.node[n].child} \cap Live = {}
=============================================================================
