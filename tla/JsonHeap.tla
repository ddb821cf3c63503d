------------------------------- MODULE JsonHeap -------------------------------
(***************************************************************************)
(* The item trees of tool/cjson.cpp, over the lists of JsonLists: creating, *)
(* naming, copying, comparing and deleting.  A reference is an item that   *)
(* shares the children and the string of another one, which keeps owning   *)
(* them: shares names that item.                                           *)
(***************************************************************************)
EXTENDS JsonLists

FreeCells(h) == {n \in Nodes : ~h.node[n].alive}

NewItem(h) ==
  IF h.budget = 0 \/ FreeCells(h) = {} THEN Result(h, NULL)
  ELSE LET n == CHOOSE i \in FreeCells(h) : TRUE
       IN Result([h EXCEPT !.node[n] = Blank, !.budget = @ - 1], n)

(* cJSON_strdup: a copy of the text, or NULL.                              *)
Strdup(h, text) ==
  IF h.budget = 0 \/ text = NULL THEN Result(h, NULL)
  ELSE Result([h EXCEPT !.strings = @ + 1, !.budget = @ - 1], text)

OwnsKey(node) == ~node.constkey /\ node.string # NULL
OwnsValue(node) == ~node.isref /\ node.value # NULL /\ node.kind \in WithText

StringsOf(node) == (IF OwnsKey(node) THEN 1 ELSE 0) + (IF OwnsValue(node) THEN 1 ELSE 0)

(* cJSON_Delete frees the item, what follows it and, unless it is a        *)
(* reference, what is below it.                                            *)
RECURSIVE Delete(_, _)
Delete(h, item) ==
  IF item = NULL THEN h
  ELSE LET node  == h.node[item]
           below == IF node.isref THEN h ELSE Delete(h, node.child)
           freed == [below EXCEPT !.node[item] = Dead,
                                  !.strings = @ - StringsOf(node),
                                  !.fault = @ \/ ~node.alive]
       IN Delete(freed, node.next)
-----------------------------------------------------------------------------
(* Looking things up.                                                      *)

SameName(name, string, case_sensitive) ==
  string # NULL /\ IF case_sensitive THEN name = string ELSE Fold[name] = Fold[string]

(* An exact search stops at a child without a name, a search that ignores  *)
(* case goes on behind it.                                                 *)
GetObjectItem(h, object, name, case_sensitive) ==
  IF object = NULL \/ name = NULL THEN NULL
  ELSE LET list  == Children(h, object)
           Name(item) == h.node[item].string
           stops == SelectInSeq(list, LAMBDA item :
                      \/ SameName(name, Name(item), case_sensitive)
                      \/ case_sensitive /\ Name(item) = NULL)
       IN IF stops = 0 \/ Name(list[stops]) = NULL THEN NULL ELSE list[stops]

IsKind(h, item, kind) == item # NULL /\ h.node[item].kind = kind
-----------------------------------------------------------------------------
(* Adding.                                                                 *)

(* The key is copied, or with constant_key shared with the caller; the     *)
(* item's earlier key is freed.                                            *)
AddItemToObject(h, object, string, item, constant_key) ==
  LET dup == IF constant_key THEN Result(h, string) ELSE Strdup(h, string)
      old == IF OwnsKey(h.node[item]) THEN 1 ELSE 0
      keyed == [dup.h EXCEPT !.strings = @ - old,
                             !.node[item].string = dup.ret,
                             !.node[item].constkey = constant_key]
  IN CASE object = NULL \/ string = NULL \/ item = NULL \/ object = item ->
            Result(h, FALSE)
       [] OTHER -> IF dup.ret = NULL THEN Result(h, FALSE)
                   ELSE AddItemToArray(keyed, object, item)

Origin(h, item) == IF h.node[item].isref THEN h.node[item].shares ELSE item

(* The reference takes over everything but the key and the place.          *)
CreateReference(h, item) ==
  LET new == NewItem(h)
  IN IF item = NULL \/ new.ret = NULL THEN Result(h, NULL)
     ELSE Result([new.h EXCEPT !.node[new.ret] =
                    [h.node[item] EXCEPT !.string = NULL, !.isref = TRUE,
                                         !.next = NULL, !.prev = NULL,
                                         !.shares = Origin(h, item)]], new.ret)

AddItemReferenceToArray(h, array, item) ==
  LET ref == CreateReference(h, item)
  IN IF array = NULL THEN Result(h, FALSE) ELSE AddItemToArray(ref.h, array, ref.ret)

(* A reference that cannot be added is not freed.                          *)
AddItemReferenceToObject(h, object, string, item) ==
  LET ref == CreateReference(h, item)
  IN IF object = NULL \/ string = NULL THEN Result(h, FALSE)
     ELSE AddItemToObject(ref.h, object, string, ref.ret, FALSE)

(* cJSON_CreateNull to cJSON_CreateObject.                                 *)
CreateItem(h, kind, value) ==
  LET new == NewItem(h)
      text == Strdup(new.h, value)
      made == [new.h EXCEPT !.node[new.ret].kind = kind,
                            !.node[new.ret].value = IF kind = "number" THEN value ELSE NULL]
  IN CASE new.ret = NULL -> Result(h, NULL)
       [] new.ret # NULL /\ kind \notin WithText -> Result(made, new.ret)
       [] OTHER ->
          IF text.ret = NULL THEN Result(Delete(made, new.ret), NULL)
          ELSE Result([text.h EXCEPT !.node[new.ret].kind = kind,
                                     !.node[new.ret].value = text.ret], new.ret)

(* cJSON_CreateArrayReference, cJSON_CreateObjectReference.                *)
CreateChildReference(h, kind, parent) ==
  LET new == NewItem(h)
  IN IF new.ret = NULL THEN new
     ELSE Result([new.h EXCEPT !.node[new.ret] =
                    [Blank EXCEPT !.kind = kind, !.isref = TRUE,
                                  !.child = h.node[parent].child,
                                  !.shares = Origin(h, parent)]], new.ret)

AddNewKeepsItem(h, object, name, kind, value) ==   (* a fault of AddNewToObject *)
  LET new == CreateItem(h, kind, value)
      added == AddItemToObject(new.h, object, name, new.ret, FALSE)
  IN IF new.ret = NULL THEN Result(h, NULL)
     ELSE Result(added.h, IF added.ret THEN new.ret ELSE NULL)

(* cJSON_AddNullToObject to cJSON_AddArrayToObject.                        *)
AddNewToObject(h, object, name, kind, value) ==
  LET new == CreateItem(h, kind, value)
      added == AddItemToObject(new.h, object, name, new.ret, FALSE)
  IN CASE new.ret = NULL -> Result(h, NULL)
       [] new.ret # NULL -> IF added.ret THEN Result(added.h, new.ret)
                                ELSE Result(Delete(added.h, new.ret), NULL)

(* cJSON_CreateIntArray to cJSON_CreateStringArray: the list is built      *)
(* before its first element is told the last; when an element cannot be    *)
(* created the array is deleted, which only follows next.                  *)
RECURSIVE AddNumbers(_, _, _, _, _)
AddNumbers(h, a, p, values, kind) ==
  IF values = <<>>
    THEN Result(IF p = NULL THEN h ELSE [h EXCEPT !.node[h.node[a].child].prev = p], a)
    ELSE LET n == CreateItem(h, kind, Head(values))
             linked == IF p = NULL THEN [n.h EXCEPT !.node[a].child = n.ret]
                                   ELSE SuffixObject(n.h, p, n.ret)
         IN IF n.ret = NULL THEN Result(Delete(n.h, a), NULL)
            ELSE AddNumbers(linked, a, n.ret, Tail(values), kind)

CreateArrayOf(h, values, kind) ==
  LET a == CreateItem(h, "array", NULL)
  IN IF a.ret = NULL THEN Result(h, NULL) ELSE AddNumbers(a.h, a.ret, NULL, values, kind)
-----------------------------------------------------------------------------
(* Taking out, inserting, replacing.                                       *)

ReplaceItemViaPointer(h, parent, item, replacement) ==
  LET out == ReplaceLinks(h, parent, item, replacement)
  IN CASE parent = NULL \/ item = NULL \/ replacement = NULL -> Result(h, FALSE)
       [] OTHER -> IF h.node[parent].child = NULL THEN Result(h, FALSE)
                   ELSE IF replacement = item THEN Result(h, TRUE)
                   ELSE Result(Delete(out, item), TRUE)

ReplaceItemInArray(h, array, which, newitem) ==
  ReplaceItemViaPointer(h, array, GetArrayItem(h, array, which), newitem)

(* The replacement is renamed before the item is looked for, and stays so  *)
(* when none is found.                                                     *)
ReplaceItemInObject(h, object, string, replacement, case_sensitive) ==
  LET node == h.node[replacement]
      unnamed == [h EXCEPT !.strings = @ - (IF OwnsKey(node) THEN 1 ELSE 0),
                           !.node[replacement].string = NULL]
      dup   == Strdup(unnamed, string)
      named == [dup.h EXCEPT !.node[replacement].string = string,
                             !.node[replacement].constkey = FALSE]
  IN IF dup.ret = NULL THEN Result(unnamed, FALSE)
     ELSE ReplaceItemViaPointer(named, object,
            GetObjectItem(named, object, string, case_sensitive), replacement)
-----------------------------------------------------------------------------
(* cJSON_SetValuestring writes into the string that is there when the new  *)
(* one is no longer than it, and allocates otherwise.                      *)
SetValuestring(h, object, text, longer) ==
  LET node == h.node[object]
      dup  == Strdup(h, text)
  IN CASE object = NULL \/ text = NULL -> Result(h, NULL)
       [] OTHER ->
          IF node.kind # "string" \/ node.isref \/ node.value = NULL THEN Result(h, NULL)
          ELSE IF ~longer THEN Result([h EXCEPT !.node[object].value = text], text)
          ELSE IF dup.ret = NULL THEN Result(h, NULL)
          ELSE Result([dup.h EXCEPT !.strings = @ - 1, !.node[object].value = text], text)

(* cJSON_SetBoolValue *)
SetBoolValue(h, object, boolean) ==
  IF object # NULL /\ h.node[object].kind \in {"false", "true"}
    THEN [h EXCEPT !.node[object].kind = IF boolean THEN "true" ELSE "false"]
    ELSE h

CopiedWhole(node) ==   (* a fault of Copied *)
  [node EXCEPT !.next = NULL, !.prev = NULL, !.child = NULL, !.string = NULL]

Copied(node) == [Blank EXCEPT !.kind = node.kind, !.constkey = node.constkey]

(* cJSON_Duplicate.  A copy of a reference is no reference, it has its own *)
(* copies of what the reference shares.  A failure deletes what is made.   *)
RECURSIVE Duplicate(_, _, _), DuplicateChildren(_, _, _, _)
Duplicate(h, item, recurse) ==
  LET node  == h.node[item]
      new   == NewItem(h)
      value == IF node.kind \in WithText /\ node.value # NULL
                 THEN Strdup(new.h, node.value) ELSE Result(new.h, node.value)
      typed == [value.h EXCEPT !.node[new.ret] = [Copied(node) EXCEPT !.value = value.ret]]
      key   == IF OwnsKey(node) THEN Strdup(typed, node.string)
                                ELSE Result(typed, node.string)
      named == [key.h EXCEPT !.node[new.ret].string = key.ret]
  IN CASE item = NULL -> Result(h, NULL)
       [] OTHER ->
          IF new.ret = NULL THEN Result(h, NULL)
          ELSE IF value.ret = NULL /\ node.value # NULL THEN Result(Delete(typed, new.ret), NULL)
          ELSE IF key.ret = NULL /\ node.string # NULL THEN Result(Delete(named, new.ret), NULL)
          ELSE IF ~recurse THEN Result(named, new.ret)
          ELSE DuplicateChildren(named, new.ret, NULL, Children(h, item))

DuplicateChildren(h, newitem, last, children) ==
  IF children = <<>>
    THEN Result(IF last = NULL THEN h
                ELSE [h EXCEPT !.node[h.node[newitem].child].prev = last], newitem)
    ELSE LET copy == Duplicate(h, Head(children), TRUE)
             linked == IF last = NULL THEN [copy.h EXCEPT !.node[newitem].child = copy.ret]
                                      ELSE SuffixObject(copy.h, last, copy.ret)
         IN IF copy.ret = NULL THEN Result(Delete(copy.h, newitem), NULL)
            ELSE DuplicateChildren(linked, newitem, copy.ret, Tail(children))

RECURSIVE CompareOneWay(_, _, _, _)
CompareOneWay(h, a, b, case_sensitive) ==   (* a fault of Compare *)
  LET x == h.node[a]
      y == h.node[b]
      Same(c, d) == CompareOneWay(h, c, d, case_sensitive)
  IN /\ x.kind = y.kind
     /\ x.kind \in WithText => x.value = y.value
     /\ x.kind = "array" => GetArraySize(h, a) = GetArraySize(h, b)
     /\ \A i \in DOMAIN Children(h, a) :
          LET element == Children(h, a)[i]
              other == IF x.kind = "array" THEN Children(h, b)[i]
                       ELSE GetObjectItem(h, b, h.node[element].string, case_sensitive)
          IN other # NULL /\ Same(element, other)

(* cJSON_Compare: members are compared by name, in both directions.        *)
RECURSIVE Compare(_, _, _, _)
Compare(h, a, b, case_sensitive) ==
  LET x == h.node[a]
      y == h.node[b]
      Same(c, d) == Compare(h, c, d, case_sensitive)
      Among(from, to) == \A i \in DOMAIN Children(h, from) :
        LET element == Children(h, from)[i]
            other == GetObjectItem(h, to, h.node[element].string, case_sensitive)
        IN other # NULL /\ Same(element, other)
  IN /\ x.kind = y.kind /\ x.kind \in Kinds
     /\ \/ a = b
        \/ x.kind \in {"false", "true", "null"}
        \/ x.kind = "number" /\ x.value = y.value
        \/ x.kind \in WithText /\ x.value # NULL /\ x.value = y.value
        \/ /\ x.kind = "array" /\ GetArraySize(h, a) = GetArraySize(h, b)
           /\ \A i \in DOMAIN Children(h, a) : Same(Children(h, a)[i], Children(h, b)[i])
        \/ x.kind = "object" /\ Among(a, b) /\ Among(b, a)
=============================================================================
