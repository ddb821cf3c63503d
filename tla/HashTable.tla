------------------------------ MODULE HashTable ------------------------------
(***************************************************************************)
(* The hash tables of tool/hash.h down to the lists of uthash: the         *)
(* functions add_to_hash, find_in_hash, delete_from_hash and clear_hash    *)
(* over UtHash, and the other operations that uthash offers to a user of   *)
(* the table.  One table, which one thread uses.                           *)
(*                                                                         *)
(* clear_hash is a loop, one action per round, since it frees the items it *)
(* walks over.  malloc failing ends the process (uthash_fatal).            *)
(***************************************************************************)
EXTENDS UtHash

CONSTANTS
  HashFunctions,  (* what HASH_JEN may be: functions from keys to Nat      *)
  Ranks,          (* a number for each key, which a cmpfcn compares        *)
  MaxBuckets      (* bound: no item is added to a table with more buckets  *)

ASSUME FunctionAssumption ==
  /\ HashFunctions \subseteq [Keys -> Nat]
  /\ Ranks \in [Keys -> Nat]

VARIABLES
  hash,     (* the hash function                                           *)
  table,    (* what the variable of the program points to                  *)
  current,  (* clear_hash: the item of this round, NULL outside it         *)
  tmp       (* clear_hash: the item of the next round                      *)

vars == <<hash, table, current, tmp>>

ByRank == {pair \in Items \X Items : Ranks[KeyOf(pair[1])] > Ranks[KeyOf(pair[2])]}

Init ==
  /\ hash \in HashFunctions
  /\ table = EmptyTable
  /\ current = NULL /\ tmp = NULL

Idle == current = NULL

MayAdd == Idle /\ table.tbl.num_buckets <= MaxBuckets

(* The program.                                                            *)

AddToHash(key, value) ==
  /\ MayAdd
  /\ table' = IF Find(table, hash, key) = NULL
                THEN Add(table, hash, <<key, value>>)
                ELSE table
  /\ UNCHANGED <<hash, current, tmp>>

DeleteFromHash(key) ==
  LET item == Find(table, hash, key)
  IN /\ Idle
     /\ item # NULL
     /\ table' = Free(Delete(table, hash, item), item)
     /\ UNCHANGED <<hash, current, tmp>>

(* HASH_ITER: the next item is read before the body of the loop runs.      *)
StartClear ==
  /\ Idle
  /\ table.head # NULL
  /\ current' = table.head /\ tmp' = table.next[table.head]
  /\ UNCHANGED <<hash, table>>

ClearOne ==
  /\ current # NULL
  /\ table' = Free(Delete(table, hash, current), current)
  /\ current' = tmp
  /\ tmp' = IF tmp = NULL THEN NULL ELSE table'.next[tmp]
  /\ UNCHANGED hash

(* What uthash offers besides.                                             *)

UseInOrder(key, value) ==
  /\ MayAdd
  /\ Find(table, hash, key) = NULL
  /\ table' = AddInOrder(table, hash, <<key, value>>, ByRank)
  /\ UNCHANGED <<hash, current, tmp>>

UseReplace(key, value) ==
  /\ MayAdd
  /\ \/ table' = Replace(table, hash, <<key, value>>)
     \/ table' = ReplaceInOrder(table, hash, <<key, value>>, ByRank)
  /\ UNCHANGED <<hash, current, tmp>>

UseSort ==
  /\ Idle
  /\ table' = Sort(table, ByRank)
  /\ UNCHANGED <<hash, current, tmp>>

UseClear ==
  /\ Idle
  /\ table' = Clear(table)
  /\ UNCHANGED <<hash, current, tmp>>

Next ==
  \/ \E key \in Keys, value \in Values :
       AddToHash(key, value) \/ UseInOrder(key, value) \/ UseReplace(key, value)
  \/ \E key \in Keys : DeleteFromHash(key)
  \/ StartClear \/ ClearOne
  \/ UseSort \/ UseClear

Spec == Init /\ [][Next]_vars
-----------------------------------------------------------------------------
(* Properties.                                                             *)

(* After every operation the check that uthash has for itself (HASH_FSCK)  *)
(* would pass; besides, tbl->tail is the last item, which HASH_ADD relies  *)
(* on, and each item hangs in the chain that its hash value names, and in  *)
(* no other, where HASH_FIND looks for it.  The walk of clear_hash, which  *)
(* frees what it walks over, is at items that are in the table.            *)
Intact ==
  /\ Fsck(table)
  /\ {current, tmp} \subseteq Members(table) \cup {NULL}
  /\ table.head # NULL =>
       /\ Represents(table, hash, AppOrder(table), Chains(table))
       /\ \A item \in Members(table) : Find(table, hash, KeyOf(item)) = item

(* A chain is never longer than its bucket may be before it asks for an    *)
(* expansion, unless expansion is inhibited: the bound on the chain length *)
(* that the comment of HASH_EXPAND_BUCKETS calls the essence of the table. *)
(* The bound is a multiple of HASH_BKT_CAPACITY_THRESH, or of the ideal    *)
(* length of the last expansion where that is the larger one.              *)
ChainsBounded == table.head # NULL => Bounded(table)

(* HASH_SELECT builds a table that passes the same check and holds exactly *)
(* the items of the first one that meet the condition.                     *)
SelectsChosen ==
  \A chosen \in SUBSET Members(table) :
    LET dst == Select(table, hash, chosen)
    IN /\ Fsck(dst)
       /\ Members(dst) = chosen
       /\ \A item \in chosen : Find(dst, hash, KeyOf(item)) = item

(* What find_in_hash finds.                                                *)
Contents ==
  [key \in {k \in Keys : Find(table, hash, k) # NULL} |->
     ValueOf(Find(table, hash, key))]

(* To its callers a table is the function from keys to values that IntHash *)
(* takes it for, whatever HASH_JEN is, however the keys collide and        *)
(* whenever the buckets are expanded.                                      *)
Function == INSTANCE IntHash

IsTheFunctionOfIntHash ==
  [][/\ \A key \in Keys, value \in Values :
          AddToHash(key, value) =>
            Contents' = Function!AddToHash(Contents, key, value)
     /\ \A key \in Keys :
          DeleteFromHash(key) => Contents' = Function!DeleteFromHash(Contents, key)
     /\ (ClearOne /\ tmp = NULL) => Contents' = Function!EmptyHash]_vars

(* A table is what uthash.h promises: a sequence of items, to which adding *)
(* appends or inserts, and which a sort rearranges stably.                 *)
Ordered == INSTANCE OrderedHash WITH entries <- AppOrder(table), greater <- ByRank

ImplementsOrderedHash == Ordered!Spec
=============================================================================
