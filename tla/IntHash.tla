------------------------------- MODULE IntHash -------------------------------
(***************************************************************************)
(* The integer hash table of tool/hash.h: one uthash table whose entries   *)
(* carry a key and a value.  A table is the function from its keys to      *)
(* their values.  The buckets of uthash are not modelled: HASH_FIND_INT,   *)
(* HASH_ADD_INT and HASH_DEL are the lookup, the insertion and the removal *)
(* of a key.                                                               *)
(***************************************************************************)
EXTENDS Functions

(* A table variable starts as the null pointer, which is the empty table.  *)
EmptyHash == [k \in {} |-> k]

(* find_in_hash returns a pointer into the entry, or NULL when none has    *)
(* this key.                                                               *)
InHash(hash, key) == key \in DOMAIN hash

(* add_to_hash inserts only when the key is absent: the value of a key     *)
(* that is already there is NOT replaced.                                  *)
AddToHash(hash, key, value) ==
  IF InHash(hash, key)
    THEN hash
    ELSE [k \in DOMAIN hash \cup {key} |-> IF k = key THEN value ELSE hash[k]]

(* delete_from_hash removes the entry of the key, if any.                  *)
DeleteFromHash(hash, key) == Restrict(hash, DOMAIN hash \ {key})

(* What a table of the program always is: keys in K, values in V.          *)
IsHash(hash, K, V) ==
  /\ DOMAIN hash \subseteq K
  /\ hash \in [DOMAIN hash -> V]
=============================================================================
