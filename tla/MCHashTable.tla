----------------------------- MODULE MCHashTable -----------------------------
(* Small instances of HashTable for TLC.                                   *)
EXTENDS HashTable, TLC

CONSTANTS NumKeys

MCKeys == 1 .. NumKeys

(* All keys in one bucket for ever, in two, each in its own, and in one    *)
(* bucket until the table has eight.                                       *)
MCHashFunctions ==
  {[key \in MCKeys |-> 0], [key \in MCKeys |-> key % 2],
   [key \in MCKeys |-> key], [key \in MCKeys |-> 4 * key]}

(* Two keys are equal for the comparison.                                  *)
MCRanks == [key \in MCKeys |-> (key + 1) \div 2]
=============================================================================
