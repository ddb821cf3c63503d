----------------------------- MODULE OrderedHash -----------------------------
(***************************************************************************)
(* What uthash.h promises of a table: it is a sequence of items, at most   *)
(* one for a key, in application order.  An item that is added comes last, *)
(* or where the order puts it; deleting one leaves the others in place;    *)
(* sorting is stable.                                                      *)
(***************************************************************************)
EXTENDS Integers, SequencesExt

CONSTANTS Keys, Values, greater

VARIABLE entries

Key(entry) == entry[1]

HasKey(key) == \E i \in DOMAIN entries : Key(entries[i]) = key

Others(key) ==
  IF HasKey(key)
    THEN RemoveAt(entries, CHOOSE i \in DOMAIN entries : Key(entries[i]) = key)
    ELSE entries

(* The place of an entry in a sequence: before the first greater one.      *)
Placed(seq, entry) ==
  LET place == SelectInSeq(seq, LAMBDA other : <<other, entry>> \in greater)
  IN IF place = 0 THEN Append(seq, entry) ELSE InsertAt(seq, place, entry)

Init == entries = <<>>

Add(entry) ==
  /\ ~HasKey(Key(entry))
  /\ entries' \in {Append(entries, entry), Placed(entries, entry)}

Remove1(key) == HasKey(key) /\ entries' = Others(key)

Replace(entry) ==
  entries' \in {Append(Others(Key(entry)), entry), Placed(Others(Key(entry)), entry)}

(* The permutation of the entries that respects the order and leaves equal *)
(* ones as they were.                                                      *)
SortStably ==
  /\ Len(entries') = Len(entries) /\ ToSet(entries') = ToSet(entries)
  /\ \A i, j \in DOMAIN entries' : i < j => <<entries'[i], entries'[j]>> \notin greater
  /\ \A i, j \in DOMAIN entries : i < j =>
       \/ <<entries[i], entries[j]>> \in greater
       \/ \E m, n \in DOMAIN entries' :
            m < n /\ entries'[m] = entries[i] /\ entries'[n] = entries[j]

Empty == entries' = <<>>

Next ==
  \/ \E entry \in Keys \X Values : Add(entry) \/ Replace(entry)
  \/ \E key \in Keys : Remove1(key)
  \/ SortStably
  \/ Empty

Spec == Init /\ [][Next]_entries
=============================================================================
