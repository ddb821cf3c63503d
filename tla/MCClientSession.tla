--------------------------- MODULE MCClientSession ---------------------------
(* Small instances of ClientSession for TLC.                               *)
EXTENDS ClientSession

CONSTANTS alice, bob

(* The reply to bob, whose name is long, does not fit the buffer of VeriFy.*)
ShortAndLong == [u \in {alice, bob} |-> IF u = alice THEN 1 ELSE 3]
=============================================================================
