--------------------------- MODULE MCFriendService ---------------------------
(* Small instances of FriendService for TLC.                               *)
EXTENDS FriendService, TLC

CONSTANTS c1, c2, c3, alice, bob, carol

(* One account, or two; carol has none.                                    *)
OneUser  == <<[name |-> alice]>>
TwoUsers == <<[name |-> alice], [name |-> bob]>>

StackValues == {1, 7}

Symmetry == Permutations(Calls)
=============================================================================
