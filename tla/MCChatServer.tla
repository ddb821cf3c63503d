---------------------------- MODULE MCChatServer ----------------------------
(* Small instances of ChatServer for TLC.                                  *)
EXTENDS ChatServer, TLC

CONSTANTS f1, f2, f3, m1, m2, alice, bob, pw

(* Two accounts, or one account and room for one more.                     *)
TwoUsers == <<[name |-> alice, passwd |-> pw], [name |-> bob, passwd |-> pw]>>
OneUser  == <<[name |-> alice, passwd |-> pw]>>

(* What the stack may hold: an id that exists, and the next one.           *)
StackValues == {1, 2}

Symmetry == Permutations(Fds) \cup Permutations(Msgs)
=============================================================================
