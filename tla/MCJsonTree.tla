------------------------------ MODULE MCJsonTree ------------------------------
(* Small instances of JsonTree for TLC.                                    *)
EXTENDS JsonTree, TLC

CONSTANTS n1, n2, n3, n4

(* Cells differ by nothing but their address.                              *)
Cells == Permutations(Nodes)

(* Two names that differ in case.                                          *)
MCKeys == {"k", "K"}
MCFold == [key \in MCKeys |-> "k"]
=============================================================================
