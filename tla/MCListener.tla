------------------------------ MODULE MCListener ------------------------------
(* Small instances of Listener for TLC.                                    *)
EXTENDS Listener

CONSTANTS p1, p2, p3
=============================================================================
