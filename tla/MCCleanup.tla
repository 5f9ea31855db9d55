------------------------------ MODULE MCCleanup ------------------------------
(* Instances of Cleanup for TLC.                                           *)
EXTENDS Cleanup

CONSTANTS n1, f1, a1, b1
=============================================================================
