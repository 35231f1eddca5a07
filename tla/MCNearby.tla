------------------------------ MODULE MCNearby ------------------------------
(* Small instances of Nearby for TLC.                                       *)
EXTENDS Nearby
CONSTANTS d1, d2
=============================================================================
