----------------------------- MODULE MCMapStyle -----------------------------
(* Small instances of MapStyle for TLC: one overlay, of any of the kinds.   *)
EXTENDS MapStyle

CONSTANTS o1
=============================================================================
