--------------------------- MODULE MCPlaceSearch ---------------------------
(* Small instances of PlaceSearch for TLC.                                  *)
EXTENDS PlaceSearch
CONSTANTS a, b
=============================================================================
