------------------------------ MODULE MCMapView ------------------------------
(* Small instances of MapView for TLC.                                      *)
EXTENDS MapView, TLC

CONSTANTS near, far, turned, p, q, light, dark

In == [v \in View |-> IF v = far THEN near ELSE v]
Out == [v \in View |-> IF v = near THEN far ELSE v]
Alike == Permutations(Place) \cup Permutations(Theme)
North == [v \in View |-> IF v = turned THEN near ELSE v]
=============================================================================
