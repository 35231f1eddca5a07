---------------------------- MODULE MCRateLimit ----------------------------
(* Small instances of RateLimit for TLC.                                    *)
EXTENDS RateLimit, TLC
CONSTANTS d1, d2
(* Two drivers that nothing tells apart.                                    *)
Symmetry == Permutations({d1, d2})
=============================================================================
