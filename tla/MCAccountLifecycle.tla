------------------------- MODULE MCAccountLifecycle -------------------------
(* AccountLifecycle on small instances.                                    *)
EXTENDS AccountLifecycle, TLC

CONSTANTS r1, r2

Symmetry == Permutations(Requests)
=============================================================================
