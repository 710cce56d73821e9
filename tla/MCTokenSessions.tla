-------------------------- MODULE MCTokenSessions --------------------------
(* Model checking of TokenSessions: chains and requests are interchangeable. *)
EXTENDS TokenSessions, TLC

ChainSymmetry == Permutations(Chains)
Symmetry == Permutations(Chains) \cup Permutations(Requests)
=============================================================================
