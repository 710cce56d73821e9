-------------------------- MODULE MCAuthorization --------------------------
(* Authorization on small instances: the system account, and an address    *)
(* that two accounts have one after the other.                             *)
EXTENDS Authorization, TLC

CONSTANTS sys, first, second, sysEmail, email, superuser, self, custom

MCAccounts == {sys, first, second}
MCEmailOf  == (sys :> sysEmail) @@ (first :> email) @@ (second :> email)

Symmetry == Permutations(Requests) \cup Permutations(Grants)
=============================================================================
