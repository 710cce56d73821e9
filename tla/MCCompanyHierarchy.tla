------------------------- MODULE MCCompanyHierarchy -------------------------
(* CompanyHierarchy on small instances.                                    *)
EXTENDS CompanyHierarchy, TLC

Symmetry == Permutations(Requests)
=============================================================================
