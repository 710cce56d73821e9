---------------------------- MODULE MCBalanceSheets ----------------------------
(* BalanceSheets on small instances: a manager of everything, and a head   *)
(* of the group of company 1.                                              *)
EXTENDS BalanceSheets, TLC

CONSTANTS manager, head

Everything == {"company:create", "company:update", "company:delete",
               "balance_sheet:import", "balance_sheet:delete"}

MCHeld ==
    (manager :> {[actions |-> Everything, resource_type |-> "*", conditions |-> Access!Empty]}) @@
    (head    :> {[actions |-> Everything, resource_type |-> "*",
                  conditions |-> [resource_attributes |-> [group_root_id |-> 1]]]})

Symmetry == Permutations(Requests)
=============================================================================
