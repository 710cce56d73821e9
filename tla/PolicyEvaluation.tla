---------------------------- MODULE PolicyEvaluation ----------------------------
(***************************************************************************)
(* Decisions while policies come and go and the clock runs: what the       *)
(* validator, the evaluator and the filter of the lists owe each other.    *)
(***************************************************************************)
EXTENDS PolicyConditions, FiniteSets

CONSTANTS
    Policies,     \* policies somebody may write: [actions, resource_type, conditions]
    Users,        \* e-mail addresses
    Resources,    \* resources a route or a batch check passes; None for none
    Contexts,     \* request contexts; None where the route builds none
    Rows,         \* rows of companies: [company_id, group_root_id]
    Actions, ResourceTypes,
    MaxNow,       \* bound: the last hour of the clock
    MaxPolicies   \* bound: policies stored at a time

ASSUME ScopesAreObjects == \A row \in Rows : resource_scope_dict(row) # None

ASSUME BoundsAssumption == MaxNow \in Nat /\ MaxPolicies \in Nat

VARIABLES
    stored,   \* the active policies in the table
    now       \* hours since the first midnight (UTC)

vars == <<stored, now>>

TypeOK == stored \subseteq Policies /\ now \in 0 .. MaxNow

-----------------------------------------------------------------------------
(* Policies come and go, and the clock runs.                               *)

Init == stored = {} /\ now = 0

\* create_policy, and the definition that update_policy leaves: validated
\* before it is written.
create_policy(p) ==
    /\ Cardinality(stored) < MaxPolicies
    /\ validate_conditions(p.conditions)
    /\ stored' = stored \cup {p}
    /\ UNCHANGED now

\* delete_policy, and a deactivation.
delete_policy(p) ==
    /\ p \in stored
    /\ stored' = stored \ {p}
    /\ UNCHANGED now

Tick ==
    /\ now < MaxNow
    /\ now' = now + 1
    /\ UNCHANGED stored

Next == (\E p \in Policies : create_policy(p) \/ delete_policy(p)) \/ Tick

Spec == Init /\ [][Next]_vars

-----------------------------------------------------------------------------
(* Properties: whatever of the stored policies a user holds.               *)

\* No stored policy makes a decision raise, on whatever resource and context:
\* what the validator lets in is what the handlers can evaluate.  A policy
\* that did would turn away every user it is assigned to, whatever other
\* policies grant them.
EveryDecisionIsMade ==
    \A action \in Actions, type \in ResourceTypes, user \in Users,
       resource \in Resources, context \in Contexts :
        evaluate_detailed(stored, action, type, user, resource, context, now).denial_reason
            # "evaluation_error"

\* An action somebody may hand on is one he holds on every resource and in
\* every context at this hour: assert_authorized_to_grant asks without either,
\* which is the hardest way to ask.
HandedOnOnlyIfHeldEverywhere ==
    \A held \in SUBSET stored, action \in Actions, type \in ResourceTypes, user \in Users :
        may_grant(held, action, type, user, now) =>
            \A resource \in Resources, context \in Contexts :
                authorize(held, action, type, user, resource, context, now)

\* Another policy never takes a grant away: there is no explicit deny.
MorePoliciesGrantMore ==
    \A held \in SUBSET stored, action \in Actions, type \in ResourceTypes, user \in Users,
       resource \in Resources, context \in Contexts :
        authorize(held, action, type, user, resource, context, now) =>
            authorize(stored, action, type, user, resource, context, now)

\* The policies the application's own shapes allow (access/scope.py:10-16):
\* no condition, or resource_attributes with exactly one of the two keys.
SeededShape(policy) ==
    \/ policy.conditions \in {None, Empty}
    \/ /\ policy.conditions # Junk
       /\ DOMAIN policy.conditions = {"resource_attributes"}
       /\ attributes(policy) # Junk
       /\ DOMAIN attributes(policy) \in {{"company_id"}, {"group_root_id"}}

\* A policy that says of a company at least which one or which group.
NamesCompanies(policy) ==
    attributes(policy) = Empty \/ DOMAIN attributes(policy) \cap {"company_id", "group_root_id"} # {}

\* A company that can be opened is listed: get_company_scope reads only the
\* two keys of a policy's conditions and misses no company by it.
OpenedCompaniesAreListed ==
    \A held \in SUBSET {p \in stored : NamesCompanies(p)}, row \in Rows,
       action \in Actions, type \in ResourceTypes, user \in Users, context \in Contexts :
        authorize(held, action, type, user, resource_scope_dict(row), context, now) =>
            in_scope(row, get_company_scope(held, action, type))

\* A company that is listed can be opened, as long as policies have the
\* application's own shapes.
ListedCompaniesOpen ==
    \A held \in SUBSET {p \in stored : SeededShape(p)}, row \in Rows,
       action \in Actions, type \in ResourceTypes, user \in Users, context \in Contexts :
        in_scope(row, get_company_scope(held, action, type)) =>
            authorize(held, action, type, user, resource_scope_dict(row), context, now)
=============================================================================
