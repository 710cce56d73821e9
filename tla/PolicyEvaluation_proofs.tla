------------------------- MODULE PolicyEvaluation_proofs -------------------------
(***************************************************************************)
(* Theorems about PolicyEvaluation, for all policies, resources, contexts  *)
(* and rows.  All rest on one invariant, that every stored policy has been *)
(* through the validator, and on two facts about the handlers: a validated *)
(* value raises nowhere, and one that holds without a resource and without *)
(* a context holds with any.                                               *)
(***************************************************************************)
EXTENDS PolicyEvaluation, TLAPS

Validated == \A p \in stored : validate_conditions(p.conditions)

-----------------------------------------------------------------------------
(* One condition.                                                          *)

\* A handler given what the validator lets in does not raise.
LEMMA ValidNeverRaises ==
    ASSUME NEW key, NEW value, valid(key, value),
           NEW user, NEW resource, NEW context, NEW hour
    PROVE  condition(key, value, user, resource, context, hour) # "raises"
<1> USE DEF Verdict
<1>1. self_only(value, user, resource) # "raises" BY DEF self_only
<1>2. time(value, hour) # "raises" BY DEF time
<1>3. date_range(value, hour) # "raises" BY DEF date_range
<1>4. network(value, context) # "raises" BY DEF network
<1>5. value # Junk => /\ resource_attributes(value, resource) # "raises"
                      /\ context_attributes(value, context) # "raises"
                      /\ security_context(value, context) # "raises"
  BY DEF resource_attributes, context_attributes, security_context
<1>6. key \in {"resource_attributes", "context_attributes", "security_context"} => value # Junk
  BY DEF valid, Object
<1> QED BY <1>1, <1>2, <1>3, <1>4, <1>5, <1>6 DEF condition

\* A condition that holds with neither resource nor context holds anyway.
LEMMA HoldsWithoutHoldsWith ==
    ASSUME NEW key, NEW value, valid(key, value),
           NEW user, NEW resource, NEW context, NEW hour,
           condition(key, value, user, None, None, hour) = "holds"
    PROVE  condition(key, value, user, resource, context, hour) = "holds"
<1>1. CASE key = "self_only"
  <2>1. value = FALSE BY <1>1 DEF condition, self_only, Verdict
  <2> QED BY <1>1, <2>1 DEF condition, self_only, Verdict
<1>2. CASE key \in {"resource_attributes", "context_attributes", "security_context"}
  <2>1. value # Empty /\ value # Junk BY <1>2 DEF valid, Object
  <2>2. condition(key, value, user, None, None, hour) = "fails"
    BY <1>2, <2>1 DEF condition, resource_attributes, context_attributes, security_context
  <2> QED BY <2>2
<1>3. CASE key = "network"
  <2>1. network(value, None) = "fails" BY DEF network, Verdict
  <2> QED BY <1>3, <2>1 DEF condition
<1>4. CASE key \in {"time", "date_range"}
  BY <1>4 DEF condition
<1>5. CASE key \notin {"self_only", "resource_attributes", "context_attributes",
                       "security_context", "network", "time", "date_range"}
  BY <1>5 DEF valid
<1> QED BY <1>1, <1>2, <1>3, <1>4, <1>5

-----------------------------------------------------------------------------
(* One policy.                                                             *)

\* The conditions of a validated policy: satisfied or not, never an error.
LEMMA ConditionsDecide ==
    ASSUME NEW conditions, validate_conditions(conditions),
           NEW user, NEW resource, NEW context, NEW hour
    PROVE  /\ evaluate_conditions(conditions, user, resource, context, hour) # "raises"
           /\ (evaluate_conditions(conditions, user, resource, context, hour) = "holds")
                <=> \/ conditions = None
                    \/ \A key \in DOMAIN conditions :
                         condition(key, conditions[key], user, resource, context, hour) = "holds"
<1>1. CASE conditions = None
  BY <1>1, NullAssumption DEF evaluate_conditions
<1>2. CASE conditions # None
  <2>1. conditions # Junk /\ \A key \in DOMAIN conditions : valid(key, conditions[key])
    BY <1>2 DEF validate_conditions
  <2>2. \A key \in DOMAIN conditions :
          condition(key, conditions[key], user, resource, context, hour) # "raises"
    BY <2>1, ValidNeverRaises
  <2> QED BY <1>2, <2>1, <2>2 DEF evaluate_conditions, Verdict
<1> QED BY <1>1, <1>2

\* A decision over validated policies: one applicable policy that holds.
LEMMA OnePolicyDecides ==
    ASSUME NEW held, \A p \in held : validate_conditions(p.conditions),
           NEW action, NEW resource_type, NEW user, NEW resource, NEW context, NEW hour
    PROVE  /\ evaluate_detailed(held, action, resource_type, user, resource, context,
                                hour).denial_reason # "evaluation_error"
           /\ authorize(held, action, resource_type, user, resource, context, hour)
                <=> \E p \in held :
                      /\ applies(p, action, resource_type)
                      /\ evaluate_conditions(p.conditions, user, resource, context, hour) = "holds"
<1>1. \A p \in held :
        evaluate_conditions(p.conditions, user, resource, context, hour) # "raises"
  BY ConditionsDecide
<1> QED BY <1>1, NullAssumption DEF evaluate_detailed, authorize

-----------------------------------------------------------------------------
(* The invariant.                                                          *)

\* TypeOK: policies in the table are policies somebody wrote, and the clock
\* keeps its bound.
THEOREM TypeCorrect == Spec => []TypeOK
<1>1. Init => TypeOK BY BoundsAssumption DEF Init, TypeOK
<1>2. TypeOK /\ [Next]_vars => TypeOK'
  BY BoundsAssumption DEF TypeOK, Next, vars, create_policy, delete_policy, Tick
<1> QED BY <1>1, <1>2, PTL DEF Spec

\* Nothing is stored that the validator has not let in.
LEMMA AlwaysValidated == Spec => []Validated
<1>1. Init => Validated BY DEF Init, Validated
<1>2. Validated /\ [Next]_vars => Validated'
  BY DEF Validated, Next, vars, create_policy, delete_policy, Tick
<1> QED BY <1>1, <1>2, PTL DEF Spec

-----------------------------------------------------------------------------
(* The properties.                                                         *)

\* EveryDecisionIsMade: no stored policy makes a decision raise.
THEOREM DecisionsAreMade == Spec => []EveryDecisionIsMade
<1>1. Validated => EveryDecisionIsMade
  BY OnePolicyDecides DEF Validated, EveryDecisionIsMade
<1> QED BY <1>1, AlwaysValidated, PTL

\* HandedOnOnlyIfHeldEverywhere: what assert_authorized_to_grant accepts, the
\* caller holds on every resource and in every context.
THEOREM HandedOnIsHeld == Spec => []HandedOnOnlyIfHeldEverywhere
<1>1. ASSUME Validated,
             NEW held \in SUBSET stored, NEW action, NEW type, NEW user, NEW resource, NEW context,
             may_grant(held, action, type, user, now)
      PROVE  authorize(held, action, type, user, resource, context, now)
  <2>1. \A p \in held : validate_conditions(p.conditions) BY <1>1 DEF Validated
  <2>2. PICK p \in held :
          /\ applies(p, action, type)
          /\ evaluate_conditions(p.conditions, user, None, None, now) = "holds"
    BY <1>1, <2>1, OnePolicyDecides DEF may_grant
  <2>3. CASE p.conditions = None
    BY <2>1, <2>2, <2>3, OnePolicyDecides, ConditionsDecide
  <2>4. CASE p.conditions # None
    <3>1. \A key \in DOMAIN p.conditions :
            /\ valid(key, p.conditions[key])
            /\ condition(key, p.conditions[key], user, None, None, now) = "holds"
      BY <2>1, <2>2, <2>4, ConditionsDecide DEF validate_conditions
    <3>2. \A key \in DOMAIN p.conditions :
            condition(key, p.conditions[key], user, resource, context, now) = "holds"
      BY <3>1, HoldsWithoutHoldsWith
    <3>3. evaluate_conditions(p.conditions, user, resource, context, now) = "holds"
      BY <2>1, <3>2, ConditionsDecide
    <3> QED BY <2>1, <2>2, <3>3, OnePolicyDecides
  <2> QED BY <2>3, <2>4
<1>2. Validated => HandedOnOnlyIfHeldEverywhere
  BY <1>1 DEF HandedOnOnlyIfHeldEverywhere
<1> QED BY <1>2, AlwaysValidated, PTL

\* MorePoliciesGrantMore: a decision is monotonic in the policies held.
THEOREM GrantsAreMonotone == Spec => []MorePoliciesGrantMore
<1>1. ASSUME Validated,
             NEW held \in SUBSET stored, NEW action, NEW type, NEW user, NEW resource, NEW context,
             authorize(held, action, type, user, resource, context, now)
      PROVE  authorize(stored, action, type, user, resource, context, now)
  <2>1. \A p \in stored : validate_conditions(p.conditions) BY <1>1 DEF Validated
  <2> QED BY <1>1, <2>1, OnePolicyDecides
<1>2. Validated => MorePoliciesGrantMore
  BY <1>1 DEF MorePoliciesGrantMore
<1> QED BY <1>2, AlwaysValidated, PTL

\* OpenedCompaniesAreListed: the filter of the lists misses nothing that the
\* evaluator grants by a policy that names companies.
THEOREM OpenedAreListed == Spec => []OpenedCompaniesAreListed
<1>1. ASSUME Validated,
             NEW held \in SUBSET {p \in stored : NamesCompanies(p)}, NEW row \in Rows,
             NEW action, NEW type, NEW user, NEW context,
             authorize(held, action, type, user, resource_scope_dict(row), context, now)
      PROVE  in_scope(row, get_company_scope(held, action, type))
  <2> DEFINE resource == resource_scope_dict(row)
  <2>1. \A p \in held : validate_conditions(p.conditions) /\ NamesCompanies(p)
    BY <1>1 DEF Validated
  <2>2. PICK p \in held :
          /\ applies(p, action, type)
          /\ evaluate_conditions(p.conditions, user, resource, context, now) = "holds"
    BY <1>1, <2>1, OnePolicyDecides
  <2> DEFINE a == attributes(p)
  <2>3. CASE a = Empty
    BY <2>2, <2>3 DEF in_scope, get_company_scope
  <2>4. CASE a # Empty
    <3>1. /\ p.conditions # None
          /\ "resource_attributes" \in DOMAIN p.conditions
          /\ a = p.conditions["resource_attributes"]
      BY <2>4 DEF attributes
    <3>2. condition("resource_attributes", a, user, resource, context, now) = "holds"
      BY <2>1, <2>2, <3>1, ConditionsDecide
    <3>3. resource_attributes(a, resource) = "holds"
      BY <3>2 DEF condition
    <3>4. \A field \in DOMAIN a : get_field(resource, field) = a[field]
      BY <2>4, <3>3, ScopesAreObjects DEF resource_attributes, EveryFieldMatches, Verdict
    <3>5. /\ "company_id" \in DOMAIN a => a["company_id"] = row.company_id
          /\ "group_root_id" \in DOMAIN a => a["group_root_id"] = row.group_root_id
      BY <3>4 DEF get_field, resource_scope_dict
    <3>6. "company_id" \in DOMAIN a \/ "group_root_id" \in DOMAIN a
      BY <2>1, <2>4 DEF NamesCompanies
    <3> QED BY <2>2, <3>5, <3>6 DEF in_scope, get_company_scope
  <2> QED BY <2>3, <2>4
<1>2. Validated => OpenedCompaniesAreListed
  BY <1>1 DEF OpenedCompaniesAreListed
<1> QED BY <1>2, AlwaysValidated, PTL

\* The domain of a policy's attributes tells whether it has any.
LEMMA EmptyNamesNothing == DOMAIN Empty = {}
BY DEF Empty

\* ListedCompaniesOpen: with the application's own shapes of policies, the
\* filter of the lists shows nothing that the evaluator would refuse.
THEOREM ListedAreOpened == Spec => []ListedCompaniesOpen
<1>1. ASSUME Validated,
             NEW held \in SUBSET {p \in stored : SeededShape(p)}, NEW row \in Rows,
             NEW action, NEW type, NEW user, NEW context,
             in_scope(row, get_company_scope(held, action, type))
      PROVE  authorize(held, action, type, user, resource_scope_dict(row), context, now)
  <2> DEFINE resource == resource_scope_dict(row)
  <2>1. \A p \in held : validate_conditions(p.conditions) /\ SeededShape(p)
    BY <1>1 DEF Validated
  <2>2. PICK p \in held :
          /\ applies(p, action, type)
          /\ \/ attributes(p) = Empty
             \/ "company_id" \in DOMAIN attributes(p)
                   /\ attributes(p)["company_id"] = row.company_id
             \/ "group_root_id" \in DOMAIN attributes(p)
                   /\ attributes(p)["group_root_id"] = row.group_root_id
    BY <1>1 DEF in_scope, get_company_scope
  <2> DEFINE a == attributes(p)
  <2>3. CASE p.conditions \in {None, Empty}
    <3>1. evaluate_conditions(p.conditions, user, resource, context, now) = "holds"
      BY <2>1, <2>3, ConditionsDecide, EmptyNamesNothing
    <3> QED BY <2>1, <2>2, <3>1, OnePolicyDecides
  <2>4. CASE p.conditions \notin {None, Empty}
    <3>1. /\ DOMAIN p.conditions = {"resource_attributes"}
          /\ a = p.conditions["resource_attributes"]
          /\ a # Junk
          /\ DOMAIN a \in {{"company_id"}, {"group_root_id"}}
      BY <2>1, <2>4 DEF SeededShape, attributes
    <3>2. a # Empty
      BY <3>1, EmptyNamesNothing
    <3>3. \A field \in DOMAIN a : get_field(resource, field) = a[field]
      BY <2>2, <3>1, <3>2 DEF get_field, resource_scope_dict
    <3>4. resource_attributes(a, resource) = "holds"
      BY <3>1, <3>2, <3>3, ScopesAreObjects DEF resource_attributes, EveryFieldMatches, Verdict
    <3>5. \A key \in DOMAIN p.conditions :
            condition(key, p.conditions[key], user, resource, context, now) = "holds"
      BY <3>1, <3>4 DEF condition
    <3>6. evaluate_conditions(p.conditions, user, resource, context, now) = "holds"
      BY <2>1, <3>5, ConditionsDecide
    <3> QED BY <2>1, <2>2, <3>6, OnePolicyDecides
  <2> QED BY <2>3, <2>4
<1>2. Validated => ListedCompaniesOpen
  BY <1>1 DEF ListedCompaniesOpen
<1> QED BY <1>2, AlwaysValidated, PTL
=============================================================================
