---------------------------- MODULE PolicyConditions ----------------------------
(***************************************************************************)
(* How a decision is computed.  Policies are grants: a decision is ALLOW   *)
(* when the conditions of some applicable policy are satisfied.            *)
(* Conditions are JSON that a validator has seen when the management API   *)
(* wrote it; the handlers that evaluate them are written apart from the    *)
(* validator, and so is the filter that lists use instead of the handlers. *)
(* This module holds all three.                                            *)
(*                                                                         *)
(* A JSON object is a function from its keys.  Junk is a JSON value of a   *)
(* type nobody expects there (truthy, as in "x" or 5), Malformed a string  *)
(* that does not parse, Aware a time of day with an offset ("09:00Z"),     *)
(* Blank the empty string, None an absent key or a JSON null.              *)
(***************************************************************************)
EXTENDS Integers

CONSTANTS
    None, Blank, Junk, Malformed, Aware,
    HoursInDay   \* bound: hours of a day

ASSUME NullAssumption == None \notin {Junk, "evaluation_error"}

ASSUME DayAssumption == HoursInDay \in Nat \ {0}

Empty == <<>>

-----------------------------------------------------------------------------
(* The condition handlers.  Each answers "holds", "fails" or "raises".     *)

Verdict(b) == IF b THEN "holds" ELSE "fails"

\* A resource is a dict or an object: an absent field reads as None.
get_field(object, field) == IF field \in DOMAIN object THEN object[field] ELSE None

EveryFieldMatches(expected, object) ==
    \A field \in DOMAIN expected : get_field(object, field) = expected[field]

self_only(value, user, resource) ==
    Verdict(value = FALSE \/ (resource # None /\ get_field(resource, "email") = user))

resource_attributes(value, resource) ==
    CASE value = Empty   -> "holds"
      [] resource = None -> "fails"
      [] value = Junk    -> "raises"
      [] OTHER           -> Verdict(EveryFieldMatches(value, resource))

context_attributes(value, context) ==
    CASE value = Empty  -> "holds"
      [] context = None -> "fails"
      [] value = Junk   -> "raises"
      [] OTHER          -> Verdict(EveryFieldMatches(value, context))

\* hour is what resolve_current_datetime answers with: the clock's, or the
\* hypothetical one of a context that names a current_time.
\* Whatever is wrong with a value, time, date_range and network deny: they
\* catch every exception.  A bound with an offset does not compare with the
\* naive time of day, which is such an exception.
time(value, hour) ==
    Verdict(/\ value # Junk
            /\ value.start \notin {None, Blank, Malformed, Aware}
            /\ value.end \notin {None, Blank, Malformed, Aware}
            /\ value.timezone # Malformed
            /\ LET offset  == IF value.timezone \in {None, Blank} THEN 0 ELSE value.timezone
                   current == (hour + offset) % HoursInDay
               IN IF value.start <= value.end
                  THEN value.start <= current /\ current <= value.end
                  ELSE value.start <= current \/ current <= value.end)

\* An empty string is no bound, and is not an absent one either.
date_range(value, hour) ==
    Verdict(/\ value # Junk
            /\ ~(value.start = None /\ value.end = None)
            /\ value.start # Malformed
            /\ value.end # Malformed
            /\ LET current == hour \div HoursInDay IN
               /\ value.start \notin {None, Blank} => value.start <= current
               /\ value.end \notin {None, Blank} => current <= value.end)

\* allowed_ips in order, each an address or a range, here the set of the
\* addresses it holds: one that does not parse ends the search.
network(value, context) ==
    Verdict(/\ value # Junk
            /\ context # None
            /\ get_field(context, "ip_address") # None
            /\ \E i \in DOMAIN value :
                 /\ \A j \in DOMAIN value : j <= i => value[j] # Malformed
                 /\ context.ip_address \in value[i])

security_context(value, context) ==
    LET signals == IF context = None THEN None ELSE get_field(context, "security_context") IN
    CASE value = Empty              -> "holds"
      [] signals \in {None, Empty}  -> "fails"
      [] value = Junk               -> "raises"
      [] OTHER                      -> Verdict(\A key \in DOMAIN value :
                                                 key \in DOMAIN signals /\ signals[key] = value[key])

\* default_condition_registry: the handler of a key; an unknown key fails.
condition(key, value, user, resource, context, hour) ==
    CASE key = "self_only"           -> self_only(value, user, resource)
      [] key = "resource_attributes" -> resource_attributes(value, resource)
      [] key = "context_attributes"  -> context_attributes(value, context)
      [] key = "time"                -> time(value, hour)
      [] key = "date_range"          -> date_range(value, hour)
      [] key = "network"             -> network(value, context)
      [] key = "security_context"    -> security_context(value, context)
      [] OTHER                       -> "fails"

-----------------------------------------------------------------------------
(* The evaluation engine.                                                  *)

\* ConditionEvaluationService: every key is evaluated, all must hold.
evaluate_conditions(conditions, user, resource, context, hour) ==
    LET verdict(key) == condition(key, conditions[key], user, resource, context, hour) IN
    CASE conditions = None -> "holds"
      [] conditions = Junk -> "raises"
      [] OTHER ->
           IF \E key \in DOMAIN conditions : verdict(key) = "raises" THEN "raises"
           ELSE Verdict(\A key \in DOMAIN conditions : verdict(key) = "holds")

applies(policy, action, resource_type) ==
    policy.resource_type \in {resource_type, "*"} /\ action \in policy.actions

\* Mutant: one applicable policy whose conditions fail denies.
evaluate_unanimous(held, action, resource_type, user, resource, context, hour) ==
    LET candidates == {p \in held : applies(p, action, resource_type)}
        verdict(p) == evaluate_conditions(p.conditions, user, resource, context, hour)
    IN  [allowed |-> candidates # {} /\ \A p \in candidates : verdict(p) = "holds",
         denial_reason |-> None]

\* PolicyEvaluationEngine.evaluate_detailed over the policies a user holds.
evaluate_detailed(held, action, resource_type, user, resource, context, hour) ==
    LET candidates == {p \in held : applies(p, action, resource_type)}
        verdict(p) == evaluate_conditions(p.conditions, user, resource, context, hour)
        matched    == {p \in candidates : verdict(p) = "holds"}
    IN
    IF \E p \in candidates : verdict(p) = "raises"
    THEN [allowed |-> FALSE, denial_reason |-> "evaluation_error"]
    ELSE [allowed |-> matched # {},
          denial_reason |-> CASE matched # {}    -> None
                              [] held = {}       -> "no_assigned_policies"
                              [] candidates = {} -> "no_matching_policy"
                              [] OTHER           -> "condition_failed"]

\* authorize: an exception is an error of the request, which is not allowed
\* either; authorize_batch catches it item by item.
authorize(held, action, resource_type, user, resource, context, hour) ==
    evaluate_detailed(held, action, resource_type, user, resource, context, hour).allowed

\* Mutant: the caller's right to grant is judged on the resource's owner.
granted_to_owner(held, action, resource_type, user, hour) ==
    authorize(held, action, resource_type, user, [email |-> user], None, hour)

\* assert_authorized_to_grant, for one of the actions Permission names (any
\* other may be handed on freely): no resource and no context are passed.
may_grant(held, action, resource_type, user, hour) ==
    authorize(held, action, resource_type, user, None, None, hour)

-----------------------------------------------------------------------------
(* access/scope.py and the filter of the lists.                            *)

\* Mutant: the company's own id is passed for its group's.
own_scope_dict(row) ==
    [company_id |-> row.company_id, group_root_id |-> row.company_id]

resource_scope_dict(row) ==
    [company_id |-> row.company_id, group_root_id |-> row.group_root_id]

\* The resource_attributes of a policy, Empty when it has none.
attributes(policy) ==
    IF policy.conditions # None /\ "resource_attributes" \in DOMAIN policy.conditions
    THEN policy.conditions["resource_attributes"]
    ELSE Empty

\* Mutant: a policy without attributes counts for nothing.
scope_needs_attributes(held, action, resource_type) ==
    LET attrs == {attributes(p) : p \in {q \in held : applies(q, action, resource_type)}} IN
    [unrestricted   |-> FALSE,
     company_ids    |-> {a["company_id"] : a \in {b \in attrs : "company_id" \in DOMAIN b}},
     group_root_ids |-> {a["group_root_id"] : a \in {b \in attrs : "group_root_id" \in DOMAIN b}}]

get_company_scope(held, action, resource_type) ==
    LET attrs == {attributes(p) : p \in {q \in held : applies(q, action, resource_type)}} IN
    [unrestricted   |-> Empty \in attrs,
     company_ids    |-> {a["company_id"] : a \in {b \in attrs : "company_id" \in DOMAIN b}},
     group_root_ids |-> {a["group_root_id"] : a \in {b \in attrs : "group_root_id" \in DOMAIN b}}]

\* _apply_scope_and_filters: what list_companies shows and stats count.
in_scope(row, scope) ==
    \/ scope.unrestricted
    \/ row.company_id \in scope.company_ids
    \/ row.group_root_id \in scope.group_root_ids

-----------------------------------------------------------------------------
(* The validator.                                                          *)

Object(value) == value # Junk /\ value # Empty

\* The errors of one key of a conditions block: whether there are none.
valid(key, value) ==
    CASE key = "self_only" -> value \in BOOLEAN
      [] key \in {"resource_attributes", "context_attributes", "security_context"} -> Object(value)
      [] key = "time" ->
           /\ value # Junk
           /\ value.start \notin {None, Blank, Malformed}
           /\ value.end \notin {None, Blank, Malformed}
           /\ value.timezone \notin {Blank, Malformed}
      [] key = "date_range" ->
           /\ value # Junk
           /\ ~(value.start = None /\ value.end = None)
           /\ value.start \notin {Blank, Malformed}
           /\ value.end \notin {Blank, Malformed}
      [] key = "network" ->
           value # Junk /\ DOMAIN value # {} /\ \A i \in DOMAIN value : value[i] # Malformed
      [] OTHER -> FALSE

\* Mutant: an object's type is not checked.
validate_keys(conditions) ==
    conditions # None =>
        conditions # Junk /\ \A key \in DOMAIN conditions :
            conditions[key] = Junk \/ valid(key, conditions[key])

validate_conditions(conditions) ==
    conditions # None =>
        conditions # Junk /\ \A key \in DOMAIN conditions : valid(key, conditions[key])
=============================================================================
