-------------------------- MODULE MCPolicyEvaluation --------------------------
(* PolicyEvaluation on small instances: a group of two companies and one   *)
(* company apart, two users, two addresses, two days of three hours.       *)
EXTENDS PolicyEvaluation

CONSTANTS ann, bob, here, elsewhere

Row(c, g) == [company_id |-> c, group_root_id |-> g]
Bounds(s, e) == [start |-> s, end |-> e]
Window(s, e, tz) == [start |-> s, end |-> e, timezone |-> tz]

Scopes == {[company_id |-> 2], [group_root_id |-> 1], [company_id |-> 2, group_root_id |-> 3]}

\* What may stand under a key of a conditions block, sense or nonsense.
Values ==
    [self_only           |-> {TRUE, FALSE, Junk},
     resource_attributes |-> Scopes \cup {[email |-> ann], Empty, Junk},
     context_attributes  |-> {[mfa |-> "yes"], Empty, Junk},
     time                |-> {Window(0, 1, None), Window(2, 0, None), Window(1, 1, 1),
                              Window(Aware, 2, None), Window(Malformed, 1, None),
                              Window(0, 1, Malformed), Junk},
     date_range          |-> {Bounds(0, None), Bounds(None, 0), Bounds(1, 0), Bounds(Blank, None),
                              Bounds(Malformed, 1), Junk},
     network             |-> {<<{here}>>, <<{elsewhere}, {here, elsewhere}>>, <<Malformed, {here}>>,
                              <<>>, Junk},
     security_context    |-> {[device |-> "trusted"], Empty, Junk}]

OneKey == UNION {{[k \in {key} |-> v] : v \in Values[key]} : key \in DOMAIN Values}

\* A scope and one key more.
Narrowed ==
    UNION {{[k \in {"resource_attributes", key} |-> IF k = key THEN v ELSE s] :
              v \in Values[key], s \in {[company_id |-> 2], [group_root_id |-> 1]}} :
             key \in DOMAIN Values \ {"resource_attributes"}}

Unknown == [colour |-> "red"]

MCPolicies ==
    {[actions |-> {"read"}, resource_type |-> "*", conditions |-> c] :
       c \in OneKey \cup Narrowed \cup {None, Junk, Unknown}}
    \cup {[actions |-> {"edit"}, resource_type |-> "company", conditions |-> c] :
       c \in {None, [resource_attributes |-> [group_root_id |-> 1]]}}

MCRows == {Row(1, 1), Row(2, 1), Row(3, 3)}
MCResources == MCRows \cup {None, [email |-> ann]}

\* A route that builds no context, one that does, and a hypothetical one.
MCContexts ==
    {None,
     [ip_address |-> here, security_context |-> Empty],
     [ip_address |-> elsewhere, mfa |-> "yes", security_context |-> [device |-> "trusted"]]}
=============================================================================
