-------------------------- MODULE Authorization_proofs --------------------------
(***************************************************************************)
(* Theorems about Authorization, for every number of accounts, policies    *)
(* and requests.                                                           *)
(***************************************************************************)
EXTENDS Authorization, FiniteSetTheorems, TLAPS

-----------------------------------------------------------------------------
(* Type correctness.                                                       *)

\* What the next await of a request says about its shape.
LEMMA Shapes ==
    ASSUME NEW q \in Request
    PROVE  /\ q.pc \in {"select", "fill"} => q \in CheckRequest
           /\ q.pc \in {"scan", "flush"} => q \in ChangeRequest
           /\ q.op \in {"update", "delete"} => q \in ChangeRequest
           /\ q.pc \in {"count", "invalidate"} => q \in AssignRequest
           /\ q.op \in {"assign", "remove", "signup"} => q \in AssignRequest
           /\ q.op = "none" => q = Idle
           /\ q.op = "check" => q \in CheckRequest
  BY DEF Request, Idle, CheckRequest, ChangeRequest, AssignRequest

LEMMA EffectiveType ==
    ASSUME StoresOK, NEW e \in Emails
    PROVE  Effective(e) \in PolicyList
  BY DEF StoresOK, Effective, PolicyList, Definition

\* A step that leaves both stores alone.
LEMMA StoresKept == StoresOK /\ UNCHANGED <<tables, cache, ghosts>> => StoresOK'
  BY DEF StoresOK, tables, ghosts

\* A request that starts, moves or ends.
LEMMA RequestMoves ==
    ASSUME TypeOK, NEW r \in Requests, NEW q \in Request, req' = [req EXCEPT ![r] = q]
    PROVE  req' \in [Requests -> Request]
  BY DEF TypeOK

LEMMA FinishType ==
    ASSUME TypeOK, NEW r \in Requests, Finish(r)
    PROVE  req' \in [Requests -> Request]
  BY RequestMoves DEF Finish, Request

LEMMA GotoType ==
    ASSUME TypeOK, NEW r \in Requests, NEW pc, Goto(r, pc),
           \/ req[r] \in CheckRequest /\ pc \in {"select", "fill"}
           \/ req[r] \in ChangeRequest /\ pc \in {"write", "scan", "flush"}
           \/ req[r] \in AssignRequest /\ pc \in {"count", "write", "invalidate"}
    PROVE  req' \in [Requests -> Request]
<1>1. [req[r] EXCEPT !.pc = pc] \in Request
  BY DEF Request, CheckRequest, ChangeRequest, AssignRequest
<1>2. req' = [req EXCEPT ![r] = [req[r] EXCEPT !.pc = pc]]
  BY DEF Goto
<1> QED
  BY <1>1, <1>2, RequestMoves

LEMMA BeginType ==
    ASSUME TypeOK, NEW r \in Requests, NEW q \in Request, Begin(r, q)
    PROVE  started' \in 0 .. MaxRequests /\ req' \in [Requests -> Request]
  BY AuthorizationAssumption DEF TypeOK, Begin

LEMMA InitType == Init => TypeOK
<1> SUFFICES ASSUME Init PROVE TypeOK
  OBVIOUS
<1> USE AuthorizationAssumption
<1>1. policies \in [Policies -> Definition]
  BY DEF Init, Definition
<1>2. history \in [Policies -> Entry]
  BY <1>1 DEF Init, Entry
<1>3. cache \in [Emails -> SUBSET PolicyList]
  BY DEF Init
<1>4. held \in [Accounts -> SUBSET stored] /\ \A a \in Accounts : held[a] # {} => users[a] = "present"
  BY DEF Init
<1>5. StoresOK
  BY <1>1, <1>2, <1>3, <1>4 DEF Init, StoresOK
<1>6. req \in [Requests -> Request]
  BY DEF Init, Request
<1> QED
  BY <1>5, <1>6 DEF Init, TypeOK

\* Requests that are told they were overtaken keep their shape.
LEMMA OvertakenType ==
    ASSUME NEW q \in Request, q.op = "remove"
    PROVE  /\ [q EXCEPT !.overtaken = TRUE] \in Request
           /\ \A pc \in {"count", "write", "invalidate"} : [q EXCEPT !.pc = pc] \in Request
<1>1. q \in AssignRequest
  BY Shapes
<1> QED
  BY <1>1 DEF Request, AssignRequest

LEMMA StepType == TypeOK /\ [Next]_vars => TypeOK'
<1> SUFFICES ASSUME TypeOK, [Next]_vars PROVE TypeOK'
  OBVIOUS
<1> USE AuthorizationAssumption
<1>0. StoresOK /\ req \in [Requests -> Request] /\ started \in 0 .. MaxRequests
  BY DEF TypeOK
\* Handlers that start, or read: the stores stay as they are.
<1>1. ASSUME NEW r \in Requests, check(r) PROVE TypeOK'
  <2>1. PICK a \in Accounts :
          Begin(r, [op |-> "check", pc |-> "select", email |-> EmailOf[a], list |-> {}])
    BY <1>1 DEF check
  <2>2. [op |-> "check", pc |-> "select", email |-> EmailOf[a], list |-> {}] \in Request
    BY DEF Request, CheckRequest, PolicyList
  <2>3. StoresOK'
    BY <1>0, <1>1, StoresKept DEF check
  <2> QED
    BY <2>1, <2>2, <2>3, BeginType DEF TypeOK
<1>2. ASSUME NEW r \in Requests, select(r) PROVE TypeOK'
  <2>1. req[r] \in CheckRequest
    BY <1>0, <1>2, Shapes DEF select
  <2>2. Effective(req[r].email) \in PolicyList
    BY <1>0, <2>1, EffectiveType DEF CheckRequest
  <2>3. [req[r] EXCEPT !.list = Effective(req[r].email), !.pc = "fill"] \in Request
    BY <2>1, <2>2 DEF CheckRequest, Request
  <2>4. req' = [req EXCEPT ![r] = [req[r] EXCEPT !.list = Effective(req[r].email), !.pc = "fill"]]
    BY <1>2, <1>0 DEF select
  <2>5. StoresOK'
    BY <1>0, <1>2, StoresKept DEF select
  <2> QED
    BY <1>0, <1>2, <2>3, <2>4, <2>5 DEF select, TypeOK
<1>3. ASSUME NEW r \in Requests, update_policy(r) PROVE TypeOK'
  <2>1. PICK p \in stored : \E d \in Allowed(p) :
          Begin(r, [op |-> "update", pc |-> "write", policy |-> p,
                    loaded |-> policies[p], new |-> d, keys |-> {}])
    BY <1>3 DEF update_policy
  <2>2. PICK d \in Allowed(p) :
          Begin(r, [op |-> "update", pc |-> "write", policy |-> p,
                    loaded |-> policies[p], new |-> d, keys |-> {}])
    BY <2>1
  <2>3. p \in Policies /\ policies[p] \in Definition /\ d \in Definition
    BY <1>0 DEF StoresOK, Allowed
  <2>4. [op |-> "update", pc |-> "write", policy |-> p, loaded |-> policies[p],
         new |-> d, keys |-> {}] \in Request
    BY <2>3 DEF Request, ChangeRequest
  <2>5. StoresOK'
    BY <1>0, <1>3, StoresKept DEF update_policy
  <2> QED
    BY <2>2, <2>4, <2>5, BeginType DEF TypeOK
<1>4. ASSUME NEW r \in Requests, delete_policy(r) PROVE TypeOK'
  <2>1. PICK p \in stored \ Baseline :
          Begin(r, [op |-> "delete", pc |-> "write", policy |-> p,
                    loaded |-> policies[p], new |-> policies[p], keys |-> {}])
    BY <1>4 DEF delete_policy
  <2>2. p \in Policies /\ policies[p] \in Definition
    BY <1>0 DEF StoresOK
  <2>3. [op |-> "delete", pc |-> "write", policy |-> p, loaded |-> policies[p],
         new |-> policies[p], keys |-> {}] \in Request
    BY <2>2 DEF Request, ChangeRequest
  <2>4. StoresOK'
    BY <1>0, <1>4, StoresKept DEF delete_policy
  <2> QED
    BY <2>1, <2>3, <2>4, BeginType DEF TypeOK
<1>5. ASSUME NEW r \in Requests, scan(r) PROVE TypeOK'
  <2>1. req[r] \in ChangeRequest
    BY <1>0, <1>5, Shapes DEF scan
  <2>2. StoresOK' /\ started' = started
    BY <1>0, <1>5, StoresKept DEF scan
  <2>3. CASE req[r].op = "update" /\ req[r].policy \notin stored
    BY <1>0, <1>5, <2>2, <2>3, FinishType DEF scan, TypeOK
  <2>4. CASE ~(req[r].op = "update" /\ req[r].policy \notin stored)
    <3>1. PICK late \in SUBSET Emails :
            req' = [req EXCEPT ![r].pc = "flush",
                               ![r].keys = {e \in Emails : cache[e] # {}} \cup late]
      BY <1>5, <2>4 DEF scan
    <3>2. [req[r] EXCEPT !.pc = "flush", !.keys = {e \in Emails : cache[e] # {}} \cup late] \in Request
      BY <2>1 DEF ChangeRequest, Request
    <3>3. req' = [req EXCEPT ![r] =
                   [req[r] EXCEPT !.pc = "flush", !.keys = {e \in Emails : cache[e] # {}} \cup late]]
      BY <3>1, <1>0
    <3> QED
      BY <1>0, <2>2, <3>2, <3>3 DEF TypeOK
  <2> QED
    BY <2>3, <2>4
<1>6. ASSUME NEW r \in Requests, flushed(r) PROVE TypeOK'
  BY <1>0, <1>6, StoresKept, FinishType DEF flushed, TypeOK
<1>7. ASSUME NEW r \in Requests, assign_policy_to_user(r) PROVE TypeOK'
  <2>1. PICK a \in Accounts, p \in stored : Begin(r, Assigning("assign", "write", a, p))
    BY <1>7 DEF assign_policy_to_user
  <2>2. Assigning("assign", "write", a, p) \in Request
    BY <1>0 DEF Assigning, Request, AssignRequest, StoresOK
  <2>3. StoresOK'
    BY <1>0, <1>7, StoresKept DEF assign_policy_to_user
  <2> QED
    BY <2>1, <2>2, <2>3, BeginType DEF TypeOK
<1>8. ASSUME NEW r \in Requests, remove_policy_from_user(r) PROVE TypeOK'
  <2>1. PICK a \in Accounts, p \in stored :
          Begin(r, Assigning("remove", IF p = Superuser THEN "count" ELSE "write", a, p))
    BY <1>8 DEF remove_policy_from_user
  <2>2. Assigning("remove", IF p = Superuser THEN "count" ELSE "write", a, p) \in Request
    BY <1>0 DEF Assigning, Request, AssignRequest, StoresOK
  <2>3. StoresOK'
    BY <1>0, <1>8, StoresKept DEF remove_policy_from_user
  <2> QED
    BY <2>1, <2>2, <2>3, BeginType DEF TypeOK
<1>9. ASSUME NEW r \in Requests, count_assignments(r) PROVE TypeOK'
  <2>1. req[r] \in AssignRequest
    BY <1>0, <1>9, Shapes DEF count_assignments
  <2>2. [req[r] EXCEPT !.pc = "write", !.overtaken = FALSE] \in Request
    BY <2>1 DEF AssignRequest, Request
  <2>3. \/ Finish(r)
        \/ req' = [req EXCEPT ![r] = [req[r] EXCEPT !.pc = "write", !.overtaken = FALSE]]
    BY <1>9, <1>0 DEF count_assignments
  <2> QED
    BY <1>0, <1>9, <2>2, <2>3, StoresKept, FinishType DEF count_assignments, TypeOK
\* Handlers that write one of the stores.
<1>10. ASSUME NEW r \in Requests, set_user_policies(r) PROVE TypeOK'
  <2>1. req[r] \in CheckRequest
    BY <1>0, <1>10, Shapes DEF set_user_policies
  <2>2. req[r].email \in Emails /\ {req[r].list} \in SUBSET PolicyList
    BY <2>1 DEF CheckRequest
  <2>3. StoresOK'
    BY <1>0, <1>10, <2>2 DEF set_user_policies, StoresOK, tables
  <2> QED
    BY <1>0, <1>10, <2>3, FinishType DEF set_user_policies, TypeOK
<1>11. ASSUME NEW r \in Requests, write_update(r) PROVE TypeOK'
  <2>1. req[r] \in ChangeRequest
    BY <1>0, <1>11, Shapes DEF write_update
  <2>2. req[r].policy \in Policies /\ req[r].new \in Definition
    BY <2>1 DEF ChangeRequest
  <2>3. ASSUME NEW d \in Definition PROVE Merged(d, req[r]) \in Definition
    BY <2>2 DEF Merged, Definition
  <2>4. policies' \in [Policies -> Definition]
    BY <1>0, <1>11, <2>2, <2>3 DEF write_update, StoresOK
  <2>5. history' \in [Policies -> Entry] /\ mixed' \subseteq Policies
    BY <1>0, <1>11, <2>2 DEF write_update, StoresOK, Record, Entry
  <2>6. StoresOK'
    BY <1>0, <1>11, <2>4, <2>5 DEF write_update, StoresOK
  <2>7. Finish(r) \/ Goto(r, "scan")
    BY <1>11 DEF write_update
  <2>8. req' \in [Requests -> Request]
    BY <2>1, <2>7, FinishType, GotoType
  <2> QED
    BY <1>0, <1>11, <2>6, <2>8 DEF write_update, TypeOK
<1>12. ASSUME NEW r \in Requests, write_delete(r) PROVE TypeOK'
  <2>1. req[r] \in ChangeRequest
    BY <1>0, <1>12, Shapes DEF write_delete
  <2>2. req[r].policy \in Policies /\ req[r].loaded \in Definition
    BY <2>1 DEF ChangeRequest
  <2>3. history' \in [Policies -> Entry]
    BY <1>0, <1>12, <2>2 DEF write_delete, StoresOK, Record, Entry
  <2>4. StoresOK'
    BY <1>0, <1>12, <2>3 DEF write_delete, StoresOK
  <2>5. req' \in [Requests -> Request]
    BY <1>12, <2>1, GotoType DEF write_delete
  <2> QED
    BY <1>0, <1>12, <2>4, <2>5 DEF write_delete, TypeOK
<1>13. ASSUME NEW r \in Requests, delete_key(r) PROVE TypeOK'
  <2>1. req[r] \in ChangeRequest
    BY <1>0, <1>13, Shapes DEF delete_key
  <2>2. PICK e \in req[r].keys :
          /\ cache' = [cache EXCEPT ![e] = {}]
          /\ suspects' = suspects \ {e}
          /\ req' = [req EXCEPT ![r].keys = @ \ {e}]
    BY <1>13 DEF delete_key
  <2>3. [req[r] EXCEPT !.keys = req[r].keys \ {e}] \in Request
    BY <2>1 DEF ChangeRequest, Request
  <2>4. req' = [req EXCEPT ![r] = [req[r] EXCEPT !.keys = req[r].keys \ {e}]]
    BY <1>0, <2>2
  <2>5. StoresOK'
    BY <1>0, <1>13, <2>2 DEF delete_key, StoresOK, tables
  <2> QED
    BY <1>0, <1>13, <2>3, <2>4, <2>5 DEF delete_key, TypeOK
<1>14. ASSUME NEW r \in Requests, write_assignment(r) PROVE TypeOK'
  <2>1. req[r] \in AssignRequest
    BY <1>0, <1>14, Shapes DEF write_assignment
  <2>2. req[r].account \in Accounts /\ EmailOf[req[r].account] \in Emails
    BY <2>1 DEF AssignRequest
  <2>3. StoresOK'
    BY <1>0, <1>14, <2>2 DEF write_assignment, StoresOK
  <2>4. Finish(r) \/ Goto(r, "invalidate")
    BY <1>14 DEF write_assignment
  <2>5. req' \in [Requests -> Request]
    BY <2>1, <2>4, FinishType, GotoType
  <2> QED
    BY <1>0, <1>14, <2>3, <2>5 DEF write_assignment, TypeOK
<1>15. ASSUME NEW r \in Requests, write_removal(r) PROVE TypeOK'
  <2>1. req[r] \in AssignRequest
    BY <1>0, <1>15, Shapes DEF write_removal
  <2>2. StoresOK'
    BY <1>0, <1>15, <2>1 DEF write_removal, StoresOK, AssignRequest
  <2>3. Finish(r) \/ Goto(r, "invalidate") \/ Overtake(r, "invalidate")
    BY <1>15 DEF write_removal
  <2>4. ASSUME Overtake(r, "invalidate") PROVE req' \in [Requests -> Request]
    BY <1>0, <1>15, <2>4, OvertakenType DEF Overtake, write_removal
  <2>5. req' \in [Requests -> Request]
    BY <2>1, <2>3, <2>4, FinishType, GotoType
  <2> QED
    BY <1>0, <1>15, <2>2, <2>5 DEF write_removal, TypeOK
<1>16. ASSUME NEW r \in Requests, invalidate_user_policies(r) PROVE TypeOK'
  <2>1. req[r] \in AssignRequest
    BY <1>0, <1>16, Shapes DEF invalidate_user_policies
  <2>2. StoresOK'
    BY <1>0, <1>16, <2>1 DEF invalidate_user_policies, StoresOK, tables, AssignRequest
  <2> QED
    BY <1>0, <1>16, <2>2, FinishType DEF invalidate_user_policies, TypeOK
<1>17. ASSUME NEW r \in Requests, signup(r) PROVE TypeOK'
  <2>1. PICK a \in Accounts :
          /\ users' = [users EXCEPT ![a] = "present"]
          /\ Begin(r, Assigning("signup", "write", a, SelfService))
    BY <1>17 DEF signup
  <2>2. Assigning("signup", "write", a, SelfService) \in Request
    BY DEF Assigning, Request, AssignRequest
  <2>3. StoresOK'
    BY <1>0, <1>17, <2>1 DEF signup, StoresOK, ghosts
  <2> QED
    BY <2>1, <2>2, <2>3, BeginType DEF TypeOK
<1>18. ASSUME NEW r \in Requests, Fail(r) PROVE TypeOK'
  <2>1. StoresOK'
    BY <1>0, <1>18 DEF Fail, StoresOK, tables
  <2> QED
    BY <1>0, <1>18, <2>1, FinishType DEF Fail, TypeOK
<1>19. ASSUME create_policy PROVE TypeOK'
  <2>1. PICK p \in Policies \ stored, d \in Definition :
          /\ stored' = stored \cup {p}
          /\ policies' = [policies EXCEPT ![p] = d]
          /\ Record(p, "created", d)
    BY <1>19 DEF create_policy
  <2>2. history' \in [Policies -> Entry]
    BY <1>0, <2>1 DEF StoresOK, Record, Entry
  <2>3. UNCHANGED <<users, held, cache, req, ghosts>> /\ started' \in 0 .. MaxRequests
    BY <1>0, <1>19 DEF create_policy
  <2>4. stored' \subseteq Policies /\ policies' \in [Policies -> Definition]
    BY <1>0, <2>1 DEF StoresOK
  <2>5. held' \in [Accounts -> SUBSET stored']
    BY <1>0, <2>1, <2>3 DEF StoresOK
  <2>6. StoresOK'
    BY <1>0, <2>2, <2>3, <2>4, <2>5 DEF StoresOK, ghosts
  <2> QED
    BY <1>0, <2>3, <2>6 DEF TypeOK
<1>20. ASSUME purge_user PROVE TypeOK'
  <2>1. PICK a \in Accounts :
          /\ users' = [users EXCEPT ![a] = "purged"]
          /\ held' = [held EXCEPT ![a] = {}]
          /\ suspects' = suspects \cup {EmailOf[a]}
          /\ lapsed' = (lapsed \/ Holders(Superuser) = {a})
          /\ req' = [q \in Requests |->
                       IF req[q].op = "remove" /\ Superuser \in held[a]
                       THEN [req[q] EXCEPT !.overtaken = TRUE] ELSE req[q]]
    BY <1>20 DEF purge_user
  <2>2. StoresOK'
    BY <1>0, <1>20, <2>1 DEF purge_user, StoresOK
  <2>3. req' \in [Requests -> Request]
    BY <1>0, <2>1, OvertakenType
  <2> QED
    BY <1>0, <1>20, <2>2, <2>3 DEF purge_user, TypeOK
<1>21. ASSUME NEW e \in Emails, expire_key(e) PROVE TypeOK'
  BY <1>0, <1>21 DEF expire_key, TypeOK, StoresOK, tables
<1>22. CASE UNCHANGED vars
  BY <1>0, <1>22, StoresKept DEF vars, TypeOK
<1> QED
  BY <1>1, <1>2, <1>3, <1>4, <1>5, <1>6, <1>7, <1>8, <1>9, <1>10, <1>11, <1>12, <1>13,
     <1>14, <1>15, <1>16, <1>17, <1>18, <1>19, <1>20, <1>21, <1>22 DEF Next

\* Every reachable state is well typed: in particular an assignment is of an
\* account and a policy that exist.
THEOREM TypeCorrect == Spec => []TypeOK
  BY InitType, StepType, PTL DEF Spec

-----------------------------------------------------------------------------
(* Stale keys: StaleOnlyForAReason is inductive.                           *)

LEMMA EffectiveKept ==
    ASSUME NEW e \in Emails, UNCHANGED <<stored, policies, held>>
    PROVE  Effective(e)' = Effective(e)
  BY DEF Effective

\* Only the accounts of its address decide an address's policies.
LEMMA EffectiveOfOthers ==
    ASSUME StoresOK, NEW e \in Emails, UNCHANGED <<stored, policies>>,
           \A a \in Accounts : EmailOf[a] = e => held'[a] = held[a]
    PROVE  Effective(e)' = Effective(e)
<1>1. \A q \in stored : (\E a \in Accounts : EmailOf[a] = e /\ q \in held[a])
                        <=> (\E a \in Accounts : EmailOf[a] = e /\ q \in held'[a])
  OBVIOUS
<1> QED
  BY <1>1 DEF Effective

\* What the requests other than r owed, they owe: a policy they wait to
\* refresh is not made to vanish.
LEMMA OwesKept ==
    ASSUME NEW e \in Emails, NEW r \in Requests,
           ~Owes(r, e), \A q \in Requests : ~Owes(q, e)', stored \subseteq stored',
           \A q \in Requests : q # r => req'[q] = req[q]
    PROVE  \A q \in Requests : ~Owes(q, e)
<1> SUFFICES ASSUME NEW q \in Requests, q # r, Owes(q, e) PROVE FALSE
  OBVIOUS
<1>1. req'[q] = req[q]
  OBVIOUS
<1> QED
  BY <1>1 DEF Owes

\* Being overtaken changes nothing in what a request owes.
LEMMA OvertakenOwes ==
    ASSUME StoresOK, NEW e \in Emails, NEW q \in Requests, req[q] \in Request, req[q].op = "remove",
           req'[q] = [req[q] EXCEPT !.overtaken = TRUE], stored' = stored
    PROVE  Owes(q, e)' <=> Owes(q, e)
<1>1. req[q] \in AssignRequest
  BY Shapes
<1>2. req'[q].pc = req[q].pc /\ req'[q].op = req[q].op /\ req'[q].account = req[q].account
  BY <1>1 DEF AssignRequest
<1>3. req[q].pc \notin {"scan", "flush"} /\ req'[q].pc \notin {"scan", "flush"}
  BY <1>1, <1>2 DEF AssignRequest
<1> QED
  BY <1>2, <1>3 DEF Owes

LEMMA StaleStep == TypeOK /\ StaleOnlyForAReason /\ [Next]_vars => StaleOnlyForAReason'
<1> SUFFICES ASSUME TypeOK, StaleOnlyForAReason, [Next]_vars,
                    NEW e \in Emails, e \notin suspects', \A q \in Requests : ~Owes(q, e)'
             PROVE  cache'[e] \subseteq {Effective(e)'}
  BY DEF StaleOnlyForAReason
<1> USE AuthorizationAssumption
<1>0. StoresOK /\ req \in [Requests -> Request] /\ cache \in [Emails -> SUBSET PolicyList]
  BY DEF TypeOK, StoresOK
\* A key without a reason before the step was fresh.
<1>a. ASSUME e \notin suspects, \A q \in Requests : ~Owes(q, e) PROVE cache[e] \subseteq {Effective(e)}
  BY <1>a DEF StaleOnlyForAReason
\* A step of a request that owed nothing and leaves this key and its list alone.
<1>b. ASSUME NEW r \in Requests, ~Owes(r, e), \A q \in Requests : q # r => req'[q] = req[q],
             cache'[e] = cache[e], Effective(e)' = Effective(e), stored \subseteq stored',
             e \notin suspects
      PROVE  cache'[e] \subseteq {Effective(e)'}
  BY <1>a, <1>b, OwesKept
<1>c. ASSUME NEW r \in Requests, NEW q, Begin(r, q)
      PROVE  ~Owes(r, e) /\ \A s \in Requests : s # r => req'[s] = req[s]
  BY <1>0, <1>c DEF Begin, Owes, Idle
<1>d. ASSUME NEW r \in Requests, NEW pc, Finish(r) \/ Goto(r, pc)
      PROVE  \A q \in Requests : q # r => req'[q] = req[q]
  BY <1>0, <1>d DEF Finish, Goto
\* Handlers that start, or read.
<1>1. ASSUME NEW r \in Requests, check(r) \/ update_policy(r) \/ delete_policy(r)
                \/ assign_policy_to_user(r) \/ remove_policy_from_user(r)
      PROVE  cache'[e] \subseteq {Effective(e)'}
  <2>1. \E q : Begin(r, q)
    BY <1>1 DEF check, update_policy, delete_policy, assign_policy_to_user, remove_policy_from_user
  <2>2. UNCHANGED <<tables, cache, ghosts>>
    BY <1>1 DEF check, update_policy, delete_policy, assign_policy_to_user, remove_policy_from_user
  <2> QED
    BY <1>b, <1>c, <2>1, <2>2, EffectiveKept DEF tables, ghosts
<1>2. ASSUME NEW r \in Requests, select(r) \/ count_assignments(r)
      PROVE  cache'[e] \subseteq {Effective(e)'}
  <2>1. ~Owes(r, e) /\ \A q \in Requests : q # r => req'[q] = req[q]
    BY <1>0, <1>2 DEF select, count_assignments, Owes, Finish
  <2>2. UNCHANGED <<tables, cache, ghosts>>
    BY <1>2 DEF select, count_assignments
  <2> QED
    BY <1>b, <2>1, <2>2, EffectiveKept DEF tables, ghosts
\* The fill is fresh, or suspected.
<1>3. ASSUME NEW r \in Requests, set_user_policies(r) PROVE cache'[e] \subseteq {Effective(e)'}
  <2>1. Effective(e)' = Effective(e) /\ stored' = stored
    BY <1>3, EffectiveKept DEF set_user_policies, tables
  <2>2. CASE req[r].email = e
    BY <1>0, <1>3, <2>1, <2>2 DEF set_user_policies
  <2>3. CASE req[r].email # e
    <3>1. ~Owes(r, e) /\ cache'[e] = cache[e] /\ e \notin suspects
      BY <1>0, <1>3, <2>3 DEF set_user_policies, Owes
    <3> QED
      BY <1>b, <1>d, <1>3, <2>1, <3>1 DEF set_user_policies
  <2> QED
    BY <2>2, <2>3
<1>4. ASSUME NEW f \in Emails, expire_key(f) PROVE cache'[e] \subseteq {Effective(e)'}
  <2>1. Effective(e)' = Effective(e) /\ req' = req /\ stored' = stored
    BY <1>4, EffectiveKept DEF expire_key, tables
  <2>2. \A q \in Requests : ~Owes(q, e)
    BY <2>1 DEF Owes
  <2> QED
    BY <1>0, <1>4, <1>a, <2>1, <2>2 DEF expire_key
\* A change of a policy owes every key from the commit on.
<1>5. ASSUME create_policy PROVE cache'[e] \subseteq {Effective(e)'}
  <2>1. PICK p \in Policies \ stored, d \in Definition :
          stored' = stored \cup {p} /\ policies' = [policies EXCEPT ![p] = d]
    BY <1>5 DEF create_policy
  <2>2. UNCHANGED <<held, cache, req, suspects>>
    BY <1>5 DEF create_policy, ghosts
  <2>3. \A a \in Accounts : p \notin held[a]
    BY <1>0 DEF StoresOK
  <2>4. \A q \in stored : policies'[q] = policies[q]
    BY <1>0, <2>1 DEF StoresOK
  <2>5. Effective(e)' = Effective(e)
    BY <2>1, <2>2, <2>3, <2>4 DEF Effective
  <2>6. \A q \in Requests : ~Owes(q, e)
    BY <2>1, <2>2 DEF Owes
  <2> QED
    BY <1>a, <2>2, <2>5, <2>6
<1>6. ASSUME NEW r \in Requests, write_update(r) PROVE cache'[e] \subseteq {Effective(e)'}
  <2>1. req[r].policy \notin stored
    <3>1. SUFFICES ASSUME req[r].policy \in stored PROVE Owes(r, e)'
      OBVIOUS
    <3>2. req[r] \in ChangeRequest
      BY <1>0, <1>6, Shapes DEF write_update
    <3> QED
      BY <1>0, <1>6, <3>1, <3>2 DEF write_update, Goto, Owes, ChangeRequest
  <2>2. ~Owes(r, e) /\ Finish(r)
    BY <1>6, <2>1 DEF write_update, Owes
  <2>3. UNCHANGED <<stored, policies, held, cache, suspects>>
    BY <1>6, <2>1 DEF write_update
  <2> QED
    BY <1>b, <1>d, <2>2, <2>3, EffectiveKept
<1>7. ASSUME NEW r \in Requests, write_delete(r) PROVE cache'[e] \subseteq {Effective(e)'}
  <2>1. req[r] \in ChangeRequest
    BY <1>0, <1>7, Shapes DEF write_delete
  <2>2. Owes(r, e)'
    BY <1>0, <1>7, <2>1 DEF write_delete, Goto, Owes, ChangeRequest
  <2> QED
    BY <2>2
<1>8. ASSUME NEW r \in Requests, scan(r) PROVE cache'[e] \subseteq {Effective(e)'}
  <2>1. Effective(e)' = Effective(e) /\ UNCHANGED <<stored, cache, suspects>>
    BY <1>8, EffectiveKept DEF scan, tables, ghosts
  <2>2. CASE req[r].op = "update" /\ req[r].policy \notin stored
    BY <1>8, <1>b, <1>d, <2>1, <2>2 DEF scan, Owes
  <2>3. CASE ~(req[r].op = "update" /\ req[r].policy \notin stored)
    <3>1. PICK late \in SUBSET Emails :
            req' = [req EXCEPT ![r].pc = "flush",
                               ![r].keys = {f \in Emails : cache[f] # {}} \cup late]
      BY <1>8, <2>3 DEF scan
    <3>2. req[r] \in ChangeRequest
      BY <1>0, <1>8, Shapes DEF scan
    <3>3. req'[r].pc = "flush" /\ {f \in Emails : cache[f] # {}} \subseteq req'[r].keys
      BY <1>0, <3>1, <3>2 DEF ChangeRequest
    <3>4. cache[e] = {}
      BY <3>3 DEF Owes
    <3> QED
      BY <2>1, <3>4
  <2> QED
    BY <2>2, <2>3
<1>9. ASSUME NEW r \in Requests, delete_key(r) PROVE cache'[e] \subseteq {Effective(e)'}
  <2>1. PICK f \in req[r].keys :
          /\ cache' = [cache EXCEPT ![f] = {}]
          /\ suspects' = suspects \ {f}
          /\ req' = [req EXCEPT ![r].keys = @ \ {f}]
    BY <1>9 DEF delete_key
  <2>2. CASE f = e
    BY <1>0, <2>1, <2>2
  <2>3. CASE f # e
    <3>1. req[r] \in ChangeRequest
      BY <1>0, <1>9, Shapes DEF delete_key
    <3>2. req'[r].pc = "flush" /\ req'[r].keys = req[r].keys \ {f}
      BY <1>0, <1>9, <2>1, <3>1 DEF delete_key, ChangeRequest
    <3>3. ~Owes(r, e)
      BY <1>9, <2>3, <3>2 DEF delete_key, Owes
    <3>4. cache'[e] = cache[e] /\ e \notin suspects /\ stored' = stored
      BY <1>0, <1>9, <2>1, <2>3 DEF delete_key, tables
    <3>5. \A q \in Requests : q # r => req'[q] = req[q]
      BY <1>0, <2>1
    <3>6. Effective(e)' = Effective(e)
      BY <1>9, EffectiveKept DEF delete_key, tables
    <3> QED
      BY <1>b, <3>3, <3>4, <3>5, <3>6
  <2> QED
    BY <2>2, <2>3
<1>10. ASSUME NEW r \in Requests, flushed(r) PROVE cache'[e] \subseteq {Effective(e)'}
  BY <1>10, <1>b, <1>d, EffectiveKept DEF flushed, Owes, tables, ghosts
\* A change of what an account holds owes its key, or makes it suspect.
<1>11. ASSUME NEW r \in Requests, write_assignment(r) PROVE cache'[e] \subseteq {Effective(e)'}
  <2>1. req[r] \in AssignRequest
    BY <1>0, <1>11, Shapes DEF write_assignment
  <2>2. ~Owes(r, e) /\ cache' = cache /\ UNCHANGED <<stored, policies>> /\ e \notin suspects
    BY <1>11 DEF write_assignment, Owes
  <2>3. \A q \in Requests : q # r => req'[q] = req[q]
    BY <1>11, <1>d DEF write_assignment
  <2>4. CASE held' = held
    BY <1>b, <2>2, <2>3, <2>4, EffectiveKept
  <2>5. CASE held' # held
    <3>1. /\ held' = [held EXCEPT ![req[r].account] = @ \cup {req[r].policy}]
          /\ req[r].op = "assign" => Goto(r, "invalidate")
          /\ req[r].op = "signup" => suspects' = suspects \cup {EmailOf[req[r].account]}
      BY <1>11, <2>5 DEF write_assignment
    <3>2. EmailOf[req[r].account] # e
      BY <1>0, <1>11, <2>1, <3>1 DEF write_assignment, Goto, Owes, AssignRequest
    <3>3. \A a \in Accounts : EmailOf[a] = e => held'[a] = held[a]
      BY <1>0, <3>1, <3>2 DEF StoresOK
    <3> QED
      BY <1>0, <1>b, <2>2, <2>3, <3>3, EffectiveOfOthers
  <2> QED
    BY <2>4, <2>5
<1>12. ASSUME NEW r \in Requests, write_removal(r) PROVE cache'[e] \subseteq {Effective(e)'}
  <2>1. req[r] \in AssignRequest
    BY <1>0, <1>12, Shapes DEF write_removal
  <2>2. ~Owes(r, e) /\ cache' = cache /\ UNCHANGED <<stored, policies, suspects>>
    BY <1>12 DEF write_removal, Owes
  <2>3. CASE Finish(r) /\ held' = held
    BY <1>b, <1>d, <2>2, <2>3, EffectiveKept
  <2>4. CASE /\ held' = [held EXCEPT ![req[r].account] = @ \ {req[r].policy}]
             /\ Overtake(r, "invalidate") \/ Goto(r, "invalidate")
    <3>1. req'[r] = [req[r] EXCEPT !.pc = "invalidate"]
      BY <1>0, <2>4 DEF Overtake, Goto
    <3>2. EmailOf[req[r].account] # e
      BY <2>1, <3>1 DEF Owes, AssignRequest
    <3>3. \A a \in Accounts : EmailOf[a] = e => held'[a] = held[a]
      BY <1>0, <2>4, <3>2 DEF StoresOK
    <3>4. Effective(e)' = Effective(e)
      BY <1>0, <2>2, <3>3, EffectiveOfOthers
    <3>5. ASSUME NEW q \in Requests PROVE ~Owes(q, e)
      <4>1. CASE q = r
        BY <2>2, <4>1
      <4>2. CASE q # r /\ req'[q] = req[q]
        BY <2>2, <4>2 DEF Owes
      <4>3. CASE q # r /\ req'[q] # req[q]
        <5>1. req[q].op = "remove" /\ req'[q] = [req[q] EXCEPT !.overtaken = TRUE]
          BY <1>0, <2>4, <4>3 DEF Overtake, Goto
        <5> QED
          BY <1>0, <2>2, <5>1, OvertakenOwes
      <4> QED
        BY <4>1, <4>2, <4>3
    <3> QED
      BY <1>a, <2>2, <3>4, <3>5
  <2> QED
    BY <1>12, <2>3, <2>4 DEF write_removal
<1>13. ASSUME NEW r \in Requests, invalidate_user_policies(r) PROVE cache'[e] \subseteq {Effective(e)'}
  <2>1. Effective(e)' = Effective(e) /\ stored' = stored
    BY <1>13, EffectiveKept DEF invalidate_user_policies, tables
  <2>2. CASE EmailOf[req[r].account] = e
    BY <1>0, <1>13, <2>2 DEF invalidate_user_policies
  <2>3. CASE EmailOf[req[r].account] # e
    <3>1. ~Owes(r, e) /\ cache'[e] = cache[e] /\ e \notin suspects
      BY <1>0, <1>13, <2>3 DEF invalidate_user_policies, Owes
    <3> QED
      BY <1>b, <1>d, <1>13, <2>1, <3>1 DEF invalidate_user_policies
  <2> QED
    BY <2>2, <2>3
\* Accounts that come and go: the purge is the one that changes a list.
<1>14. ASSUME NEW r \in Requests, signup(r) PROVE cache'[e] \subseteq {Effective(e)'}
  <2>1. \E q : Begin(r, q)
    BY <1>14 DEF signup
  <2>2. UNCHANGED <<stored, policies, held, cache, suspects>>
    BY <1>14 DEF signup, ghosts
  <2> QED
    BY <1>b, <1>c, <2>1, <2>2, EffectiveKept
<1>15. ASSUME purge_user PROVE cache'[e] \subseteq {Effective(e)'}
  <2>1. PICK a \in Accounts :
          /\ held' = [held EXCEPT ![a] = {}]
          /\ suspects' = suspects \cup {EmailOf[a]}
          /\ req' = [q \in Requests |->
                       IF req[q].op = "remove" /\ Superuser \in held[a]
                       THEN [req[q] EXCEPT !.overtaken = TRUE] ELSE req[q]]
    BY <1>15 DEF purge_user
  <2>2. cache' = cache /\ UNCHANGED <<stored, policies>> /\ e \notin suspects
    BY <1>15, <2>1 DEF purge_user
  <2>3. \A b \in Accounts : EmailOf[b] = e => held'[b] = held[b]
    BY <1>0, <2>1 DEF StoresOK
  <2>4. Effective(e)' = Effective(e)
    BY <1>0, <2>2, <2>3, EffectiveOfOthers
  <2>5. ASSUME NEW q \in Requests PROVE ~Owes(q, e)
    <3>1. CASE req'[q] = req[q]
      BY <2>2, <3>1 DEF Owes
    <3>2. CASE req[q].op = "remove" /\ req'[q] = [req[q] EXCEPT !.overtaken = TRUE]
      BY <1>0, <2>2, <3>2, OvertakenOwes
    <3> QED
      BY <2>1, <3>1, <3>2
  <2> QED
    BY <1>a, <2>2, <2>4, <2>5
\* A failing request makes suspect what it owed.
<1>16. ASSUME NEW r \in Requests, Fail(r) PROVE cache'[e] \subseteq {Effective(e)'}
  <2>1. ~Owes(r, e) /\ e \notin suspects
    BY <1>16 DEF Fail
  <2>2. Effective(e)' = Effective(e) /\ cache' = cache /\ stored' = stored
    BY <1>16, EffectiveKept DEF Fail, tables
  <2> QED
    BY <1>16, <1>b, <1>d, <2>1, <2>2 DEF Fail
<1>17. CASE UNCHANGED vars
  <2>1. Effective(e)' = Effective(e) /\ UNCHANGED <<cache, suspects, req, stored>>
    BY <1>17, EffectiveKept DEF vars, tables, ghosts
  <2> QED
    BY <1>a, <2>1 DEF Owes
<1> QED
  BY <1>1, <1>2, <1>3, <1>4, <1>5, <1>6, <1>7, <1>8, <1>9, <1>10, <1>11, <1>12, <1>13,
     <1>14, <1>15, <1>16, <1>17 DEF Next

\* A cached list that differs from the tables is on its way to be deleted, or
\* was left behind by a failure, a late reader, a purge or a signup: every
\* other path that commits a change invalidates what it made stale.
THEOREM StaleKeysExplained == Spec => []StaleOnlyForAReason
<1>1. Init => StaleOnlyForAReason
  BY DEF Init, StaleOnlyForAReason
<1> QED
  BY <1>1, InitType, StepType, StaleStep, PTL DEF Spec

-----------------------------------------------------------------------------
(* The last superuser.                                                     *)

\* No request deactivates or deletes a baseline policy.
BaselineInv ==
    /\ \A p \in Baseline : p \in stored /\ policies[p].is_active
    /\ \A r \in Requests :
         /\ req[r].op = "update" /\ req[r].policy \in Baseline =>
               req[r].loaded.is_active /\ req[r].new.is_active
         /\ req[r].op = "delete" => req[r].policy \notin Baseline

TwoHolders == \E a, b \in Holders(Superuser) : a # b

\* A removal that counted two holders, and was not overtaken, leaves one.
HoldersInv ==
    ~lapsed =>
        /\ Holders(Superuser) # {}
        /\ \A r \in Requests :
             req[r].op = "remove" /\ req[r].policy = Superuser /\ req[r].pc = "write"
                /\ ~req[r].overtaken => TwoHolders

LEMMA BaselineStep == TypeOK /\ BaselineInv /\ [Next]_vars => BaselineInv'
<1> SUFFICES ASSUME TypeOK, BaselineInv, [Next]_vars PROVE BaselineInv'
  OBVIOUS
<1> USE AuthorizationAssumption
<1>0. StoresOK /\ req \in [Requests -> Request]
  BY DEF TypeOK
<1> DEFINE Fine(q) == /\ q.op = "update" /\ q.policy \in Baseline => q.loaded.is_active /\ q.new.is_active
                      /\ q.op = "delete" => q.policy \notin Baseline
           SameTables == UNCHANGED <<stored, policies>>
\* The requests of a step are as they were but for r, which is fine.
<1>a. ASSUME SameTables, \A q \in Requests : Fine(req'[q]) PROVE BaselineInv'
  BY <1>a DEF BaselineInv
<1>b. \A q \in Requests : Fine(req[q])
  BY DEF BaselineInv
<1>c. Fine(Idle)
  BY DEF Idle
<1>d. ASSUME NEW r \in Requests, Finish(r) PROVE \A q \in Requests : Fine(req'[q])
  BY <1>0, <1>b, <1>c, <1>d DEF Finish
<1>e. ASSUME NEW r \in Requests, NEW q, Begin(r, q), Fine(q) PROVE \A s \in Requests : Fine(req'[s])
  BY <1>0, <1>b, <1>e DEF Begin
<1>f. ASSUME NEW r \in Requests, NEW pc, Goto(r, pc), req[r] \in ChangeRequest \/ req[r] \in AssignRequest
      PROVE  \A q \in Requests : Fine(req'[q])
  <2>1. Fine([req[r] EXCEPT !.pc = pc])
    BY <1>b, <1>f DEF ChangeRequest, AssignRequest
  <2> QED
    BY <1>0, <1>b, <1>f, <2>1 DEF Goto
<1>g. ASSUME NEW q \in Requests, req[q].op = "remove", req'[q] = [req[q] EXCEPT !.overtaken = TRUE]
      PROVE  Fine(req'[q])
  <2>1. req[q] \in AssignRequest
    BY <1>0, <1>g, Shapes
  <2> QED
    BY <1>g, <2>1 DEF AssignRequest
\* The two handlers that change a policy.
<1>1. ASSUME NEW r \in Requests, write_update(r) PROVE BaselineInv'
  <2>1. req[r] \in ChangeRequest
    BY <1>0, <1>1, Shapes DEF write_update
  <2>2. \A q \in Requests : Fine(req'[q])
    BY <1>1, <1>d, <1>f, <2>1 DEF write_update
  <2>3. stored' = stored
    BY <1>1 DEF write_update
  <2>4. ASSUME NEW p \in Baseline PROVE policies'[p].is_active
    <3>1. p \in Policies /\ policies[p].is_active
      BY DEF BaselineInv
    <3>2. CASE policies'[p] = policies[p]
      BY <3>1, <3>2
    <3>3. CASE policies'[p] # policies[p]
      <4>1. p = req[r].policy /\ policies'[p] = Merged(policies[p], req[r])
        BY <1>0, <1>1, <3>1, <3>3 DEF write_update, StoresOK
      <4>2. req[r].op = "update" /\ req[r].loaded.is_active /\ req[r].new.is_active
        BY <1>1, <4>1 DEF write_update, BaselineInv
      <4> QED
        BY <3>1, <4>1, <4>2 DEF Merged
    <3> QED
      BY <3>2, <3>3
  <2> QED
    BY <2>2, <2>3, <2>4 DEF BaselineInv
<1>2. ASSUME NEW r \in Requests, write_delete(r) PROVE BaselineInv'
  <2>1. req[r] \in ChangeRequest
    BY <1>0, <1>2, Shapes DEF write_delete
  <2>2. \A q \in Requests : Fine(req'[q])
    BY <1>2, <1>f, <2>1 DEF write_delete
  <2>3. req[r].policy \notin Baseline
    BY <1>2 DEF write_delete, BaselineInv
  <2> QED
    BY <1>2, <2>2, <2>3 DEF write_delete, BaselineInv
<1>3. ASSUME create_policy PROVE BaselineInv'
  <2>1. PICK p \in Policies \ stored, d \in Definition :
          stored' = stored \cup {p} /\ policies' = [policies EXCEPT ![p] = d]
    BY <1>3 DEF create_policy
  <2>2. req' = req
    BY <1>3 DEF create_policy
  <2> QED
    BY <1>0, <2>1, <2>2 DEF BaselineInv, StoresOK
\* The handlers that load a policy to change it.
<1>4. ASSUME NEW r \in Requests, update_policy(r) PROVE BaselineInv'
  <2>1. PICK p \in stored : \E d \in Allowed(p) :
          Begin(r, [op |-> "update", pc |-> "write", policy |-> p,
                    loaded |-> policies[p], new |-> d, keys |-> {}])
    BY <1>4 DEF update_policy
  <2>2. PICK d \in Allowed(p) :
          Begin(r, [op |-> "update", pc |-> "write", policy |-> p,
                    loaded |-> policies[p], new |-> d, keys |-> {}])
    BY <2>1
  <2>3. p \in Baseline => policies[p].is_active /\ d.is_active
    BY DEF BaselineInv, Allowed
  <2>4. SameTables
    BY <1>4 DEF update_policy, tables
  <2> QED
    BY <1>a, <1>e, <2>2, <2>3, <2>4
<1>5. ASSUME NEW r \in Requests, delete_policy(r) PROVE BaselineInv'
  <2>1. PICK p \in stored \ Baseline :
          Begin(r, [op |-> "delete", pc |-> "write", policy |-> p,
                    loaded |-> policies[p], new |-> policies[p], keys |-> {}])
    BY <1>5 DEF delete_policy
  <2>2. SameTables
    BY <1>5 DEF delete_policy, tables
  <2> QED
    BY <1>a, <1>e, <2>1, <2>2
\* Every other handler leaves the policies alone, and loads none.
<1>6. ASSUME NEW r \in Requests, check(r) \/ assign_policy_to_user(r) \/ remove_policy_from_user(r) \/ signup(r)
      PROVE  BaselineInv'
  <2>1. SameTables
    BY <1>6 DEF check, assign_policy_to_user, remove_policy_from_user, signup, tables
  <2>2. \E q : Begin(r, q) /\ q.op \notin {"update", "delete"}
    <3>1. ASSUME check(r) PROVE <2>2
      BY <3>1 DEF check
    <3>2. ASSUME assign_policy_to_user(r) PROVE <2>2
      BY <3>2 DEF assign_policy_to_user, Assigning
    <3>3. ASSUME remove_policy_from_user(r) PROVE <2>2
      BY <3>3 DEF remove_policy_from_user, Assigning
    <3>4. ASSUME signup(r) PROVE <2>2
      BY <3>4 DEF signup, Assigning
    <3> QED
      BY <1>6, <3>1, <3>2, <3>3, <3>4
  <2> QED
    BY <1>a, <1>e, <2>1, <2>2
<1>7. ASSUME NEW r \in Requests, select(r) \/ count_assignments(r) PROVE BaselineInv'
  <2>1. SameTables
    BY <1>7 DEF select, count_assignments, tables
  <2>2. req[r] \in CheckRequest \/ req[r] \in AssignRequest
    BY <1>0, <1>7, Shapes DEF select, count_assignments
  <2>3. req'[r].op \notin {"update", "delete"}
    BY <1>0, <1>7, <2>2 DEF select, count_assignments, Finish, Idle, CheckRequest, AssignRequest
  <2>4. \A q \in Requests : q # r => req'[q] = req[q]
    BY <1>0, <1>7 DEF select, count_assignments, Finish
  <2> QED
    BY <1>a, <1>b, <2>1, <2>3, <2>4
<1>8. ASSUME NEW r \in Requests,
             set_user_policies(r) \/ flushed(r) \/ invalidate_user_policies(r) \/ Fail(r)
      PROVE  BaselineInv'
  <2>1. SameTables /\ Finish(r)
    BY <1>8 DEF set_user_policies, flushed, invalidate_user_policies, Fail, tables
  <2> QED
    BY <1>a, <1>d, <2>1
<1>9. ASSUME NEW r \in Requests, scan(r) \/ delete_key(r) PROVE BaselineInv'
  <2>1. SameTables
    BY <1>9 DEF scan, delete_key, tables
  <2>2. req[r] \in ChangeRequest
    BY <1>0, <1>9, Shapes DEF scan, delete_key
  <2>3. Fine(req'[r])
    <3>1. CASE Finish(r)
      BY <1>d, <3>1
    <3>2. CASE \E pc, keys : req' = [req EXCEPT ![r].pc = pc, ![r].keys = keys]
      BY <1>0, <1>b, <2>2, <3>2 DEF ChangeRequest
    <3>3. CASE \E f : req' = [req EXCEPT ![r].keys = @ \ {f}]
      BY <1>0, <1>b, <2>2, <3>3 DEF ChangeRequest
    <3> QED
      BY <1>9, <3>1, <3>2, <3>3 DEF scan, delete_key
  <2>4. \A q \in Requests : q # r => req'[q] = req[q]
    BY <1>0, <1>9 DEF scan, delete_key, Finish
  <2> QED
    BY <1>a, <1>b, <2>1, <2>3, <2>4
<1>10. ASSUME NEW r \in Requests, write_assignment(r) PROVE BaselineInv'
  <2>1. SameTables /\ (Finish(r) \/ Goto(r, "invalidate"))
    BY <1>10 DEF write_assignment
  <2>2. req[r] \in AssignRequest
    BY <1>0, <1>10, Shapes DEF write_assignment
  <2> QED
    BY <1>a, <1>d, <1>f, <2>1, <2>2
<1>11. ASSUME NEW r \in Requests, write_removal(r) PROVE BaselineInv'
  <2>1. SameTables /\ (Finish(r) \/ Goto(r, "invalidate") \/ Overtake(r, "invalidate"))
    BY <1>11 DEF write_removal
  <2>2. req[r] \in AssignRequest
    BY <1>0, <1>11, Shapes DEF write_removal
  <2>3. ASSUME Overtake(r, "invalidate"), NEW q \in Requests PROVE Fine(req'[q])
    <3>1. CASE q = r
      BY <2>2, <2>3, <3>1 DEF Overtake, AssignRequest
    <3>2. CASE q # r
      BY <1>b, <1>g, <2>3, <3>2 DEF Overtake
    <3> QED
      BY <3>1, <3>2
  <2> QED
    BY <1>a, <1>d, <1>f, <2>1, <2>2, <2>3
<1>12. ASSUME purge_user PROVE BaselineInv'
  <2>1. SameTables
    BY <1>12 DEF purge_user
  <2>2. \A q \in Requests :
           req'[q] = req[q] \/ (req[q].op = "remove" /\ req'[q] = [req[q] EXCEPT !.overtaken = TRUE])
    BY <1>12 DEF purge_user
  <2> QED
    BY <1>a, <1>b, <1>g, <2>1, <2>2
<1>13. ASSUME NEW e \in Emails, expire_key(e) PROVE BaselineInv'
  BY <1>13 DEF expire_key, tables, BaselineInv
<1>14. CASE UNCHANGED vars
  BY <1>14 DEF vars, tables, BaselineInv
<1> QED
  BY <1>1, <1>2, <1>3, <1>4, <1>5, <1>6, <1>7, <1>8, <1>9, <1>10, <1>11, <1>12, <1>13, <1>14
     DEF Next

LEMMA TwoOrFewer ==
    ASSUME NEW S, IsFiniteSet(S), ~(Cardinality(S) <= 1)
    PROVE  \E a, b \in S : a # b
<1>1. Cardinality(S) \in Nat
  BY FS_CardinalityType
<1>2. S # {}
  BY <1>1, FS_EmptySet
<1>3. PICK a \in S : TRUE
  BY <1>2
<1>4. S # {a}
  BY FS_Singleton
<1> QED
  BY <1>3, <1>4

LEMMA HoldersStep == TypeOK /\ BaselineInv /\ HoldersInv /\ [Next]_vars => HoldersInv'
<1> DEFINE Counted(q) == q.op = "remove" /\ q.policy = Superuser /\ q.pc = "write" /\ ~q.overtaken
           Goal == Holders(Superuser)' # {} /\ \A q \in Requests : Counted(req'[q]) => TwoHolders'
<1> SUFFICES ASSUME TypeOK, BaselineInv, HoldersInv, [Next]_vars, ~lapsed'
             PROVE  Goal
  BY DEF HoldersInv
<1> USE AuthorizationAssumption
<1>0. StoresOK /\ req \in [Requests -> Request]
  BY DEF TypeOK
\* Nobody loses Superuser, and no request has counted that had not.
<1>a. ASSUME ~lapsed, Holders(Superuser) \subseteq Holders(Superuser)',
             \A q \in Requests : Counted(req'[q]) => \E s \in Requests : Counted(req[s])
      PROVE  Goal
  BY <1>a DEF HoldersInv, TwoHolders
\* A request that starts, moves past the write, or ends.
<1>b. ASSUME ~lapsed, held' = held, NEW r \in Requests, ~Counted(req'[r]),
             \A q \in Requests : q # r => req'[q] = req[q]
      PROVE  Goal
  <2>1. Holders(Superuser)' = Holders(Superuser)
    BY <1>b DEF Holders
  <2> QED
    BY <1>a, <1>b, <2>1
<1>c. ASSUME NEW r \in Requests, Finish(r)
      PROVE  ~Counted(req'[r]) /\ \A q \in Requests : q # r => req'[q] = req[q]
  BY <1>0, <1>c DEF Finish, Idle
<1>d. ASSUME NEW r \in Requests, NEW pc, Goto(r, pc), pc # "write",
             req[r] \in CheckRequest \cup ChangeRequest \cup AssignRequest
      PROVE  ~Counted(req'[r]) /\ \A q \in Requests : q # r => req'[q] = req[q]
  BY <1>0, <1>d DEF Goto, CheckRequest, ChangeRequest, AssignRequest
<1>e. ASSUME NEW r \in Requests, NEW q, Begin(r, q), ~Counted(q)
      PROVE  ~Counted(req'[r]) /\ \A s \in Requests : s # r => req'[s] = req[s]
  BY <1>0, <1>e DEF Begin
\* A handler that starts has not counted.
<1>1. ASSUME NEW r \in Requests, check(r) \/ update_policy(r) \/ delete_policy(r)
                \/ assign_policy_to_user(r) \/ remove_policy_from_user(r) \/ signup(r)
      PROVE  Goal
  <2>1. UNCHANGED <<held, lapsed>>
    <3>1. ASSUME check(r) \/ update_policy(r) \/ delete_policy(r) PROVE <2>1
      BY <3>1 DEF check, update_policy, delete_policy, tables, ghosts
    <3>2. ASSUME assign_policy_to_user(r) \/ remove_policy_from_user(r) PROVE <2>1
      BY <3>2 DEF assign_policy_to_user, remove_policy_from_user, tables, ghosts
    <3>3. ASSUME signup(r) PROVE <2>1
      BY <3>3 DEF signup, ghosts
    <3> QED
      BY <1>1, <3>1, <3>2, <3>3
  <2>2. \E q : Begin(r, q) /\ ~Counted(q)
    <3>1. ASSUME check(r) PROVE <2>2
      BY <3>1 DEF check
    <3>2. ASSUME update_policy(r) PROVE <2>2
      BY <3>2 DEF update_policy
    <3>3. ASSUME delete_policy(r) PROVE <2>2
      BY <3>3 DEF delete_policy
    <3>4. ASSUME assign_policy_to_user(r) PROVE <2>2
      BY <3>4 DEF assign_policy_to_user, Assigning
    <3>5. ASSUME remove_policy_from_user(r) PROVE <2>2
      <4>1. PICK a \in Accounts, p \in stored :
              Begin(r, Assigning("remove", IF p = Superuser THEN "count" ELSE "write", a, p))
        BY <3>5 DEF remove_policy_from_user
      <4>2. ~Counted(Assigning("remove", IF p = Superuser THEN "count" ELSE "write", a, p))
        BY DEF Assigning
      <4> QED
        BY <4>1, <4>2
    <3>6. ASSUME signup(r) PROVE <2>2
      BY <3>6 DEF signup, Assigning
    <3> QED
      BY <1>1, <3>1, <3>2, <3>3, <3>4, <3>5, <3>6
  <2> QED
    BY <1>b, <1>e, <2>1, <2>2
<1>2. ASSUME NEW r \in Requests,
             set_user_policies(r) \/ flushed(r) \/ invalidate_user_policies(r) \/ Fail(r)
      PROVE  Goal
  <2>1. ~lapsed /\ held' = held /\ Finish(r)
    BY <1>2 DEF set_user_policies, flushed, invalidate_user_policies, Fail, tables, ghosts
  <2> QED
    BY <1>b, <1>c, <2>1
<1>3. ASSUME NEW r \in Requests, select(r) \/ scan(r) \/ delete_key(r) PROVE Goal
  <2>1. ~lapsed /\ held' = held
    BY <1>3 DEF select, scan, delete_key, tables, ghosts
  <2>2. req[r] \in CheckRequest \cup ChangeRequest
    BY <1>0, <1>3, Shapes DEF select, scan, delete_key
  <2>3. req'[r].op # "remove"
    BY <1>0, <1>3, <2>2 DEF select, scan, delete_key, Finish, Idle, CheckRequest, ChangeRequest
  <2>4. \A q \in Requests : q # r => req'[q] = req[q]
    BY <1>0, <1>3 DEF select, scan, delete_key, Finish
  <2> QED
    BY <1>b, <2>1, <2>3, <2>4
<1>4. ASSUME NEW r \in Requests, write_update(r) PROVE Goal
  <2>1. ~lapsed /\ held' = held /\ (Finish(r) \/ Goto(r, "scan"))
    BY <1>4 DEF write_update
  <2>2. req[r] \in ChangeRequest
    BY <1>0, <1>4, Shapes DEF write_update
  <2> QED
    BY <1>b, <1>c, <1>d, <2>1, <2>2
<1>5. ASSUME NEW r \in Requests, write_delete(r) PROVE Goal
  <2>1. ~lapsed /\ Goto(r, "scan") /\ req[r] \in ChangeRequest
    BY <1>0, <1>5, Shapes DEF write_delete
  <2>2. req[r].policy # Superuser
    BY <1>5 DEF write_delete, BaselineInv
  <2>3. Holders(Superuser)' = Holders(Superuser)
    BY <1>5, <2>2 DEF write_delete, Holders
  <2> QED
    BY <1>a, <1>d, <2>1, <2>3
\* The count: more than one holder is two of them.
<1>6. ASSUME NEW r \in Requests, count_assignments(r) PROVE Goal
  <2>1. ~lapsed /\ held' = held
    BY <1>6 DEF count_assignments, tables, ghosts
  <2>2. Holders(Superuser)' = Holders(Superuser) /\ Holders(Superuser) # {}
    BY <2>1 DEF Holders, HoldersInv
  <2>3. CASE Cardinality(Holders(Superuser)) <= 1
    BY <1>6, <1>b, <1>c, <2>1, <2>3 DEF count_assignments
  <2>4. CASE ~(Cardinality(Holders(Superuser)) <= 1)
    <3>1. IsFiniteSet(Holders(Superuser))
      BY FS_Subset DEF Holders
    <3>2. TwoHolders'
      BY <2>1, <2>4, <3>1, TwoOrFewer DEF TwoHolders, Holders
    <3> QED
      BY <2>2, <3>2
  <2> QED
    BY <2>3, <2>4
<1>7. ASSUME NEW r \in Requests, write_assignment(r) PROVE Goal
  <2>1. ~lapsed /\ (Finish(r) \/ Goto(r, "invalidate"))
    BY <1>7 DEF write_assignment
  <2>2. req[r] \in AssignRequest
    BY <1>0, <1>7, Shapes DEF write_assignment
  <2>3. \A a \in Accounts : held[a] \subseteq held'[a]
    BY <1>0, <1>7 DEF write_assignment, StoresOK
  <2>4. Holders(Superuser) \subseteq Holders(Superuser)'
    BY <2>3 DEF Holders
  <2> QED
    BY <1>a, <1>c, <1>d, <2>1, <2>2, <2>4
\* A removal that was not overtaken leaves the other of the two it counted,
\* and overtakes every other removal.
<1>8. ASSUME NEW r \in Requests, write_removal(r) PROVE Goal
  <2>1. req[r] \in AssignRequest /\ req[r].op = "remove" /\ req[r].pc = "write" /\ ~lapsed
    BY <1>0, <1>8, Shapes DEF write_removal
  <2>2. CASE req[r].policy \notin held[req[r].account]
    BY <1>8, <1>b, <1>c, <2>1, <2>2 DEF write_removal
  <2>3. CASE req[r].policy \in held[req[r].account] /\ req[r].policy # Superuser
    <3>1. held' = [held EXCEPT ![req[r].account] = @ \ {req[r].policy}] /\ Goto(r, "invalidate")
      BY <1>8, <2>3 DEF write_removal
    <3>2. \A a \in Accounts : Superuser \in held[a] => Superuser \in held'[a]
      BY <1>0, <2>3, <3>1 DEF StoresOK
    <3>3. Holders(Superuser) \subseteq Holders(Superuser)'
      BY <3>2 DEF Holders
    <3> QED
      BY <1>a, <1>d, <2>1, <3>1, <3>3
  <2>4. CASE req[r].policy \in held[req[r].account] /\ req[r].policy = Superuser
    <3>1. /\ held' = [held EXCEPT ![req[r].account] = @ \ {Superuser}]
          /\ Overtake(r, "invalidate") /\ ~req[r].overtaken
      BY <1>8, <2>4 DEF write_removal
    <3>2. PICK a \in Holders(Superuser), b \in Holders(Superuser) : a # b
      BY <2>1, <2>4, <3>1 DEF HoldersInv, TwoHolders
    <3>3. a \in Holders(Superuser)' \/ b \in Holders(Superuser)'
      BY <1>0, <3>1, <3>2 DEF Holders, StoresOK
    <3>4. ASSUME NEW q \in Requests PROVE ~Counted(req'[q])
      <4>1. CASE q = r
        BY <2>1, <3>1, <4>1 DEF Overtake, AssignRequest
      <4>2. CASE q # r /\ req[q].op = "remove"
        <5>1. req[q] \in AssignRequest
          BY <1>0, <4>2, Shapes
        <5> QED
          BY <3>1, <4>2, <5>1 DEF Overtake, AssignRequest
      <4>3. CASE q # r /\ req[q].op # "remove"
        BY <3>1, <4>3 DEF Overtake
      <4> QED
        BY <4>1, <4>2, <4>3
    <3> QED
      BY <3>3, <3>4
  <2> QED
    BY <2>2, <2>3, <2>4
\* A purge of the last holder is a lapse; another one overtakes the removals.
<1>9. ASSUME purge_user PROVE Goal
  <2>1. PICK a \in Accounts :
          /\ held' = [held EXCEPT ![a] = {}]
          /\ lapsed' = (lapsed \/ Holders(Superuser) = {a})
          /\ req' = [q \in Requests |->
                       IF req[q].op = "remove" /\ Superuser \in held[a]
                       THEN [req[q] EXCEPT !.overtaken = TRUE] ELSE req[q]]
    BY <1>9 DEF purge_user
  <2>2. ~lapsed /\ Holders(Superuser) # {a} /\ Holders(Superuser) # {}
    BY <2>1 DEF HoldersInv
  <2>3. CASE Superuser \notin held[a]
    <3>1. Holders(Superuser)' = Holders(Superuser)
      BY <1>0, <2>1, <2>3 DEF Holders, StoresOK
    <3>2. req' = req
      BY <1>0, <2>1, <2>3
    <3> QED
      BY <1>a, <2>2, <3>1, <3>2
  <2>4. CASE Superuser \in held[a]
    <3>1. PICK b \in Holders(Superuser) : b # a
      BY <2>2
    <3>2. b \in Holders(Superuser)'
      BY <1>0, <2>1, <3>1 DEF Holders, StoresOK
    <3>3. ASSUME NEW q \in Requests PROVE ~Counted(req'[q])
      <4>1. CASE req[q].op = "remove"
        <5>1. req[q] \in AssignRequest
          BY <1>0, <4>1, Shapes
        <5> QED
          BY <2>1, <2>4, <4>1, <5>1 DEF AssignRequest
      <4>2. CASE req[q].op # "remove"
        BY <2>1, <4>2
      <4> QED
        BY <4>1, <4>2
    <3> QED
      BY <3>2, <3>3
  <2> QED
    BY <2>3, <2>4
<1>10. ASSUME create_policy \/ (\E e \in Emails : expire_key(e)) \/ UNCHANGED vars PROVE Goal
  <2>1. UNCHANGED <<held, req, lapsed>>
    BY <1>10 DEF create_policy, expire_key, vars, tables, ghosts
  <2>2. Holders(Superuser)' = Holders(Superuser)
    BY <2>1 DEF Holders
  <2> QED
    BY <1>a, <2>1, <2>2
<1>11. Goal
  BY <1>1, <1>2, <1>3, <1>4, <1>5, <1>6, <1>7, <1>8, <1>9, <1>10 DEF Next
<1> QED
  BY <1>11

\* Somebody can always manage policies, unless two removals of superusers
\* overlapped or the last superuser was purged.
THEOREM SomeoneCanManage == Spec => []AdministratorRemains
<1>1. Init => BaselineInv /\ HoldersInv
  BY AuthorizationAssumption DEF Init, BaselineInv, HoldersInv, Holders, Idle
<1>2. BaselineInv /\ HoldersInv => AdministratorRemains
  BY AuthorizationAssumption DEF BaselineInv, HoldersInv, AdministratorRemains
<1> QED
  BY <1>1, <1>2, InitType, StepType, BaselineStep, HoldersStep, PTL DEF Spec

-----------------------------------------------------------------------------
(* The history of a policy: HistoryTellsTheRow is inductive.               *)

\* A change made on the definition it had loaded leaves what it asked for.
LEMMA MergedFresh ==
    ASSUME NEW row \in Definition, NEW q \in ChangeRequest, q.loaded = row
    PROVE  Merged(row, q) = q.new
  BY DEF Merged, ChangeRequest, Definition

LEMMA HistoryStep == TypeOK /\ HistoryTellsTheRow /\ [Next]_vars => HistoryTellsTheRow'
<1> SUFFICES ASSUME TypeOK, HistoryTellsTheRow, [Next]_vars PROVE HistoryTellsTheRow'
  OBVIOUS
<1> USE AuthorizationAssumption
<1>0. StoresOK /\ req \in [Requests -> Request]
  BY DEF TypeOK
<1> DEFINE Told(p) == CASE history[p].change_type = "none"    -> TRUE
                        [] history[p].change_type = "deleted" -> p \notin stored
                        [] OTHER -> p \in stored /\ policies[p] = history[p].definition
           Same(p) == (p \in stored <=> p \in stored') /\ policies'[p] = policies[p]
                      /\ history'[p] = history[p]
\* It is enough to look at the policies a step touches.
<1>a. ASSUME \A p \in Policies \ mixed' : (p \notin mixed /\ Same(p)) \/ Told(p)'
      PROVE  HistoryTellsTheRow'
  BY <1>a DEF HistoryTellsTheRow
<1>1. ASSUME NEW r \in Requests, write_update(r) PROVE HistoryTellsTheRow'
  <2>1. req[r] \in ChangeRequest
    BY <1>0, <1>1, Shapes DEF write_update
  <2>2. SUFFICES ASSUME NEW p \in Policies \ mixed' PROVE (p \notin mixed /\ Same(p)) \/ Told(p)'
    BY <1>a
  <2>3. CASE p # req[r].policy
    BY <1>0, <1>1, <2>2, <2>3 DEF write_update, Record, StoresOK
  <2>4. CASE p = req[r].policy /\ p \notin stored
    BY <1>1, <2>2, <2>4 DEF write_update
  <2>5. CASE p = req[r].policy /\ p \in stored
    <3>1. req[r].loaded = policies[p]
      BY <1>1, <2>2, <2>5 DEF write_update
    <3>2. history'[p] = [change_type |-> "updated", definition |-> req[r].new]
      BY <1>0, <1>1, <2>5 DEF write_update, Record, StoresOK
    <3>3. policies'[p] = Merged(policies[p], req[r])
      BY <1>0, <1>1, <2>5 DEF write_update, StoresOK
    <3>4. policies'[p] = req[r].new /\ p \in stored'
      BY <1>0, <1>1, <2>1, <2>5, <3>1, <3>3, MergedFresh DEF write_update, StoresOK
    <3>5. history'[p].change_type = "updated" /\ history'[p].definition = req[r].new
      BY <3>2
    <3> QED
      BY <3>4, <3>5
  <2> QED
    BY <2>3, <2>4, <2>5
<1>2. ASSUME NEW r \in Requests, write_delete(r) PROVE HistoryTellsTheRow'
  <2>1. SUFFICES ASSUME NEW p \in Policies \ mixed' PROVE (p \notin mixed /\ Same(p)) \/ Told(p)'
    BY <1>a
  <2>2. CASE p # req[r].policy
    BY <1>0, <1>2, <2>1, <2>2 DEF write_delete, Record, StoresOK
  <2>3. CASE p = req[r].policy
    <3>1. history'[p] = [change_type |-> "deleted", definition |-> req[r].loaded] /\ p \notin stored'
      BY <1>0, <1>2, <2>3 DEF write_delete, Record, StoresOK
    <3>2. history'[p].change_type = "deleted"
      BY <3>1
    <3> QED
      BY <3>1, <3>2
  <2> QED
    BY <2>2, <2>3
<1>3. ASSUME create_policy PROVE HistoryTellsTheRow'
  <2>1. PICK c \in Policies \ stored, d \in Definition :
          /\ stored' = stored \cup {c}
          /\ policies' = [policies EXCEPT ![c] = d]
          /\ Record(c, "created", d)
    BY <1>3 DEF create_policy
  <2>2. mixed' = mixed
    BY <1>3 DEF create_policy, ghosts
  <2>3. SUFFICES ASSUME NEW p \in Policies \ mixed' PROVE (p \notin mixed /\ Same(p)) \/ Told(p)'
    BY <1>a
  <2>4. CASE p # c
    BY <1>0, <2>1, <2>2, <2>3, <2>4 DEF Record, StoresOK
  <2>5. CASE p = c
    <3>1. history'[p] = [change_type |-> "created", definition |-> d]
      BY <1>0, <2>1, <2>5 DEF Record, StoresOK
    <3>2. policies'[p] = d /\ p \in stored'
      BY <1>0, <2>1, <2>5 DEF StoresOK
    <3>3. history'[p].change_type = "created" /\ history'[p].definition = d
      BY <3>1
    <3> QED
      BY <3>2, <3>3
  <2> QED
    BY <2>4, <2>5
\* Every other step leaves the policies, their history and mixed alone.
<1>b. ASSUME UNCHANGED <<stored, policies, history, mixed>> PROVE HistoryTellsTheRow'
  BY <1>b DEF HistoryTellsTheRow
<1>4. ASSUME NEW r \in Requests,
             \/ check(r) \/ select(r) \/ set_user_policies(r) \/ update_policy(r) \/ delete_policy(r)
             \/ scan(r) \/ delete_key(r) \/ flushed(r) \/ assign_policy_to_user(r)
             \/ remove_policy_from_user(r) \/ count_assignments(r)
             \/ invalidate_user_policies(r) \/ Fail(r)
      PROVE  HistoryTellsTheRow'
  BY <1>4, <1>b DEF check, select, set_user_policies, update_policy, delete_policy, scan,
     delete_key, flushed, assign_policy_to_user, remove_policy_from_user, count_assignments,
     invalidate_user_policies, Fail, tables, ghosts
<1>5. ASSUME NEW r \in Requests, write_assignment(r) \/ write_removal(r) \/ signup(r)
      PROVE  HistoryTellsTheRow'
  BY <1>5, <1>b DEF write_assignment, write_removal, signup, ghosts
<1>6. ASSUME purge_user \/ (\E e \in Emails : expire_key(e)) \/ UNCHANGED vars PROVE HistoryTellsTheRow'
  BY <1>6, <1>b DEF purge_user, expire_key, vars, tables, ghosts
<1> QED
  BY <1>1, <1>2, <1>3, <1>4, <1>5, <1>6 DEF Next

\* The newest history entry of a policy describes its row, unless it was
\* recorded by a change that had loaded another definition.
THEOREM HistoryIsTrue == Spec => []HistoryTellsTheRow
<1>1. Init => HistoryTellsTheRow
  BY DEF Init, HistoryTellsTheRow
<1> QED
  BY <1>1, InitType, StepType, HistoryStep, PTL DEF Spec
=============================================================================
