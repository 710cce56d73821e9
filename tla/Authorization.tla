---------------------------- MODULE Authorization ----------------------------
(***************************************************************************)
(* Policies, who holds them, the history of their definitions, and the     *)
(* Redis cache of each account's active policies that every permission     *)
(* check reads.                                                            *)
(*                                                                         *)
(* A check that misses the cache reads the tables and fills the cache; a   *)
(* mutation commits to the tables and then deletes the keys it has made    *)
(* stale.  No lock joins the two stores.  Handlers are split where they    *)
(* await one of them; the statements of one commit are one step.  A key of *)
(* the cache is an e-mail address, and serves whichever account has it.    *)
(***************************************************************************)
EXTENDS Integers, FiniteSets

CONSTANTS
    Accounts,      \* rows of the users table, each created at most once
    Emails,        \* addresses
    EmailOf,       \* the address of each account
    System,        \* the account made by create_system_user
    Policies,      \* rows of the policies table, each created at most once
    Baseline,      \* PROTECTED_POLICY_NAMES
    Superuser,     \* system_superuser
    SelfService,   \* self_service, what an account starts with
    Grants,        \* what a policy grants: its actions, resource type, conditions
    Requests,      \* requests that can be in flight at the same time
    MaxRequests    \* bound: requests started in all

ASSUME AuthorizationAssumption ==
    /\ IsFiniteSet(Accounts)
    /\ EmailOf \in [Accounts -> Emails]
    /\ System \in Accounts
    /\ Baseline \subseteq Policies
    /\ Superuser \in Baseline
    /\ SelfService \in Baseline
    /\ MaxRequests \in Nat

VARIABLES
    users,      \* of every account: not created yet, in the table, or purged
    stored,     \* the policies in the table
    policies,   \* the definition of each of them
    held,       \* user_policies: the policies assigned to each account
    history,    \* policy_history: the newest entry of each policy
    cache,      \* authz:user_policies:{email}: at most one list per address
    started,    \* how many requests were started
    req,        \* the requests in flight
    suspects,   \* history: addresses whose key may be stale until it expires
    mixed,      \* history: policies last changed by a request that had loaded
                \*          another definition than the one it changed
    lapsed      \* history: the guard on the last superuser was got around

tables == <<users, stored, policies, held, history>>
ghosts == <<suspects, mixed, lapsed>>
vars == <<tables, cache, started, req, ghosts>>

Definition == [grant : Grants, is_active : BOOLEAN]
Entry      == [change_type : {"none", "created", "updated", "deleted"}, definition : Definition]

\* What the evaluator is given: what each active policy held grants.
PolicyList == SUBSET [policy : Policies, grant : Grants]

Idle == [op |-> "none", pc |-> "idle"]

\* A request, its next await, whose key or which policy it is about, and
\*   list       what a check has read from the tables,
\*   loaded     the row a change started from, and new what it makes of it,
\*   keys       the keys a flush has still to delete,
\*   overtaken  (history) an account lost Superuser since the holders were counted.
CheckRequest  == [op : {"check"}, pc : {"select", "fill"}, email : Emails, list : PolicyList]
ChangeRequest == [op : {"update", "delete"}, pc : {"write", "scan", "flush"}, policy : Policies,
                  loaded : Definition, new : Definition, keys : SUBSET Emails]
AssignRequest == [op : {"assign", "remove", "signup"}, pc : {"count", "write", "invalidate"},
                  account : Accounts, policy : Policies, overtaken : BOOLEAN]
Request       == {Idle} \cup CheckRequest \cup ChangeRequest \cup AssignRequest

StoresOK ==
    /\ users \in [Accounts -> {"new", "present", "purged"}]
    /\ stored \subseteq Policies
    /\ policies \in [Policies -> Definition]
    /\ held \in [Accounts -> SUBSET stored]
    /\ \A a \in Accounts : held[a] # {} => users[a] = "present"
    /\ history \in [Policies -> Entry]
    /\ cache \in [Emails -> SUBSET PolicyList]
    /\ suspects \subseteq Emails
    /\ mixed \subseteq Policies
    /\ lapsed \in BOOLEAN

TypeOK ==
    /\ StoresOK
    /\ started \in 0 .. MaxRequests
    /\ req \in [Requests -> Request]

\* The seeding migration and create_system_user have run.
Init ==
    /\ users = [a \in Accounts |-> IF a = System THEN "present" ELSE "new"]
    /\ stored = Baseline
    /\ \E g \in Grants : policies = [p \in Policies |-> [grant |-> g, is_active |-> TRUE]]
    /\ held = [a \in Accounts |-> IF a = System THEN {Superuser, SelfService} ELSE {}]
    /\ history = [p \in Policies |-> [change_type |-> "none", definition |-> policies[p]]]
    /\ cache = [e \in Emails |-> {}]
    /\ started = 0
    /\ req = [r \in Requests |-> Idle]
    /\ suspects = {}
    /\ mixed = {}
    /\ lapsed = FALSE

-----------------------------------------------------------------------------
\* get_active_policies_for_user's query.
Effective(e) ==
    {[policy |-> p, grant |-> policies[p].grant] :
        p \in {q \in stored : /\ policies[q].is_active
                              /\ \E a \in Accounts : EmailOf[a] = e /\ q \in held[a]}}

Holders(p) == {a \in Accounts : p \in held[a]}

Goto(r, pc)  == req' = [req EXCEPT ![r].pc = pc]
Finish(r)    == req' = [req EXCEPT ![r] = Idle]

Begin(r, q) ==
    /\ req[r] = Idle
    /\ started < MaxRequests
    /\ started' = started + 1
    /\ req' = [req EXCEPT ![r] = q]

\* The requests after r moves on to pc, once an account has lost Superuser.
Overtake(r, pc) ==
    req' = [q \in Requests |->
              IF q = r THEN [req[q] EXCEPT !.pc = pc]
              ELSE IF req[q].op = "remove" THEN [req[q] EXCEPT !.overtaken = TRUE]
              ELSE req[q]]

-----------------------------------------------------------------------------
(* get_active_policies_for_user: a permission check that does not find its *)
(* list in the cache.  A hit changes nothing.                              *)

\* A GET that fails is a miss.
check(r) ==
    \E a \in Accounts :
        /\ users[a] = "present"
        /\ Begin(r, [op |-> "check", pc |-> "select", email |-> EmailOf[a], list |-> {}])
        /\ UNCHANGED <<tables, cache, ghosts>>

select(r) ==
    /\ req[r].pc = "select"
    /\ req' = [req EXCEPT ![r].list = Effective(req[r].email), ![r].pc = "fill"]
    /\ UNCHANGED <<tables, cache, started, ghosts>>

\* Nothing tells the reader that the tables have changed since it read them.
set_user_policies(r) ==
    LET e == req[r].email IN
    /\ req[r].pc = "fill"
    /\ cache' = [cache EXCEPT ![e] = {req[r].list}]
    /\ suspects' = IF req[r].list = Effective(e) THEN suspects \ {e} ELSE suspects \cup {e}
    /\ Finish(r)
    /\ UNCHANGED <<tables, started, mixed, lapsed>>

\* ex=_USER_POLICIES_TTL_SECONDS.
expire_key(e) ==
    /\ cache[e] # {}
    /\ cache' = [cache EXCEPT ![e] = {}]
    /\ suspects' = suspects \ {e}
    /\ UNCHANGED <<tables, started, req, mixed, lapsed>>

-----------------------------------------------------------------------------
(* Policies: create, update (and rollback, an update whose new definition  *)
(* comes from the history), delete.                                        *)

\* Mutant: the change is recorded with the definition it replaced.
Record_previous(p, type, d) ==
    history' = [history EXCEPT ![p] = [change_type |-> type, definition |-> policies[p]]]

\* add_entry: the definition left by the change, or the one deleted.
Record(p, type, d) ==
    history' = [history EXCEPT ![p] = [change_type |-> type, definition |-> d]]

create_policy ==
    \E p \in Policies \ stored, d \in Definition :
        /\ started < MaxRequests
        /\ history[p].change_type = "none"
        /\ stored' = stored \cup {p}
        /\ policies' = [policies EXCEPT ![p] = d]
        /\ Record(p, "created", d)
        /\ started' = started + 1
        /\ UNCHANGED <<users, held, cache, req, ghosts>>

\* Mutant: a baseline policy can be deactivated.
AnyDefinition(p) == Definition

\* What PUT and rollback let a request ask for.
Allowed(p) == {d \in Definition : p \in Baseline => d.is_active}

update_policy(r) ==
    \E p \in stored : \E d \in Allowed(p) :
        /\ Begin(r, [op |-> "update", pc |-> "write", policy |-> p,
                     loaded |-> policies[p], new |-> d, keys |-> {}])
        /\ UNCHANGED <<tables, cache, ghosts>>

delete_policy(r) ==
    \E p \in stored \ Baseline :
        /\ Begin(r, [op |-> "delete", pc |-> "write", policy |-> p,
                     loaded |-> policies[p], new |-> policies[p], keys |-> {}])
        /\ UNCHANGED <<tables, cache, ghosts>>

\* The UPDATE names the columns that differ from the loaded row's.
Merged(row, q) ==
    [grant     |-> IF q.new.grant # q.loaded.grant THEN q.new.grant ELSE row.grant,
     is_active |-> IF q.new.is_active # q.loaded.is_active THEN q.new.is_active ELSE row.is_active]

\* The history is told what the loaded object has become.
\* A row deleted meanwhile: an UPDATE that finds no row undoes the commit; an
\* update with nothing to write commits its history entry, then fails.
write_update(r) ==
    LET q == req[r]
        p == q.policy
    IN
    /\ q.pc = "write" /\ q.op = "update"
    /\ policies' = IF p \in stored THEN [policies EXCEPT ![p] = Merged(@, q)] ELSE policies
    /\ IF p \in stored \/ q.new = q.loaded
       THEN /\ Record(p, "updated", q.new)
            /\ mixed' = IF p \in stored /\ q.loaded = policies[p]
                        THEN mixed \ {p} ELSE mixed \cup {p}
       ELSE UNCHANGED <<history, mixed>>
    /\ IF p \in stored THEN Goto(r, "scan") ELSE Finish(r)
    /\ UNCHANGED <<users, stored, held, cache, started, suspects, lapsed>>

\* Mutant: a delete does not flush.
delete_without_flush(r) ==
    LET p == req[r].policy IN
    /\ req[r].pc = "write" /\ req[r].op = "delete"
    /\ stored' = stored \ {p}
    /\ held' = [a \in Accounts |-> held[a] \ {p}]
    /\ Record(p, "deleted", req[r].loaded)
    /\ mixed' = mixed \ {p}
    /\ Finish(r)
    /\ UNCHANGED <<users, policies, cache, started, suspects, lapsed>>

\* The assignments go with the row.  Deleting a row already gone is no error.
write_delete(r) ==
    LET p == req[r].policy IN
    /\ req[r].pc = "write" /\ req[r].op = "delete"
    /\ stored' = stored \ {p}
    /\ held' = [a \in Accounts |-> held[a] \ {p}]
    /\ Record(p, "deleted", req[r].loaded)
    /\ mixed' = mixed \ {p}
    /\ Goto(r, "scan")
    /\ UNCHANGED <<users, policies, cache, started, suspects, lapsed>>

\* The row is refreshed after the commit, which fails if it is gone; then
\* SCAN returns every key that exists while it runs, and may return keys
\* that are set meanwhile.
scan(r) ==
    LET q == req[r] IN
    /\ q.pc = "scan"
    /\ IF q.op = "update" /\ q.policy \notin stored
       THEN Finish(r)
       ELSE \E late \in SUBSET Emails :
              req' = [req EXCEPT ![r].pc = "flush",
                                 ![r].keys = {e \in Emails : cache[e] # {}} \cup late]
    /\ UNCHANGED <<tables, cache, started, ghosts>>

delete_key(r) ==
    /\ req[r].pc = "flush"
    /\ \E e \in req[r].keys :
         /\ cache' = [cache EXCEPT ![e] = {}]
         /\ suspects' = suspects \ {e}
         /\ req' = [req EXCEPT ![r].keys = @ \ {e}]
    /\ UNCHANGED <<tables, started, mixed, lapsed>>

flushed(r) ==
    /\ req[r].pc = "flush" /\ req[r].keys = {}
    /\ Finish(r)
    /\ UNCHANGED <<tables, cache, started, ghosts>>

-----------------------------------------------------------------------------
(* Assignments.                                                            *)

Assigning(op, pc, a, p) ==
    [op |-> op, pc |-> pc, account |-> a, policy |-> p, overtaken |-> FALSE]

assign_policy_to_user(r) ==
    \E a \in Accounts, p \in stored :
        /\ users[a] = "present"
        /\ Begin(r, Assigning("assign", "write", a, p))
        /\ UNCHANGED <<tables, cache, ghosts>>

remove_policy_from_user(r) ==
    \E a \in Accounts, p \in stored :
        /\ users[a] = "present"
        /\ Begin(r, Assigning("remove", IF p = Superuser THEN "count" ELSE "write", a, p))
        /\ UNCHANGED <<tables, cache, ghosts>>

\* Mutant: the last holder can be removed.
count_lets_last_go(r) ==
    /\ req[r].pc = "count"
    /\ IF Cardinality(Holders(Superuser)) <= 0
       THEN Finish(r)
       ELSE req' = [req EXCEPT ![r].pc = "write", ![r].overtaken = FALSE]
    /\ UNCHANGED <<tables, cache, started, ghosts>>

\* Nobody is left to manage policies if the last holder goes.
count_assignments(r) ==
    /\ req[r].pc = "count"
    /\ IF Cardinality(Holders(Superuser)) <= 1
       THEN Finish(r)
       ELSE req' = [req EXCEPT ![r].pc = "write", ![r].overtaken = FALSE]
    /\ UNCHANGED <<tables, cache, started, ghosts>>

\* Already held: nothing is written, and nothing invalidated.  The foreign
\* keys refuse an account or a policy that is gone.  Signup passes no
\* address, and nothing is invalidated for it.
write_assignment(r) ==
    LET q == req[r] IN
    /\ q.pc = "write" /\ q.op \in {"assign", "signup"}
    /\ IF users[q.account] = "present" /\ q.policy \in stored \ held[q.account]
       THEN /\ held' = [held EXCEPT ![q.account] = @ \cup {q.policy}]
            /\ IF q.op = "assign" THEN Goto(r, "invalidate") ELSE Finish(r)
            /\ suspects' = IF q.op = "signup" THEN suspects \cup {EmailOf[q.account]} ELSE suspects
       ELSE /\ Finish(r)
            /\ UNCHANGED <<held, suspects>>
    /\ UNCHANGED <<users, stored, policies, history, cache, started, mixed, lapsed>>

\* Not held: nothing is written, and nothing invalidated.
write_removal(r) ==
    LET q == req[r] IN
    /\ q.pc = "write" /\ q.op = "remove"
    /\ IF q.policy \in held[q.account]
       THEN /\ held' = [held EXCEPT ![q.account] = @ \ {q.policy}]
            /\ IF q.policy = Superuser THEN Overtake(r, "invalidate") ELSE Goto(r, "invalidate")
            /\ lapsed' = (lapsed \/ (q.policy = Superuser /\ q.overtaken))
       ELSE /\ Finish(r)
            /\ UNCHANGED <<held, lapsed>>
    /\ UNCHANGED <<users, stored, policies, history, cache, started, suspects, mixed>>

invalidate_user_policies(r) ==
    LET e == EmailOf[req[r].account] IN
    /\ req[r].pc = "invalidate"
    /\ cache' = [cache EXCEPT ![e] = {}]
    /\ suspects' = suspects \ {e}
    /\ Finish(r)
    /\ UNCHANGED <<tables, started, mixed, lapsed>>

-----------------------------------------------------------------------------
(* Accounts come and go beside the cache.                                  *)

\* The row is committed before its first policy is assigned.
signup(r) ==
    \E a \in Accounts :
        /\ users[a] = "new"
        /\ \A b \in Accounts : EmailOf[b] = EmailOf[a] => users[b] # "present"
        /\ users' = [users EXCEPT ![a] = "present"]
        /\ Begin(r, Assigning("signup", "write", a, SelfService))
        /\ UNCHANGED <<stored, policies, held, history, cache, ghosts>>

\* The assignments go with the row; the key of its address stays.  Unlike a
\* removal, a purge counts no holders.
purge_user ==
    \E a \in Accounts \ {System} :
        /\ users[a] = "present"
        /\ started < MaxRequests
        /\ users' = [users EXCEPT ![a] = "purged"]
        /\ held' = [held EXCEPT ![a] = {}]
        /\ suspects' = suspects \cup {EmailOf[a]}
        /\ lapsed' = (lapsed \/ Holders(Superuser) = {a})
        /\ req' = [q \in Requests |->
                     IF req[q].op = "remove" /\ Superuser \in held[a]
                     THEN [req[q] EXCEPT !.overtaken = TRUE] ELSE req[q]]
        /\ started' = started + 1
        /\ UNCHANGED <<stored, policies, history, cache, mixed>>

-----------------------------------------------------------------------------
\* The keys a request still has to delete.
Owes(r, e) ==
    \/ req[r].pc = "scan" /\ (req[r].op = "update" => req[r].policy \in stored)
    \/ req[r].pc = "flush" /\ e \in req[r].keys
    \/ req[r].pc = "invalidate" /\ e = EmailOf[req[r].account]

\* A request that fails, or dies, at an await.  A Redis command that fails is
\* caught, and ends the invalidation or the fill the same way.
Fail(r) ==
    /\ req[r] # Idle
    /\ suspects' = suspects \cup {e \in Emails : Owes(r, e)}
    /\ Finish(r)
    /\ UNCHANGED <<tables, cache, started, mixed, lapsed>>

Next ==
    \/ \E r \in Requests :
         \/ check(r)
         \/ select(r)
         \/ set_user_policies(r)
         \/ update_policy(r)
         \/ write_update(r)
         \/ delete_policy(r)
         \/ write_delete(r)
         \/ scan(r)
         \/ delete_key(r)
         \/ flushed(r)
         \/ assign_policy_to_user(r)
         \/ remove_policy_from_user(r)
         \/ count_assignments(r)
         \/ write_assignment(r)
         \/ write_removal(r)
         \/ invalidate_user_policies(r)
         \/ signup(r)
         \/ Fail(r)
    \/ create_policy
    \/ purge_user
    \/ \E e \in Emails : expire_key(e)

Spec == Init /\ [][Next]_vars

-----------------------------------------------------------------------------
(* Properties.                                                             *)

\* A cached list differs from what the tables say for one of three reasons
\* only: the request that changed the tables has still to delete the key; it
\* failed before it did; or the key was set or kept by something that does
\* not invalidate (a check that read before a commit and set after it, a
\* purge, a signup).  Every path of PolicyRepository that commits a change
\* invalidates what the change made stale.
StaleOnlyForAReason ==
    \A e \in Emails \ suspects :
        (\A r \in Requests : ~Owes(r, e)) => cache[e] \subseteq {Effective(e)}

\* Somebody can always manage policies: some account holds system_superuser,
\* and it is active, unless two removals were counted before either was
\* committed, or the last holder was purged (remove_policy_from_user's
\* "lockout protection", update_policy's guard on deactivation).
AdministratorRemains ==
    ~lapsed => Holders(Superuser) # {} /\ policies[Superuser].is_active

\* The newest history entry of a policy describes its row, unless the change
\* it records was made on another definition than the one it had loaded.
HistoryTellsTheRow ==
    \A p \in Policies \ mixed :
        CASE history[p].change_type = "none"    -> TRUE
          [] history[p].change_type = "deleted" -> p \notin stored
          [] OTHER                              -> p \in stored /\ policies[p] = history[p].definition

\* "A brand-new user has nothing cached yet to invalidate"
\* (policy_repository.py:262).
AccountsInheritNothing ==
    [][\A a \in Accounts :
         users[a] = "new" /\ users'[a] = "present" => cache[EmailOf[a]] = {}]_vars
=============================================================================
