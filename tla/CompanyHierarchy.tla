--------------------------- MODULE CompanyHierarchy ---------------------------
(***************************************************************************)
(* The companies table: a forest by parent_company_id, with the top-most   *)
(* ancestor of every row kept beside it in group_root_id, the column that  *)
(* access policies compare.                                                *)
(*                                                                         *)
(* Postgres runs at READ COMMITTED and no handler locks a row, so a        *)
(* handler is one action per statement, each of which sees what has        *)
(* committed when it runs.  The row a handler loads stays as it was        *)
(* loaded: the session keeps its objects across commits, and writes only   *)
(* the columns that differ from what it loaded.  The statements of one     *)
(* commit are one step: the INSERT or UPDATE locks what it checks.         *)
(***************************************************************************)
EXTENDS Integers, FiniteSets

CONSTANTS
    Requests,     \* requests that can be in flight at the same time
    MaxCompanies, \* bound: ids the sequence of the table hands out
    MaxRequests   \* bound: requests started in all

ASSUME BoundsAssumption == MaxCompanies \in Nat /\ MaxRequests \in Nat

Ids      == 1 .. MaxCompanies
NoParent == 0     \* parent_company_id IS NULL
Keep     == -1    \* a PATCH that leaves parent_company_id alone
NoId     == 0

VARIABLES
    stored,             \* ids of the rows in the table
    parent_company_id,  \* of every row, NoParent for a root
    group_root_id,      \* of every row
    nextId,             \* the id the next INSERT draws
    started,            \* how many requests were started
    req,                \* the requests in flight
    raced               \* history: a request committed after another one
                        \*          had changed the table under it

columns == <<stored, parent_company_id, group_root_id, nextId>>
vars == <<columns, started, req, raced>>

Idle == [op |-> "none", pc |-> "idle", id |-> NoId, to |-> Keep,
         own |-> [parent |-> NoParent, root |-> NoId], up |-> NoId, below |-> {},
         overtaken |-> FALSE]

\* A request: its handler, its next statement, the row it loaded and that
\* row's columns, the parent it asks for, that parent's group root, the
\* subsidiaries it loaded, and (history) whether another request has changed
\* the tree since it started.
Request ==
    [op : {"none", "create", "update", "delete"},
     pc : {"idle", "count", "parent", "insert", "write", "select", "delete"},
     id : Ids \cup {NoId}, to : Ids \cup {NoParent, Keep},
     own : [parent : Ids \cup {NoParent}, root : Ids \cup {NoId}],
     up : Ids \cup {NoId}, below : SUBSET Ids, overtaken : BOOLEAN]

TypeOK ==
    /\ stored \subseteq Ids
    /\ parent_company_id \in [Ids -> Ids \cup {NoParent}]
    /\ group_root_id \in [Ids -> Ids \cup {NoId}]
    /\ nextId \in 1 .. MaxCompanies + 1
    /\ \A c \in stored : c < nextId /\ group_root_id[c] \in Ids
    /\ started \in 0 .. MaxRequests
    /\ req \in [Requests -> Request]
    /\ raced \in BOOLEAN

Init ==
    /\ stored = {}
    /\ parent_company_id = [c \in Ids |-> NoParent]
    /\ group_root_id = [c \in Ids |-> NoId]
    /\ nextId = 1
    /\ started = 0
    /\ req = [r \in Requests |-> Idle]
    /\ raced = FALSE

-----------------------------------------------------------------------------
Subsidiaries(c) == {d \in stored : parent_company_id[d] = c}

Goto(r, pc) == req' = [req EXCEPT ![r].pc = pc]
Finish(r)   == req' = [req EXCEPT ![r] = Idle]

Begin(r, q) ==
    /\ req[r] = Idle
    /\ started < MaxRequests
    /\ started' = started + 1
    /\ req' = [req EXCEPT ![r] = q]
    /\ UNCHANGED <<columns, raced>>

\* A commit that changes the tree: the other requests in flight may hold
\* what it has just made stale.
Commit(r) ==
    /\ req' = [q \in Requests |->
                 CASE q = r             -> Idle
                   [] req[q].op = "none" -> req[q]
                   [] OTHER             -> [req[q] EXCEPT !.overtaken = TRUE]]
    /\ raced' = (raced \/ req[r].overtaken)

-----------------------------------------------------------------------------
(* create_company.                                                         *)

\* POST /companies/: parent_company_id is any id the client sends.
add_company(r) ==
    \E to \in Ids \cup {NoParent} :
        Begin(r, [Idle EXCEPT !.op = "create", !.to = to,
                              !.pc = IF to = NoParent THEN "insert" ELSE "parent"])

\* The parent's own group root is the new row's: nothing is walked.
get_parent(r) ==
    /\ req[r].pc = "parent"
    /\ IF req[r].to \in stored
       THEN req' = [req EXCEPT ![r].up = group_root_id[req[r].to],
                               ![r].pc = IF req[r].op = "create" THEN "insert" ELSE "write"]
       ELSE Finish(r)
    /\ UNCHANGED <<columns, started, raced>>

\* Mutant: the placeholder root of the INSERT is left in the row.
create_leaves_placeholder(r) ==
    /\ req[r].pc = "insert"
    /\ nextId <= MaxCompanies
    /\ req[r].to \in stored \cup {NoParent}
    /\ stored' = stored \cup {nextId}
    /\ parent_company_id' = [parent_company_id EXCEPT ![nextId] = req[r].to]
    /\ nextId' = nextId + 1
    /\ Commit(r)
    /\ UNCHANGED <<group_root_id, started>>

\* The foreign key is checked as the row goes in; the caller is told the
\* ticker is taken, whichever constraint refused it.
create_company(r) ==
    LET to == req[r].to IN
    /\ req[r].pc = "insert"
    /\ nextId <= MaxCompanies
    /\ IF to = NoParent \/ to \in stored
       THEN /\ stored' = stored \cup {nextId}
            /\ parent_company_id' = [parent_company_id EXCEPT ![nextId] = to]
            /\ group_root_id' = [group_root_id EXCEPT ![nextId] =
                                   IF to = NoParent THEN nextId ELSE req[r].up]
            /\ Commit(r)
       ELSE /\ Finish(r)
            /\ UNCHANGED <<stored, parent_company_id, group_root_id, raced>>
    /\ nextId' = nextId + 1
    /\ UNCHANGED started

-----------------------------------------------------------------------------
(* update_company.                                                         *)

Loaded(c) == [parent |-> parent_company_id[c], root |-> group_root_id[c]]

\* PATCH /companies/{company_id}: the row is loaded, and the caller is
\* authorized for the group root it was loaded with.  Asking for the parent
\* the row has is asking for nothing; asking for the row itself is refused.
edit_company(r) ==
    \E c \in stored, to \in Ids \cup {NoParent, Keep} :
        /\ to # c
        /\ LET moves == to # Keep /\ to # parent_company_id[c] IN
           Begin(r, [Idle EXCEPT !.op = "update", !.id = c, !.own = Loaded(c),
                                 !.to = IF moves THEN to ELSE Keep,
                                 !.pc = IF moves THEN "count" ELSE "write"])

\* Mutant: only deletes look at the subsidiaries.
count_for_delete_only(r) ==
    /\ req[r].pc = "count"
    /\ IF req[r].op = "delete" /\ Subsidiaries(req[r].id) # {}
       THEN Finish(r)
       ELSE Goto(r, CASE req[r].op = "delete"   -> "select"
                      [] req[r].to = NoParent   -> "write"
                      [] OTHER                  -> "parent")
    /\ UNCHANGED <<columns, started, raced>>

\* Neither a reparent nor a delete is allowed over subsidiaries.
count_subsidiaries(r) ==
    /\ req[r].pc = "count"
    /\ IF Subsidiaries(req[r].id) # {}
       THEN Finish(r)
       ELSE Goto(r, CASE req[r].op = "delete"   -> "select"
                      [] req[r].to = NoParent   -> "write"
                      [] OTHER                  -> "parent")
    /\ UNCHANGED <<columns, started, raced>>

\* The columns the request leaves in the loaded object.
Edited(q) ==
    CASE q.to = Keep     -> q.own
      [] q.to = NoParent -> [parent |-> NoParent, root |-> q.id]
      [] OTHER           -> [parent |-> q.to, root |-> q.up]

\* Mutant: the UPDATE names every column of the loaded object.
WritesAll(q) == {"parent", "root"}

\* What of them the UPDATE names: the columns that differ from the loaded.
Written(q) == {f \in {"parent", "root"} : Edited(q)[f] # q.own[f]}

\* Nothing to write, a row deleted meanwhile, or a parent deleted meanwhile:
\* the table stays as it is.
update_company(r) ==
    LET q == req[r]
        new == Edited(q)
    IN
    /\ q.pc = "write"
    /\ IF Written(q) # {} /\ q.id \in stored
             /\ ("parent" \in Written(q) => new.parent \in stored \cup {NoParent})
       THEN /\ parent_company_id' = IF "parent" \in Written(q)
                                    THEN [parent_company_id EXCEPT ![q.id] = new.parent]
                                    ELSE parent_company_id
            /\ group_root_id' = IF "root" \in Written(q)
                                THEN [group_root_id EXCEPT ![q.id] = new.root]
                                ELSE group_root_id
            /\ Commit(r)
       ELSE /\ Finish(r)
            /\ UNCHANGED <<parent_company_id, group_root_id, raced>>
    /\ UNCHANGED <<stored, nextId, started>>

-----------------------------------------------------------------------------
(* delete_company.                                                         *)

remove_company(r) ==
    \E c \in stored :
        Begin(r, [Idle EXCEPT !.op = "delete", !.pc = "count", !.id = c, !.own = Loaded(c)])

\* Company.subsidiaries: the flush loads who slipped in after the count.
select_subsidiaries(r) ==
    /\ req[r].pc = "select"
    /\ req' = [req EXCEPT ![r].below = Subsidiaries(req[r].id), ![r].pc = "delete"]
    /\ UNCHANGED <<columns, started, raced>>

\* The flush sets the parent of each of them to NULL, wherever it has moved
\* since, and fails if one is gone; then the row is deleted (a row that is gone
\* already is no error), ON DELETE SET NULL for those who came later.  All of
\* them keep their group root.
delete_company(r) ==
    LET c    == req[r].id
        kids == req[r].below
    IN
    /\ req[r].pc = "delete"
    /\ IF kids \subseteq stored /\ (c \in stored \/ kids # {})
       THEN /\ stored' = stored \ {c}
            /\ parent_company_id' = [d \in Ids |-> IF d \in kids \cup Subsidiaries(c)
                                                   THEN NoParent ELSE parent_company_id[d]]
            /\ Commit(r)
       ELSE /\ Finish(r)
            /\ UNCHANGED <<stored, parent_company_id, raced>>
    /\ UNCHANGED <<group_root_id, nextId, started>>

\* The request fails or its process dies at an await: its transaction is
\* rolled back.
Fail(r) ==
    /\ req[r] # Idle
    /\ Finish(r)
    /\ UNCHANGED <<columns, started, raced>>

Next == \E r \in Requests :
            \/ add_company(r)
            \/ get_parent(r)
            \/ create_company(r)
            \/ edit_company(r)
            \/ count_subsidiaries(r)
            \/ update_company(r)
            \/ remove_company(r)
            \/ select_subsidiaries(r)
            \/ delete_company(r)
            \/ Fail(r)

Spec == Init /\ [][Next]_vars

-----------------------------------------------------------------------------
(* Properties.                                                             *)

\* A set of companies that holds the parent of each of its members.
ClosedUpward(S) == \A c \in S : parent_company_id[c] \in S \cup {NoParent}

\* d is c or an ancestor of it: no closed set with c in it leaves d out.
IsAbove(d, c) == \A S \in SUBSET stored : c \in S /\ ClosedUpward(S) => d \in S

\* group_root_id is the id of the top-most ancestor: an existing company with
\* no parent, reached from the row by parent_company_id (access/scope.py:16,
\* company_model.py:19).  Group policies are decided by this column alone.
GroupRootIsTopAncestor ==
    \A c \in stored :
        /\ group_root_id[c] \in stored
        /\ parent_company_id[group_root_id[c]] = NoParent
        /\ IsAbove(group_root_id[c], c)

\* Every company has a top-most ancestor: parent_company_id makes no circle
\* (update_company refuses to reparent a company that has subsidiaries).
EveryGroupHasARoot ==
    \A c \in stored : \E d \in stored : parent_company_id[d] = NoParent /\ IsAbove(d, c)

\* The guards of create_company, update_company and delete_company keep the
\* tree as long as no request commits on rows another request has changed
\* since it started; one request at a time always keeps it.
TreeUnlessOvertaken == ~raced => GroupRootIsTopAncestor

\* Until a request overtakes another one, the handlers implement the atomic
\* operations of CompanyTree: the checks that create_company, update_company
\* and delete_company make a statement or two before their write are as good
\* as checks made with it, and group_root_id, which is copied from the parent
\* and never walked, is the top-most ancestor after every commit.
Tree == INSTANCE CompanyTree
            WITH Companies <- Ids,
                 parent    <- [c \in stored |-> parent_company_id[c]],
                 group     <- [c \in stored |-> group_root_id[c]],
                 broken    <- raced

ImplementsTree == Tree!Spec

\* A PATCH that does not name parent_company_id leaves every company's place
\* in the tree alone, even when the row was moved after the request loaded it
\* (update_company's docstring: no "clobbering a correct value with a stale
\* read").
RenameKeepsPlace ==
    [][\A r \in Requests :
         req[r].op = "update" /\ req[r].to = Keep /\ req'[r] = Idle
            => UNCHANGED <<stored, parent_company_id, group_root_id>>]_vars
=============================================================================
