----------------------------- MODULE BalanceSheets -----------------------------
(***************************************************************************)
(* Balance sheets over the tree of companies, and the callers of both: a   *)
(* handler loads a company and authorizes its caller for the company's id  *)
(* and group as loaded, then works on, while other handlers move, delete   *)
(* or import.                                                              *)
(*                                                                         *)
(* The handlers of companies are those of CompanyHierarchy, here with the  *)
(* caller they answer to; policies decide as in PolicyConditions.  A       *)
(* request that is turned away at the start changes nothing and is left    *)
(* out.                                                                    *)
(***************************************************************************)
EXTENDS CompanyHierarchy

CONSTANTS
    Callers,    \* e-mail addresses of users
    NoCaller,
    Held,       \* the active policies assigned to each caller
    Years,      \* fiscal years
    MaxSheets,  \* bound: ids the sequence of balance_sheets hands out
    None, Blank, Junk, Malformed, Aware

ASSUME SheetsAssumption == MaxSheets \in Nat

Access == INSTANCE PolicyConditions WITH HoursInDay <- 1

SheetIds == 1 .. MaxSheets
NoSheet  == 0

VARIABLES
    sheets,     \* rows of balance_sheets, without their figures
    nextSheet,  \* the id the next INSERT draws
    call,       \* requests about sheets in flight
    caller      \* who sent the request in a slot

sheetVars == <<sheets, nextSheet, call>>
allVars   == <<vars, sheetVars, caller>>

NoCall == [op |-> "none", pc |-> "idle", company |-> NoId, year |-> None, sheet |-> NoSheet]

Sheet == [id : SheetIds, company : Ids, year : Years]

Call ==
    [op : {"none", "import", "delete"},
     pc : {"idle", "existing", "fetch", "insert", "load", "delete"},
     company : Ids \cup {NoId}, year : Years \cup {None}, sheet : SheetIds \cup {NoSheet}]

DataTypeOK ==
    /\ TypeOK
    /\ sheets \subseteq Sheet
    /\ nextSheet \in 1 .. MaxSheets + 1
    /\ \A s \in sheets : s.id < nextSheet
    /\ call \in [Requests -> Call]
    /\ caller \in [Requests -> Callers \cup {NoCaller}]
    /\ \A r \in Requests : req[r] = Idle \/ call[r] = NoCall

DataInit ==
    /\ Init
    /\ sheets = {}
    /\ nextSheet = 1
    /\ call = [r \in Requests |-> NoCall]
    /\ caller = [r \in Requests |-> NoCaller]

-----------------------------------------------------------------------------
(* What a caller may do.                                                   *)

Decision(held, u, action, resource_type, resource) ==
    Access!authorize(held, action, resource_type, u, resource, None, 0)

ScopeOf(c, root) == Access!resource_scope_dict([company_id |-> c, group_root_id |-> root])

Allowed(u, action, resource_type, c, root) ==
    Decision(Held[u], u, action, resource_type, ScopeOf(c, root))

-----------------------------------------------------------------------------
(* Companies, with their callers.                                          *)

Sends(r, u) == caller' = [caller EXCEPT ![r] = u]

\* A slot that is free again answers to nobody.
Answered(r) ==
    caller' = IF req'[r] = Idle THEN [caller EXCEPT ![r] = NoCaller] ELSE caller

\* Creating is authorized without a resource: there is none yet.
add_company_for(r, u) ==
    /\ Decision(Held[u], u, "company:create", "company", None)
    /\ add_company(r)
    /\ Sends(r, u)

\* Mutant: whoever may update some company may update any.
edit_company_of_any(r, u) ==
    /\ edit_company(r)
    /\ \E c \in Ids, root \in Ids : Allowed(u, "company:update", "company", c, root)
    /\ Sends(r, u)

\* The caller is authorized for the company as loaded: for the group it is
\* in, and not for the group it would join.
edit_company_for(r, u) ==
    /\ edit_company(r)
    /\ Allowed(u, "company:update", "company", req'[r].id, req'[r].own.root)
    /\ Sends(r, u)

remove_company_for(r, u) ==
    /\ remove_company(r)
    /\ Allowed(u, "company:delete", "company", req'[r].id, req'[r].own.root)
    /\ Sends(r, u)

\* Mutant: the foreign key does not cascade.
orphan_sheets(r) ==
    /\ delete_company(r)
    /\ Answered(r)
    /\ UNCHANGED sheets

\* ON DELETE CASCADE.
cascade_sheets(r) ==
    /\ delete_company(r)
    /\ Answered(r)
    /\ sheets' = {s \in sheets : s.company \in stored'}

CompanyStep(r) ==
    /\ call[r] = NoCall
    /\ \/ /\ \/ \E u \in Callers : \/ add_company_for(r, u)
                                   \/ edit_company_for(r, u)
                                   \/ remove_company_for(r, u)
             \/ /\ \/ get_parent(r)
                   \/ create_company(r)
                   \/ count_subsidiaries(r)
                   \/ update_company(r)
                   \/ select_subsidiaries(r)
                   \/ Fail(r)
                /\ Answered(r)
          /\ UNCHANGED sheets
       \/ cascade_sheets(r)
    /\ UNCHANGED <<nextSheet, call>>

-----------------------------------------------------------------------------
(* Balance sheets.                                                         *)

On(c, y) == {s \in sheets : s.company = c /\ s.year = y}

Proceed(r, pc) == call' = [call EXCEPT ![r].pc = pc] /\ UNCHANGED caller
Respond(r)     == call' = [call EXCEPT ![r] = NoCall] /\ caller' = [caller EXCEPT ![r] = NoCaller]

\* The company is loaded, and the caller authorized for it as loaded.
BeginCall(r, u, action, c, y, op, pc) ==
    /\ req[r] = Idle
    /\ call[r] = NoCall
    /\ started < MaxRequests
    /\ Allowed(u, action, "balance_sheet", c, group_root_id[c])
    /\ started' = started + 1
    /\ call' = [call EXCEPT ![r] = [NoCall EXCEPT !.op = op, !.pc = pc, !.company = c, !.year = y]]
    /\ Sends(r, u)
    /\ UNCHANGED <<columns, req, raced, sheets, nextSheet>>

\* POST /balance-sheets/{company_id}/{year}.
create_company_balance_sheet(r) ==
    \E u \in Callers, c \in stored, y \in Years :
        BeginCall(r, u, "balance_sheet:import", c, y, "import", "existing")

get_balance_sheet(r) ==
    /\ call[r].pc = "existing"
    /\ IF On(call[r].company, call[r].year) # {} THEN Respond(r) ELSE Proceed(r, "fetch")
    /\ UNCHANGED <<vars, sheets, nextSheet>>

\* Up to 15 seconds at the source, which may have no such year, or fail.
fetch_balance_sheet_row(r) ==
    /\ call[r].pc = "fetch"
    /\ Proceed(r, "insert") \/ Respond(r)
    /\ UNCHANGED <<vars, sheets, nextSheet>>

\* Mutant: company_id and year are not unique together.
import_again(r) ==
    LET c == call[r].company IN
    /\ call[r].pc = "insert"
    /\ nextSheet <= MaxSheets
    /\ sheets' = IF c \in stored
                 THEN sheets \cup {[id |-> nextSheet, company |-> c, year |-> call[r].year]}
                 ELSE sheets
    /\ nextSheet' = nextSheet + 1
    /\ Respond(r)
    /\ UNCHANGED vars

\* The foreign key and the unique constraint are checked as the row goes in:
\* either refusal is answered as "already exists".
import_balance_sheet(r) ==
    LET c == call[r].company
        y == call[r].year
    IN
    /\ call[r].pc = "insert"
    /\ nextSheet <= MaxSheets
    /\ sheets' = IF c \in stored /\ On(c, y) = {}
                 THEN sheets \cup {[id |-> nextSheet, company |-> c, year |-> y]}
                 ELSE sheets
    /\ nextSheet' = nextSheet + 1
    /\ Respond(r)
    /\ UNCHANGED vars

\* DELETE /balance-sheets/{company_id}/{year}.
delete_company_balance_sheet(r) ==
    \E u \in Callers, c \in stored, y \in Years :
        BeginCall(r, u, "balance_sheet:delete", c, y, "delete", "load")

load_balance_sheet(r) ==
    /\ call[r].pc = "load"
    /\ \/ /\ On(call[r].company, call[r].year) = {}
          /\ Respond(r)
       \/ \E s \in On(call[r].company, call[r].year) :
            /\ call' = [call EXCEPT ![r].pc = "delete", ![r].sheet = s.id]
            /\ UNCHANGED caller
    /\ UNCHANGED <<vars, sheets, nextSheet>>

\* Mutant: the DELETE names the company and the year.
delete_by_year(r) ==
    /\ call[r].pc = "delete"
    /\ sheets' = sheets \ On(call[r].company, call[r].year)
    /\ Respond(r)
    /\ UNCHANGED <<vars, nextSheet>>

\* By primary key: a row that is gone already is not an error.
delete_balance_sheet(r) ==
    /\ call[r].pc = "delete"
    /\ sheets' = {s \in sheets : s.id # call[r].sheet}
    /\ Respond(r)
    /\ UNCHANGED <<vars, nextSheet>>

\* The request fails or its process dies at an await.
FailCall(r) ==
    /\ call[r] # NoCall
    /\ Respond(r)
    /\ UNCHANGED <<vars, sheets, nextSheet>>

SheetStep(r) ==
    \/ create_company_balance_sheet(r)
    \/ get_balance_sheet(r)
    \/ fetch_balance_sheet_row(r)
    \/ import_balance_sheet(r)
    \/ delete_company_balance_sheet(r)
    \/ load_balance_sheet(r)
    \/ delete_balance_sheet(r)
    \/ FailCall(r)

DataNext == \E r \in Requests : CompanyStep(r) \/ SheetStep(r)

DataSpec == DataInit /\ [][DataNext]_allVars

-----------------------------------------------------------------------------
(* Properties.                                                             *)

\* At any time a company and a year have one sheet at most, and a sheet has
\* its company: imports that both found nothing, and a delete of the company
\* during a fetch, come out at the constraints.  get_balance_sheet raises on
\* two (scalar_one_or_none).
SheetsAreSound ==
    /\ \A s, t \in sheets : s.company = t.company /\ s.year = t.year => s = t
    /\ \A s \in sheets : s.company \in stored

\* A sheet goes with its company, or by a request that loaded this very row:
\* a delete that is late does not take the sheet imported in place of the
\* one it was sent for.
SheetsGoOnPurpose ==
    [][\A s \in sheets \ sheets' :
         \/ s.company \notin stored'
         \/ \E r \in Requests : call[r].pc = "delete" /\ call[r].sheet = s.id]_allVars

GroupPolicy(g) ==
    [actions |-> {"company:read"}, resource_type |-> "*",
     conditions |-> [resource_attributes |-> [group_root_id |-> g]]]

\* JSON objects are neither absent nor of an unexpected type.
ASSUME ObjectsAssumption ==
    \A c, g \in Ids :
        /\ GroupPolicy(g).conditions \notin {None, Junk}
        /\ GroupPolicy(g).conditions.resource_attributes # Junk
        /\ ScopeOf(c, g) # None

\* The flat comparison with group_root_id stands for the walk it replaces:
\* as long as no request overtook another, a policy on a group admits to
\* exactly the companies of the tree under that root (access/scope.py:13,
\* docs/app/access-control/overview.md "every company in the group").
GroupPolicyCoversTheTree ==
    ~raced => \A u \in Callers, g, c \in stored :
        Decision({GroupPolicy(g)}, u, "company:read", "company", ScopeOf(c, group_root_id[c]))
            <=> parent_company_id[g] = NoParent /\ IsAbove(g, c)

\* Nobody brings a company under his own hand: a reparent is authorized only
\* for the group the company leaves (company_routes.py:204), and even so what
\* a caller may update grows by what others do, unless another request changed
\* the tree since his was authorized.
OthersWidenScope ==
    [][\A r \in Requests, c \in Ids :
         /\ req[r].op # "none" /\ ~req[r].overtaken
         /\ req'[r] = Idle
         /\ c \in stored /\ c \in stored'
         /\ Allowed(caller[r], "company:update", "company", c, group_root_id'[c])
         => Allowed(caller[r], "company:update", "company", c, group_root_id[c])]_allVars
=============================================================================
