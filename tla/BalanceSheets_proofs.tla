-------------------------- MODULE BalanceSheets_proofs --------------------------
(***************************************************************************)
(* Theorems about BalanceSheets, for all callers, policies, years and      *)
(* bounds.  What CompanyHierarchy_proofs shows of the tree carries over: a *)
(* step of DataNext is a step of Next, a new request about sheets that     *)
(* only counts, or leaves the tree alone.                                  *)
(***************************************************************************)
EXTENDS BalanceSheets, CompanyHierarchy_proofs

\* A slot that only counts a request.
Counts == started' = started + 1 /\ started < MaxRequests /\ UNCHANGED <<columns, req, raced>>

-----------------------------------------------------------------------------
(* The tree under DataSpec.                                                *)

LEMMA CompanyStepIsNext ==
    ASSUME NEW r \in Requests, CompanyStep(r)
    PROVE  Next
BY DEF CompanyStep, Next, add_company_for, edit_company_for, remove_company_for, cascade_sheets

LEMMA SheetStepKeepsTree ==
    ASSUME NEW r \in Requests, SheetStep(r)
    PROVE  Counts \/ UNCHANGED vars
BY DEF SheetStep, Counts, create_company_balance_sheet, delete_company_balance_sheet, BeginCall,
       get_balance_sheet, fetch_balance_sheet_row, import_balance_sheet, load_balance_sheet,
       delete_balance_sheet, FailCall

LEMMA DataStepIsTreeStep == [DataNext]_allVars => [Next]_vars \/ Counts
BY CompanyStepIsNext, SheetStepKeepsTree DEF DataNext, allVars

LEMMA CountingKeepsInv == HierarchyInv /\ Counts => HierarchyInv'
<1> SUFFICES ASSUME HierarchyInv, Counts PROVE HierarchyInv'
  OBVIOUS
<1>1. started' \in 0 .. MaxRequests
  BY BoundsAssumption DEF HierarchyInv, TypeOK, Counts
<1> QED BY <1>1 DEF HierarchyInv, TypeOK, RowsAgree, Acyclic, ReadsHold, Loaded, Subsidiaries,
              Counts, columns

LEMMA TreeInvAlways == DataSpec => []HierarchyInv
<1>1. DataInit => HierarchyInv
  BY InitInv DEF DataInit
<1>2. HierarchyInv /\ [DataNext]_allVars => HierarchyInv'
  BY DataStepIsTreeStep, StepInv, CountingKeepsInv
<1> QED BY <1>1, <1>2, PTL DEF DataSpec

\* With sheets and callers beside it, the tree is kept as before.
THEOREM TreeIsKeptWithSheets == DataSpec => []TreeUnlessOvertaken
<1>1. HierarchyInv => TreeUnlessOvertaken
  BY TreeGivesTop DEF HierarchyInv, TreeUnlessOvertaken
<1> QED BY <1>1, TreeInvAlways, PTL

\* CompanyTree is implemented by the composition as well: authorization only
\* takes steps away, and requests about sheets stutter.
THEOREM TreeIsImplementedWithSheets == DataSpec => ImplementsTree
<1>1. DataInit => Tree!Init
  BY TreeStarts DEF DataInit
<1>2. Counts => UNCHANGED Tree!vars
  BY DEF Counts, columns, Tree!vars
<1>3. HierarchyInv /\ HierarchyInv' /\ [DataNext]_allVars => [Tree!Next]_(Tree!vars)
  BY <1>2, DataStepIsTreeStep, StepImplements
<1> QED BY <1>1, <1>3, TreeInvAlways, PTL DEF DataSpec, ImplementsTree, Tree!Spec
\* A rename writes no place in the tree, whoever sends it.
THEOREM RenamesKeepPlacesWithSheets == DataSpec => RenameKeepsPlace
<1> DEFINE Kept == \A r \in Requests :
                      req[r].op = "update" /\ req[r].to = Keep /\ req'[r] = Idle
                         => UNCHANGED <<stored, parent_company_id, group_root_id>>
<1>1. HierarchyInv /\ [Next]_vars => [Kept]_vars
  BY KeepStep
<1>2. Counts => Kept
  BY DEF Counts, columns, Idle
<1>3. HierarchyInv /\ [DataNext]_allVars => [Kept]_vars
  BY <1>1, <1>2, DataStepIsTreeStep
<1> QED BY <1>3, TreeInvAlways, PTL DEF DataSpec, RenameKeepsPlace

-----------------------------------------------------------------------------
(* The sheets.                                                             *)

\* The rows change in three statements only, and the companies they belong
\* to go with the last of them.
LEMMA SheetsChangeIn ==
    ASSUME [DataNext]_allVars
    PROVE  \/ sheets' = sheets /\ stored \subseteq stored'
           \/ sheets' = {s \in sheets : s.company \in stored'}
           \/ stored' = stored /\ \E r \in Requests : import_balance_sheet(r)
           \/ stored' = stored /\ \E r \in Requests : delete_balance_sheet(r)
<1>1. CASE UNCHANGED allVars
  BY <1>1 DEF allVars, vars, columns, sheetVars
<1>2. ASSUME NEW r \in Requests, CompanyStep(r), ~cascade_sheets(r)
      PROVE  sheets' = sheets /\ stored \subseteq stored'
  BY <1>2 DEF CompanyStep, add_company_for, edit_company_for, remove_company_for, add_company,
              edit_company, remove_company, Begin, get_parent, create_company,
              count_subsidiaries, update_company, select_subsidiaries, Fail, columns
<1>3. ASSUME NEW r \in Requests, SheetStep(r)
      PROVE  /\ stored' = stored
             /\ sheets' = sheets \/ import_balance_sheet(r) \/ delete_balance_sheet(r)
  BY <1>3 DEF SheetStep, create_company_balance_sheet, delete_company_balance_sheet, BeginCall,
              get_balance_sheet, fetch_balance_sheet_row, import_balance_sheet,
              load_balance_sheet, delete_balance_sheet, FailCall, vars, columns
<1> QED BY <1>1, <1>2, <1>3 DEF DataNext, cascade_sheets

\* The unique constraint and the foreign key, with its cascade, make the
\* sheets sound in every order of imports, deletes and moves.
THEOREM SheetsStaySound == DataSpec => []SheetsAreSound
<1>1. DataInit => SheetsAreSound
  BY DEF DataInit, SheetsAreSound
<1>2. SheetsAreSound /\ [DataNext]_allVars => SheetsAreSound'
  <2> SUFFICES ASSUME SheetsAreSound, [DataNext]_allVars PROVE SheetsAreSound'
    OBVIOUS
  <2>1. ASSUME NEW r \in Requests, import_balance_sheet(r), stored' = stored
        PROVE  SheetsAreSound'
    BY <2>1 DEF import_balance_sheet, SheetsAreSound, On
  <2>2. ASSUME NEW r \in Requests, delete_balance_sheet(r), stored' = stored
        PROVE  SheetsAreSound'
    BY <2>2 DEF delete_balance_sheet, SheetsAreSound
  <2> QED BY <2>1, <2>2, SheetsChangeIn DEF SheetsAreSound
<1> QED BY <1>1, <1>2, PTL DEF DataSpec

\* A sheet goes with its company or by a request that loaded it.
THEOREM SheetsGoOnlyOnPurpose == DataSpec => SheetsGoOnPurpose
<1> DEFINE OnPurpose == \A s \in sheets \ sheets' :
                           \/ s.company \notin stored'
                           \/ \E r \in Requests : call[r].pc = "delete" /\ call[r].sheet = s.id
<1>1. [DataNext]_allVars => [OnPurpose]_allVars
  BY SheetsChangeIn DEF import_balance_sheet, delete_balance_sheet
<1> QED BY <1>1, PTL DEF DataSpec, SheetsGoOnPurpose
-----------------------------------------------------------------------------
(* Group policies.                                                         *)

\* A root above a company is the one its group_root_id names.
LEMMA OneTop ==
    ASSUME TypeOK, RowsAgree, NEW c \in stored, NEW g \in stored,
           parent_company_id[g] = NoParent, IsAbove(g, c)
    PROVE  group_root_id[c] = g
<1> DEFINE Group == {d \in stored : group_root_id[d] = group_root_id[c]}
<1>1. ClosedUpward(Group)
  BY DEF RowsAgree, ClosedUpward
<1>2. g \in Group
  BY <1>1 DEF IsAbove
<1> QED BY <1>2 DEF RowsAgree

\* What a policy on a group decides: one comparison.
LEMMA GroupPolicyCompares ==
    ASSUME NEW u, NEW g \in Ids, NEW c \in Ids, NEW root \in Ids
    PROVE  Decision({GroupPolicy(g)}, u, "company:read", "company", ScopeOf(c, root)) <=> root = g
<1> DEFINE conditions == GroupPolicy(g).conditions
           attrs == [group_root_id |-> g]
           resource == ScopeOf(c, root)
           verdict == Access!evaluate_conditions(conditions, u, resource, None, 0)
<1>1. /\ DOMAIN conditions = {"resource_attributes"}
      /\ conditions["resource_attributes"] = attrs
      /\ Access!applies(GroupPolicy(g), "company:read", "company")
  BY DEF GroupPolicy, Access!applies
<1>2. conditions \notin {None, Junk} /\ attrs # Junk /\ resource # None
  BY ObjectsAssumption DEF GroupPolicy
<1>3. attrs # Access!Empty /\ DOMAIN attrs = {"group_root_id"} /\ attrs["group_root_id"] = g
  <2>1. DOMAIN attrs = {"group_root_id"} /\ DOMAIN Access!Empty = {}
    BY DEF Access!Empty
  <2> QED BY <2>1
<1>4. Access!get_field(resource, "group_root_id") = root
  BY DEF Access!get_field, ScopeOf, Access!resource_scope_dict
<1> HIDE DEF conditions, attrs, resource
<1>5. Access!resource_attributes(attrs, resource) = Access!Verdict(g = root)
  BY <1>2, <1>3, <1>4 DEF Access!resource_attributes, Access!EveryFieldMatches, Access!Verdict
<1>6. Access!condition("resource_attributes", attrs, u, resource, None, 0) = Access!Verdict(g = root)
  BY <1>5 DEF Access!condition
<1>7. verdict = Access!Verdict(g = root)
  BY <1>1, <1>2, <1>6 DEF Access!evaluate_conditions, Access!Verdict
<1>8. verdict # "raises" /\ (verdict = "holds" <=> g = root)
  BY <1>7 DEF Access!Verdict
<1> HIDE DEF verdict
<1> QED BY <1>1, <1>8 DEF Decision, Access!authorize, Access!evaluate_detailed, verdict,
          conditions, resource

\* A policy on a group admits to exactly the companies under its root, for
\* trees of every size.
THEOREM GroupPoliciesCoverTheTree == DataSpec => []GroupPolicyCoversTheTree
<1>1. ASSUME HierarchyInv, ~raced, NEW g \in stored, NEW c \in stored
      PROVE  (group_root_id[c] = g) <=> parent_company_id[g] = NoParent /\ IsAbove(g, c)
  <2>1. TypeOK /\ RowsAgree /\ GroupRootIsTopAncestor
    BY <1>1, TreeGivesTop DEF HierarchyInv
  <2> QED BY <2>1, OneTop DEF GroupRootIsTopAncestor
<1>2. HierarchyInv => stored \subseteq Ids /\ \A d \in stored : group_root_id[d] \in Ids
  BY DEF HierarchyInv, TypeOK
<1>3. HierarchyInv => GroupPolicyCoversTheTree
  BY <1>1, <1>2, GroupPolicyCompares DEF GroupPolicyCoversTheTree
<1> QED BY <1>3, TreeInvAlways, PTL
-----------------------------------------------------------------------------
(* Types.                                                                  *)

\* A request about sheets names a year at each of its statements.
CallsMatch == \A r \in Requests : call[r].pc # "idle" => call[r].year \in Years

LEMMA CallTypes ==
    /\ NoCall \in Call
    /\ \A op \in {"import", "delete"}, pc \in {"existing", "load"}, c \in Ids, y \in Years :
          [NoCall EXCEPT !.op = op, !.pc = pc, !.company = c, !.year = y] \in Call
BY DEF NoCall, Call, NoId, NoSheet

\* Which slots a company step moves: its own, and others only if busy.
LEMMA BusySlotsStayCompanies ==
    ASSUME HierarchyInv, NEW r \in Requests, CompanyStep(r)
    PROVE  \A p \in Requests : p # r /\ req[p] = Idle => req'[p] = Idle
<1>1. ASSUME NEW p \in Requests, p # r, req[p] = Idle, Commit(r)
      PROVE  req'[p] = Idle
  BY <1>1 DEF Commit, Idle
<1>2. ASSUME NEW p \in Requests, p # r, req[p] = Idle, Finish(r)
      PROVE  req'[p] = Idle
  BY <1>2 DEF Finish, HierarchyInv, TypeOK
<1>3. req \in [Requests -> Request]
  BY DEF HierarchyInv, TypeOK
<1> SUFFICES ASSUME NEW p \in Requests, p # r, req[p] = Idle
             PROVE  req'[p] = Idle
  OBVIOUS
<1>4. CASE add_company(r) \/ edit_company(r) \/ remove_company(r)
  BY <1>3, <1>4 DEF add_company, edit_company, remove_company, Begin
<1>5. CASE get_parent(r) \/ count_subsidiaries(r) \/ select_subsidiaries(r)
  BY <1>2, <1>3, <1>5 DEF get_parent, count_subsidiaries, select_subsidiaries, Goto
<1>6. CASE create_company(r) \/ update_company(r) \/ delete_company(r) \/ Fail(r)
  BY <1>1, <1>2, <1>6 DEF create_company, update_company, delete_company, Fail
<1> QED BY <1>4, <1>5, <1>6 DEF CompanyStep, add_company_for, edit_company_for,
          remove_company_for, cascade_sheets

LEMMA CompanyStepTypes ==
    ASSUME HierarchyInv, HierarchyInv', DataTypeOK, CallsMatch,
           NEW r \in Requests, CompanyStep(r)
    PROVE  DataTypeOK' /\ CallsMatch'
<1>1. sheets' \subseteq sheets /\ UNCHANGED <<nextSheet, call>> /\ call[r] = NoCall
  BY DEF CompanyStep, cascade_sheets
<1>2. caller' \in [Requests -> Callers \cup {NoCaller}]
  BY DEF CompanyStep, add_company_for, edit_company_for, remove_company_for, cascade_sheets,
         Sends, Answered, DataTypeOK
<1>3. \A p \in Requests : req'[p] = Idle \/ call'[p] = NoCall
  BY <1>1, BusySlotsStayCompanies DEF DataTypeOK
<1>4. TypeOK'
  BY DEF HierarchyInv
<1> QED BY <1>1, <1>2, <1>3, <1>4 DEF DataTypeOK, CallsMatch

\* A sheet step moves a slot without a request about companies.
LEMMA SheetStepSlot ==
    ASSUME DataTypeOK, CallsMatch, NEW r \in Requests, SheetStep(r)
    PROVE  /\ req[r] = Idle /\ req' = req
           /\ call' \in [Requests -> Call]
           /\ CallsMatch'
           /\ \A p \in Requests : p # r => call'[p] = call[p] /\ caller'[p] = caller[p]
           /\ caller' \in [Requests -> Callers \cup {NoCaller}]
<1>1. req[r] = Idle
  <2>1. call[r].pc # "idle" \/ call[r] # NoCall => req[r] = Idle
    BY DEF DataTypeOK, NoCall
  <2> QED BY <2>1 DEF SheetStep, create_company_balance_sheet, delete_company_balance_sheet,
            BeginCall, get_balance_sheet, fetch_balance_sheet_row, import_balance_sheet,
            load_balance_sheet, delete_balance_sheet, FailCall
<1>2. req' = req
  BY SheetStepKeepsTree DEF Counts, vars
<1>3. call \in [Requests -> Call] /\ caller \in [Requests -> Callers \cup {NoCaller}]
      /\ stored \subseteq Ids /\ \A s \in sheets : s.id \in SheetIds
  BY DEF DataTypeOK, TypeOK, Sheet
<1> DEFINE Moves == /\ call' \in [Requests -> Call]
                    /\ CallsMatch'
                    /\ \A p \in Requests : p # r => call'[p] = call[p] /\ caller'[p] = caller[p]
                    /\ caller' \in [Requests -> Callers \cup {NoCaller}]
<1>4. ASSUME NEW k \in Call, k.pc # "idle" => k.year \in Years,
             NEW u \in Callers \cup {NoCaller},
             call' = [call EXCEPT ![r] = k],
             caller' = [caller EXCEPT ![r] = u] \/ caller' = caller
      PROVE  Moves
  BY <1>3, <1>4 DEF CallsMatch
<1>5. ASSUME NEW u \in Callers, NEW c \in stored, NEW y \in Years,
             \/ BeginCall(r, u, "balance_sheet:import", c, y, "import", "existing")
             \/ BeginCall(r, u, "balance_sheet:delete", c, y, "delete", "load")
      PROVE  Moves
  <2>1. PICK op \in {"import", "delete"}, pc \in {"existing", "load"} :
           /\ call' = [call EXCEPT ![r] =
                         [NoCall EXCEPT !.op = op, !.pc = pc, !.company = c, !.year = y]]
           /\ caller' = [caller EXCEPT ![r] = u]
    BY <1>5 DEF BeginCall, Sends
  <2>2. PICK k \in Call :
           k = [NoCall EXCEPT !.op = op, !.pc = pc, !.company = c, !.year = y]
    BY <1>3, CallTypes
  <2>3. k.year = y
    BY <2>2 DEF NoCall
  <2> QED BY <1>4, <2>1, <2>2, <2>3
<1>6. ASSUME Respond(r)
      PROVE  Moves
  <2>1. NoCall.pc = "idle"
    BY DEF NoCall
  <2> QED BY <1>4, <1>6, <2>1, CallTypes DEF Respond
<1>7. ASSUME NEW pc \in {"fetch", "insert"}, Proceed(r, pc), call[r].pc # "idle"
      PROVE  Moves
  <2>1. PICK k \in Call : k = [call[r] EXCEPT !.pc = pc]
    BY <1>3, <1>7 DEF Call
  <2>2. call' = [call EXCEPT ![r] = k] /\ caller' = caller
    BY <1>7, <2>1 DEF Proceed
  <2>3. k.year \in Years
    BY <1>3, <1>7, <2>1 DEF Call, CallsMatch
  <2> QED BY <1>3, <1>4, <2>2, <2>3
<1>8. ASSUME load_balance_sheet(r)
      PROVE  Moves
  <2>1. CASE Respond(r)
    BY <1>6, <2>1
  <2>2. ASSUME NEW s \in sheets, caller' = caller,
               call' = [call EXCEPT ![r].pc = "delete", ![r].sheet = s.id]
        PROVE  Moves
    <3>1. PICK k \in Call : k = [call[r] EXCEPT !.pc = "delete", !.sheet = s.id]
      BY <1>3 DEF Call
    <3>2. call' = [call EXCEPT ![r] = k]
      BY <1>3, <2>2, <3>1
    <3>3. k.year \in Years
      BY <1>3, <1>8, <3>1 DEF Call, CallsMatch, load_balance_sheet
    <3> QED BY <1>3, <1>4, <2>2, <3>2, <3>3
  <2> QED BY <1>8, <2>1, <2>2 DEF load_balance_sheet, On
<1> HIDE DEF Moves
<1>9. Moves
  BY <1>5, <1>6, <1>7, <1>8 DEF SheetStep, create_company_balance_sheet,
     delete_company_balance_sheet, get_balance_sheet, fetch_balance_sheet_row,
     import_balance_sheet, delete_balance_sheet, FailCall
<1> QED BY <1>1, <1>2, <1>9 DEF Moves

LEMMA SheetStepTypes ==
    ASSUME HierarchyInv', DataTypeOK, CallsMatch, NEW r \in Requests, SheetStep(r)
    PROVE  DataTypeOK' /\ CallsMatch'
<1>1. \A p \in Requests : req'[p] = Idle \/ call'[p] = NoCall
  BY SheetStepSlot DEF DataTypeOK
<1>2. /\ sheets' \subseteq Sheet
      /\ nextSheet' \in 1 .. MaxSheets + 1
      /\ \A s \in sheets' : s.id < nextSheet'
  <2>1. CASE UNCHANGED <<sheets, nextSheet>>
    BY <2>1 DEF DataTypeOK
  <2>2. CASE delete_balance_sheet(r)
    BY <2>2 DEF DataTypeOK, delete_balance_sheet
  <2>3. CASE import_balance_sheet(r)
    <3> DEFINE row == [id |-> nextSheet, company |-> call[r].company, year |-> call[r].year]
    <3>1. nextSheet \in SheetIds /\ nextSheet' = nextSheet + 1 /\ nextSheet' \in 1 .. MaxSheets + 1
      BY <2>3, SheetsAssumption DEF import_balance_sheet, DataTypeOK, SheetIds
    <3>2. call[r].year \in Years
      BY <2>3 DEF import_balance_sheet, CallsMatch
    <3>3. sheets' = sheets \/ (sheets' = sheets \cup {row} /\ call[r].company \in stored)
      BY <2>3 DEF import_balance_sheet
    <3>4. call[r].company \in stored => row \in Sheet
      BY <3>1, <3>2 DEF Sheet, DataTypeOK, TypeOK
    <3>5. \A s \in sheets : s \in Sheet /\ s.id < nextSheet /\ s.id \in SheetIds
      BY DEF DataTypeOK, Sheet
    <3> HIDE DEF row
    <3>6. row.id = nextSheet
      BY DEF row
    <3> QED BY <3>1, <3>3, <3>4, <3>5, <3>6 DEF SheetIds
  <2> QED BY <2>1, <2>2, <2>3 DEF SheetStep, create_company_balance_sheet, BeginCall,
            delete_company_balance_sheet, get_balance_sheet, fetch_balance_sheet_row,
            load_balance_sheet, FailCall
<1>3. TypeOK'
  BY DEF HierarchyInv
<1> QED BY <1>1, <1>2, <1>3, SheetStepSlot DEF DataTypeOK
DataInv == HierarchyInv /\ DataTypeOK /\ CallsMatch

LEMMA DataInvAlways == DataSpec => []DataInv
<1>1. DataInit => DataInv
  <2> SUFFICES ASSUME DataInit PROVE DataInv
    OBVIOUS
  <2>1. HierarchyInv /\ TypeOK
    BY InitInv DEF DataInit, HierarchyInv
  <2>2. 1 \in 1 .. MaxSheets + 1
    BY SheetsAssumption
  <2>3. NoCall.pc = "idle"
    BY DEF NoCall
  <2> QED BY <2>1, <2>2, <2>3, CallTypes DEF DataInit, DataInv, DataTypeOK, CallsMatch
<1>2. DataInv /\ HierarchyInv' /\ [DataNext]_allVars => DataInv'
  <2> SUFFICES ASSUME DataInv, HierarchyInv', [DataNext]_allVars PROVE DataTypeOK' /\ CallsMatch'
    BY DEF DataInv
  <2>1. CASE UNCHANGED allVars
    BY <2>1 DEF DataInv, DataTypeOK, TypeOK, CallsMatch, allVars, vars, columns, sheetVars
  <2>2. CASE DataNext
    BY <2>2, CompanyStepTypes, SheetStepTypes DEF DataInv, DataNext
  <2> QED BY <2>1, <2>2
<1> QED BY <1>1, <1>2, TreeInvAlways, PTL DEF DataSpec

\* Every reachable state of the composition is well typed, and no slot
\* serves a company and a sheet at once.
THEOREM DataTypeCorrect == DataSpec => []DataTypeOK
<1>1. DataInv => DataTypeOK
  BY DEF DataInv
<1> QED BY <1>1, DataInvAlways, PTL

-----------------------------------------------------------------------------
(* What callers may do.                                                    *)

May(u, c, root) == Allowed(u, "company:update", "company", c, root)

\* An update that nothing has overtaken is still of the row as loaded, which
\* its caller may update.
Fresh(r) ==
    req[r].op = "update" /\ ~req[r].overtaken =>
        /\ req[r].id \in stored
        /\ req[r].own = Loaded(req[r].id)
        /\ May(caller[r], req[r].id, req[r].own.root)

AllFresh == \A r \in Requests : Fresh(r)

\* A step that leaves the columns of the tree and a request alone.
LEMMA FreshStays ==
    ASSUME NEW r \in Requests, Fresh(r),
           UNCHANGED <<stored, parent_company_id, group_root_id>>,
           req'[r] = req[r] \/ (/\ req'[r].op = req[r].op /\ req'[r].id = req[r].id
                                /\ req'[r].own = req[r].own
                                /\ req'[r].overtaken = req[r].overtaken),
           caller'[r] = caller[r]
    PROVE  Fresh(r)'
BY DEF Fresh, Loaded, May

\* After a commit, no other request is both an update and fresh.
LEMMA CommitOvertakes ==
    ASSUME HierarchyInv, NEW r \in Requests, Commit(r), NEW p \in Requests
    PROVE  Fresh(p)'
<1>1. req[p] \in Request /\ StepsMatch(req[p])
  BY DEF HierarchyInv, TypeOK
<1>2. CASE req'[p].op # "update"
  BY <1>2 DEF Fresh
<1>3. CASE req'[p].overtaken
  BY <1>3 DEF Fresh
<1> QED BY <1>1, <1>2, <1>3 DEF Commit, Request, Idle
\* A company step commits, or leaves the tree and the other slots alone; its
\* own request ends, is new, or goes on as it was loaded.
LEMMA CompanyStepKinds ==
    ASSUME DataInv, NEW r \in Requests, CompanyStep(r)
    PROVE  \/ Commit(r)
           \/ /\ UNCHANGED <<stored, parent_company_id, group_root_id>>
              /\ \A p \in Requests : p # r => req'[p] = req[p] /\ caller'[p] = caller[p]
              /\ \/ req'[r].op # "update"
                 \/ /\ req'[r].op = req[r].op /\ req'[r].id = req[r].id
                    /\ req'[r].own = req[r].own /\ req'[r].overtaken = req[r].overtaken
                    /\ caller'[r] = caller[r]
                 \/ Fresh(r)'
<1>1. /\ req \in [Requests -> Request]
      /\ caller \in [Requests -> Callers \cup {NoCaller}]
  BY DEF DataInv, HierarchyInv, TypeOK, DataTypeOK
<1>2. Idle.op = "none"
  BY DEF Idle
<1> DEFINE Others == /\ UNCHANGED <<stored, parent_company_id, group_root_id>>
                     /\ \A p \in Requests : p # r => req'[p] = req[p] /\ caller'[p] = caller[p]
<1>3. ASSUME NEW u \in Callers, add_company_for(r, u) \/ remove_company_for(r, u)
      PROVE  Others /\ req'[r].op # "update"
  BY <1>1, <1>3 DEF add_company_for, remove_company_for, add_company, remove_company, Begin,
     Sends, Idle, columns
<1>4. ASSUME NEW u \in Callers, edit_company_for(r, u)
      PROVE  Others /\ Fresh(r)'
  <2>1. PICK c \in stored, to \in Ids \cup {NoParent, Keep}, pc \in {"count", "write"} :
           Begin(r, [Idle EXCEPT !.op = "update", !.id = c, !.own = Loaded(c), !.to = to,
                                 !.pc = pc])
    <3>1. PICK c \in stored, to \in Ids \cup {NoParent, Keep} :
             LET moves == to # Keep /\ to # parent_company_id[c] IN
             Begin(r, [Idle EXCEPT !.op = "update", !.id = c, !.own = Loaded(c),
                                   !.to = IF moves THEN to ELSE Keep,
                                   !.pc = IF moves THEN "count" ELSE "write"])
      BY <1>4 DEF edit_company_for, edit_company
    <3> QED BY <3>1
  <2>2. /\ UNCHANGED <<stored, parent_company_id, group_root_id>>
        /\ req'[r].id = c /\ req'[r].own = Loaded(c)
        /\ \A p \in Requests : p # r => req'[p] = req[p]
    BY <1>1, <2>1 DEF Begin, columns, Idle
  <2>3. /\ Allowed(u, "company:update", "company", req'[r].id, req'[r].own.root)
        /\ caller' = [caller EXCEPT ![r] = u]
    BY <1>4 DEF edit_company_for, Sends
  <2> QED BY <1>1, <2>1, <2>2, <2>3 DEF Fresh, Loaded, May
<1>5. ASSUME Finish(r), UNCHANGED <<stored, parent_company_id, group_root_id>>, Answered(r)
      PROVE  Others /\ req'[r].op # "update"
  BY <1>1, <1>2, <1>5 DEF Finish, Answered
<1>6. ASSUME get_parent(r) \/ count_subsidiaries(r) \/ select_subsidiaries(r), Answered(r)
      PROVE  Others /\ \/ req'[r].op # "update"
                       \/ /\ req'[r].op = req[r].op /\ req'[r].id = req[r].id
                          /\ req'[r].own = req[r].own /\ req'[r].overtaken = req[r].overtaken
                          /\ caller'[r] = caller[r]
  <2>1. UNCHANGED <<stored, parent_company_id, group_root_id>>
    BY <1>6 DEF get_parent, count_subsidiaries, select_subsidiaries, columns
  <2>2. CASE Finish(r)
    BY <1>5, <1>6, <2>1, <2>2
  <2>3. ASSUME NEW k, req' = [req EXCEPT ![r] = k], k.op = req[r].op, k.id = req[r].id,
               k.own = req[r].own, k.overtaken = req[r].overtaken
        PROVE  Others /\ \/ req'[r].op # "update"
                         \/ /\ req'[r].op = req[r].op /\ req'[r].id = req[r].id
                            /\ req'[r].own = req[r].own /\ req'[r].overtaken = req[r].overtaken
                            /\ caller'[r] = caller[r]
    BY <1>1, <1>2, <1>6, <2>1, <2>3 DEF Answered
  <2>4. ASSUME NEW up, NEW pc, req' = [req EXCEPT ![r].up = up, ![r].pc = pc]
        PROVE  req' = [req EXCEPT ![r] = [req[r] EXCEPT !.up = up, !.pc = pc]]
    BY <1>1, <2>4
  <2>5. ASSUME NEW pc, req' = [req EXCEPT ![r].pc = pc]
        PROVE  req' = [req EXCEPT ![r] = [req[r] EXCEPT !.pc = pc]]
    BY <1>1, <2>5
  <2>6. req[r] \in Request
    BY <1>1
  <2>7. CASE get_parent(r) /\ ~Finish(r)
    <3>1. PICK up, pc : req' = [req EXCEPT ![r].up = up, ![r].pc = pc]
      BY <2>7 DEF get_parent
    <3> DEFINE k == [req[r] EXCEPT !.up = up, !.pc = pc]
    <3>2. k.op = req[r].op /\ k.id = req[r].id /\ k.own = req[r].own
          /\ k.overtaken = req[r].overtaken
      BY <2>6 DEF Request
    <3>3. req' = [req EXCEPT ![r] = k]
      BY <2>4, <3>1
    <3> HIDE DEF k
    <3> QED BY <2>3, <3>2, <3>3
  <2>8. CASE count_subsidiaries(r) /\ ~Finish(r)
    <3>1. PICK pc : req' = [req EXCEPT ![r].pc = pc]
      BY <2>8 DEF count_subsidiaries, Goto
    <3> DEFINE k == [req[r] EXCEPT !.pc = pc]
    <3>2. k.op = req[r].op /\ k.id = req[r].id /\ k.own = req[r].own
          /\ k.overtaken = req[r].overtaken
      BY <2>6 DEF Request
    <3>3. req' = [req EXCEPT ![r] = k]
      BY <2>5, <3>1
    <3> HIDE DEF k
    <3> QED BY <2>3, <3>2, <3>3
  <2>9. CASE select_subsidiaries(r)
    <3> DEFINE k == [req[r] EXCEPT !.below = Subsidiaries(req[r].id), !.pc = "delete"]
    <3>1. k.op = req[r].op /\ k.id = req[r].id /\ k.own = req[r].own
          /\ k.overtaken = req[r].overtaken
      BY <2>6 DEF Request
    <3>2. req' = [req EXCEPT ![r] = k]
      BY <1>1, <2>9 DEF select_subsidiaries
    <3> HIDE DEF k
    <3> QED BY <2>3, <3>1, <3>2
  <2> QED BY <1>6, <2>2, <2>7, <2>8, <2>9
<1> HIDE DEF Others
<1>7. ASSUME create_company(r) \/ update_company(r) \/ delete_company(r) \/ Fail(r),
             Answered(r)
      PROVE  Commit(r) \/ (Others /\ req'[r].op # "update")
  <2>1. Commit(r) \/ (Finish(r) /\ UNCHANGED <<stored, parent_company_id, group_root_id>>)
    BY <1>7 DEF create_company, update_company, delete_company, Fail, columns
  <2> QED BY <1>5, <1>7, <2>1
<1> QED BY <1>3, <1>4, <1>6, <1>7 DEF Others, CompanyStep, cascade_sheets

LEMMA FreshStep == DataInv /\ AllFresh /\ [DataNext]_allVars => AllFresh'
<1> SUFFICES ASSUME DataInv, AllFresh, [DataNext]_allVars, NEW p \in Requests
             PROVE  Fresh(p)'
  BY DEF AllFresh
<1>0. Fresh(p)
  BY DEF AllFresh
<1>1. CASE UNCHANGED allVars
  BY <1>0, <1>1, FreshStays DEF allVars, vars, columns
<1>2. ASSUME NEW r \in Requests, CompanyStep(r)
      PROVE  Fresh(p)'
  <2>1. CASE Commit(r)
    BY <2>1, CommitOvertakes DEF DataInv
  <2>2. CASE ~Commit(r)
    <3>1. CASE p # r
      BY <1>0, <1>2, <2>2, <3>1, CompanyStepKinds, FreshStays
    <3>2. CASE p = r /\ req'[r].op # "update"
      BY <3>2 DEF Fresh
    <3>3. CASE p = r /\ req'[r].op = "update"
      BY <1>0, <1>2, <2>2, <3>3, CompanyStepKinds, FreshStays
    <3> QED BY <3>1, <3>2, <3>3
  <2> QED BY <2>1, <2>2
<1>3. ASSUME NEW r \in Requests, SheetStep(r)
      PROVE  Fresh(p)'
  <2>1. /\ UNCHANGED <<stored, parent_company_id, group_root_id, req>>
        /\ p # r => caller'[p] = caller[p]
        /\ req[r] = Idle
    BY <1>3, SheetStepSlot, SheetStepKeepsTree DEF DataInv, Counts, vars, columns
  <2>2. CASE p = r
    BY <2>1, <2>2 DEF Fresh, Idle
  <2> QED BY <1>0, <2>1, <2>2, FreshStays
<1> QED BY <1>1, <1>2, <1>3 DEF DataNext
\* What an update writes to group_root_id, it writes to its own row; a new
\* row was in nobody's scope, and deletes write none.
LEMMA RootChangesOwnRow ==
    ASSUME DataInv, NEW r \in Requests, CompanyStep(r), NEW c \in stored,
           group_root_id'[c] # group_root_id[c]
    PROVE  req[r].op = "update" /\ c = req[r].id
<1>1. /\ group_root_id \in [Ids -> Ids \cup {NoId}] /\ stored \subseteq Ids
      /\ \A d \in stored : d < nextId
      /\ nextId \in 1 .. MaxCompanies + 1
      /\ req[r] \in Request /\ StepsMatch(req[r])
  BY DEF DataInv, HierarchyInv, TypeOK
<1>2. ~create_company(r)
  BY <1>1, BoundsAssumption DEF create_company, Ids
<1>3. ASSUME update_company(r)
      PROVE  req[r].op = "update" /\ c = req[r].id
  <2>1. req[r].op = "update"
    BY <1>1, <1>3 DEF update_company, StepsMatch, Request, Idle
  <2>2. group_root_id' = group_root_id
        \/ group_root_id' = [group_root_id EXCEPT ![req[r].id] = Edited(req[r]).root]
    BY <1>3 DEF update_company
  <2> QED BY <1>1, <2>1, <2>2
<1> QED BY <1>2, <1>3 DEF CompanyStep, cascade_sheets, add_company_for, edit_company_for,
          remove_company_for, add_company, edit_company, remove_company, Begin, get_parent,
          count_subsidiaries, select_subsidiaries, delete_company, Fail, columns

\* A caller's own, timely requests bring no company under his hand.
THEOREM OwnRequestsWidenNothing == DataSpec => OthersWidenScope
<1> DEFINE Widens(r, c) == /\ req[r].op # "none" /\ ~req[r].overtaken
                           /\ req'[r] = Idle
                           /\ c \in stored /\ c \in stored'
                           /\ Allowed(caller[r], "company:update", "company", c, group_root_id'[c])
<1>1. ASSUME DataInv, AllFresh, [DataNext]_allVars, NEW r \in Requests, NEW c \in Ids, Widens(r, c)
      PROVE  Allowed(caller[r], "company:update", "company", c, group_root_id[c])
  <2>1. req[r] \in Request /\ Idle.op = "none" /\ req[r] # Idle
    BY <1>1 DEF DataInv, HierarchyInv, TypeOK, Idle
  <2>2. CASE group_root_id'[c] = group_root_id[c]
    BY <1>1, <2>2
  <2>3. CASE group_root_id'[c] # group_root_id[c]
    <3>1. PICK p \in Requests : CompanyStep(p)
      <4>1. ~UNCHANGED vars /\ ~Counts
        BY <2>3 DEF vars, Counts, columns
      <4> QED BY <1>1, <4>1, SheetStepKeepsTree DEF DataNext, allVars
    <3>2. req[p].op = "update" /\ c = req[p].id
      BY <1>1, <2>3, <3>1, RootChangesOwnRow
    <3>3. CompanyStep(p) /\ Commit(p)
      BY <1>1, <2>3, <3>1, CompanyStepKinds
    <3>4. p = r
      BY <1>1, <2>1, <3>3 DEF Commit, Request
    <3>5. /\ req[r].own = Loaded(req[r].id)
          /\ May(caller[r], req[r].id, req[r].own.root)
      BY <1>1, <3>2, <3>4 DEF AllFresh, Fresh
    <3>6. req[r].own.root = group_root_id[c]
      BY <3>2, <3>4, <3>5 DEF Loaded
    <3>7. May(caller[r], c, group_root_id[c])
      BY <3>2, <3>4, <3>5, <3>6
    <3> QED BY <3>7 DEF May
  <2> QED BY <2>2, <2>3
<1>2. DataInit => AllFresh
  BY DEF DataInit, Init, AllFresh, Fresh, Idle
<1>3. DataInv /\ AllFresh /\ [DataNext]_allVars =>
         [\A r \in Requests, c \in Ids :
            Widens(r, c) => Allowed(caller[r], "company:update", "company", c,
                                    group_root_id[c])]_allVars
  BY <1>1
<1> QED BY <1>2, <1>3, FreshStep, DataInvAlways, PTL DEF DataSpec, OthersWidenScope
=============================================================================
