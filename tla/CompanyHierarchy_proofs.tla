------------------------ MODULE CompanyHierarchy_proofs ------------------------
(***************************************************************************)
(* Theorems about CompanyHierarchy, for every number of requests and       *)
(* companies.  The invariant has three parts: what the next statement of a *)
(* handler says about its request (StepsMatch), the tree as two facts a    *)
(* single row or a single set can violate (RowsAgree, Acyclic), and what   *)
(* the reads of a request still say when nothing has overtaken it          *)
(* (ReadsHold).                                                            *)
(***************************************************************************)
EXTENDS CompanyHierarchy, TLAPS

\* A row agrees with its parent's row.
RowsAgree ==
    \A c \in stored :
        IF parent_company_id[c] = NoParent
        THEN group_root_id[c] = c
        ELSE /\ parent_company_id[c] \in stored
             /\ group_root_id[c] = group_root_id[parent_company_id[c]]

\* Every nonempty set of companies has one whose parent is outside it.
Acyclic ==
    \A S \in SUBSET stored :
        S # {} => \E c \in S : parent_company_id[c] \notin S

\* A request at each of its statements.
StepsMatch(q) ==
    /\ q.op = "none"   => q = Idle
    /\ q.op = "create" => /\ q.pc \in {"parent", "insert"}
                          /\ q.to \in Ids \cup {NoParent}
    /\ q.op = "update" => /\ q.pc \in {"count", "parent", "write"}
                          /\ q.id \in Ids /\ q.own.root \in Ids
                          /\ q.to # q.id /\ q.to # q.own.parent
                          /\ q.pc \in {"count", "parent"} => q.to # Keep
    /\ q.op = "delete" => q.pc \in {"count", "select", "delete"} /\ q.id \in Ids /\ q.to = Keep
    /\ q.pc = "parent" => q.to \in Ids
    /\ q.pc \in {"insert", "write"} /\ q.to \in Ids => q.up \in Ids

\* What a request that nothing has overtaken has read.
ReadsHold(q) ==
    /\ q.op \in {"update", "delete"} => q.id \in stored /\ q.own = Loaded(q.id)
    /\ q.pc \in {"insert", "write"} /\ q.to \in Ids =>
          q.to \in stored /\ q.up = group_root_id[q.to]
    /\ q.op = "update" /\ q.pc \in {"parent", "write"} /\ q.to # Keep =>
          Subsidiaries(q.id) = {}
    /\ q.pc \in {"select", "delete"} => Subsidiaries(q.id) = {}
    /\ q.pc = "delete" => q.below = {}

HierarchyInv ==
    /\ TypeOK
    /\ \A r \in Requests : StepsMatch(req[r])
    /\ ~raced => /\ RowsAgree
                 /\ Acyclic
                 /\ \A r \in Requests : ~req[r].overtaken => ReadsHold(req[r])

-----------------------------------------------------------------------------
(* The tree.                                                               *)

\* Agreement of neighbours and acyclicity make group_root_id the top-most
\* ancestor: a set closed upward that misses it has no exit.
LEMMA TreeGivesTop == TypeOK /\ RowsAgree /\ Acyclic => GroupRootIsTopAncestor
<1> SUFFICES ASSUME TypeOK, RowsAgree, Acyclic, NEW c \in stored
             PROVE  /\ group_root_id[c] \in stored
                    /\ parent_company_id[group_root_id[c]] = NoParent
                    /\ IsAbove(group_root_id[c], c)
  BY DEF GroupRootIsTopAncestor
<1> DEFINE SameRoot(S) == {d \in S : group_root_id[d] = group_root_id[c]}
\* In a set closed upward with c in it, the companies of c's group exit only
\* at the root itself.
<1>1. ASSUME NEW S \in SUBSET stored, c \in S, ClosedUpward(S)
      PROVE  group_root_id[c] \in S /\ parent_company_id[group_root_id[c]] = NoParent
  <2>1. SameRoot(S) \in SUBSET stored /\ SameRoot(S) # {}
    BY <1>1
  <2>2. PICK d \in SameRoot(S) : parent_company_id[d] \notin SameRoot(S)
    BY <2>1 DEF Acyclic
  <2>3. d \in S /\ d \in stored /\ group_root_id[d] = group_root_id[c]
    BY <2>2
  <2>4. CASE parent_company_id[d] = NoParent
    BY <2>3, <2>4 DEF RowsAgree
  <2>5. CASE parent_company_id[d] # NoParent
    <3>1. parent_company_id[d] \in S
      BY <1>1, <2>3, <2>5 DEF ClosedUpward
    <3>2. group_root_id[parent_company_id[d]] = group_root_id[c]
      BY <2>3, <2>5 DEF RowsAgree
    <3> QED BY <2>2, <3>1, <3>2
  <2> QED BY <2>4, <2>5
<1>2. ClosedUpward(stored)
  BY DEF RowsAgree, ClosedUpward
<1>3. group_root_id[c] \in stored /\ parent_company_id[group_root_id[c]] = NoParent
  BY <1>1, <1>2
<1>4. IsAbove(group_root_id[c], c)
  BY <1>1 DEF IsAbove
<1> QED BY <1>3, <1>4

-----------------------------------------------------------------------------
(* The steps.                                                              *)

LEMMA IdleIsRequest == Idle \in Request
BY BoundsAssumption DEF Idle, Request, Ids, NoParent, NoId, Keep

LEMMA InitInv == Init => HierarchyInv
<1> SUFFICES ASSUME Init PROVE HierarchyInv
  OBVIOUS
<1>1. TypeOK
  <2>1. 1 \in 1 .. MaxCompanies + 1 /\ 0 \in 0 .. MaxRequests
    BY BoundsAssumption
  <2>2. req \in [Requests -> Request]
    BY IdleIsRequest DEF Init
  <2> QED BY <2>1, <2>2 DEF Init, TypeOK
<1>2. \A r \in Requests : StepsMatch(req[r])
  BY DEF Init, StepsMatch, Idle
<1>3. RowsAgree /\ Acyclic
  BY DEF Init, RowsAgree, Acyclic
<1>4. \A r \in Requests : ReadsHold(req[r])
  BY DEF Init, ReadsHold, Idle
<1> QED BY <1>1, <1>2, <1>3, <1>4 DEF HierarchyInv

\* A step that changes no column, and of the requests only r.
LEMMA OneRequestMoves ==
    ASSUME HierarchyInv, NEW r \in Requests, NEW q \in Request,
           req' = [req EXCEPT ![r] = q],
           started' \in 0 .. MaxRequests,
           UNCHANGED <<columns, raced>>,
           StepsMatch(q),
           ~raced /\ ~q.overtaken => ReadsHold(q)
    PROVE  HierarchyInv'
<1>1. TypeOK'
  BY DEF HierarchyInv, TypeOK, columns
<1>2. \A p \in Requests : req'[p] = IF p = r THEN q ELSE req[p]
  BY DEF HierarchyInv, TypeOK
<1>3. \A p \in Requests : StepsMatch(req'[p])
  BY <1>2 DEF HierarchyInv
<1>4. ASSUME ~raced', NEW p \in Requests, ~req'[p].overtaken
      PROVE  ReadsHold(req[p])' 
  BY <1>2, <1>4 DEF HierarchyInv, ReadsHold, Loaded, Subsidiaries, columns
<1>5. ~raced' => RowsAgree' /\ Acyclic'
  BY DEF HierarchyInv, RowsAgree, Acyclic, columns
<1> QED BY <1>1, <1>3, <1>4, <1>5 DEF HierarchyInv

\* A commit that changes the tree: every other request is overtaken.
LEMMA CommitMoves ==
    ASSUME HierarchyInv, NEW r \in Requests, Commit(r),
           stored' \subseteq Ids,
           parent_company_id' \in [Ids -> Ids \cup {NoParent}],
           group_root_id' \in [Ids -> Ids \cup {NoId}],
           nextId' \in 1 .. MaxCompanies + 1,
           \A c \in stored' : c < nextId' /\ group_root_id'[c] \in Ids,
           started' = started,
           ~raced /\ ReadsHold(req[r]) => RowsAgree' /\ Acyclic'
    PROVE  HierarchyInv'
<1>1. \A p \in Requests :
         req'[p] = CASE p = r                -> Idle
                     [] req[p].op = "none"   -> req[p]
                     [] OTHER                -> [req[p] EXCEPT !.overtaken = TRUE]
  BY DEF Commit
<1>2. \A p \in Requests : req[p] \in Request /\ StepsMatch(req[p])
  BY DEF HierarchyInv, TypeOK
<1>3. \A p \in Requests : req'[p] \in Request
  <2> SUFFICES ASSUME NEW p \in Requests PROVE req'[p] \in Request
    OBVIOUS
  <2>0. req[p] \in Request
    BY <1>2
  <2>1. [req[p] EXCEPT !.overtaken = TRUE] \in Request
    BY ONLY <2>0 DEF Request
  <2>2. req'[p] = Idle \/ req'[p] = req[p] \/ req'[p] = [req[p] EXCEPT !.overtaken = TRUE]
    BY <1>1
  <2> QED BY <1>2, <2>1, <2>2, IdleIsRequest
<1>4. TypeOK'
  <2>1. req' \in [Requests -> Request]
    BY <1>3 DEF Commit
  <2>2. raced' \in BOOLEAN
    BY <1>2 DEF Commit, Request
  <2> QED BY <2>1, <2>2 DEF HierarchyInv, TypeOK
<1>5. ASSUME NEW p \in Requests
      PROVE  StepsMatch(req'[p])
  <2>1. CASE req'[p] = Idle
    BY <2>1 DEF StepsMatch, Idle
  <2>2. CASE req'[p] = req[p]
    BY <1>2, <2>2
  <2>3. CASE req[p].op # "none" /\ req'[p] = [req[p] EXCEPT !.overtaken = TRUE]
    BY <1>2, <2>3 DEF StepsMatch, Request
  <2> QED BY <1>1, <2>1, <2>2, <2>3
<1>6. ASSUME ~raced'
      PROVE  RowsAgree' /\ Acyclic'
  BY <1>6 DEF Commit, HierarchyInv
<1>7. ASSUME NEW p \in Requests, ~req'[p].overtaken
      PROVE  ReadsHold(req[p])'
  <2>1. req'[p] = Idle
    BY <1>1, <1>2, <1>7 DEF StepsMatch, Request
  <2> QED BY <2>1 DEF ReadsHold, Idle
<1> QED BY <1>4, <1>5, <1>6, <1>7 DEF HierarchyInv

LEMMA FinishKeepsInv ==
    ASSUME HierarchyInv, NEW r \in Requests, Finish(r), started' = started,
           UNCHANGED <<columns, raced>>
    PROVE  HierarchyInv'
<1>1. StepsMatch(Idle) /\ ReadsHold(Idle)
  BY DEF StepsMatch, ReadsHold, Idle
<1> QED BY <1>1, IdleIsRequest, OneRequestMoves DEF Finish, HierarchyInv, TypeOK

LEMMA BeginKeepsInv ==
    ASSUME HierarchyInv, NEW r \in Requests, NEW q \in Request, Begin(r, q),
           StepsMatch(q), ReadsHold(q)
    PROVE  HierarchyInv'
<1>1. started' \in 0 .. MaxRequests
  BY BoundsAssumption DEF Begin, HierarchyInv, TypeOK
<1> QED BY <1>1, OneRequestMoves DEF Begin

LEMMA AddCompanyStep ==
    ASSUME HierarchyInv, NEW r \in Requests, add_company(r)
    PROVE  HierarchyInv'
<1>1. PICK to \in Ids \cup {NoParent} :
         Begin(r, [Idle EXCEPT !.op = "create", !.to = to,
                               !.pc = IF to = NoParent THEN "insert" ELSE "parent"])
  BY DEF add_company
<1> DEFINE q == [Idle EXCEPT !.op = "create", !.to = to,
                             !.pc = IF to = NoParent THEN "insert" ELSE "parent"]
<1>2. q \in Request
  BY IdleIsRequest DEF Request
<1>3. StepsMatch(q) /\ ReadsHold(q)
  BY DEF StepsMatch, ReadsHold, Idle, Ids, NoParent
<1> HIDE DEF q
<1> QED BY <1>1, <1>2, <1>3, BeginKeepsInv DEF q

LEMMA EditCompanyStep ==
    ASSUME HierarchyInv, NEW r \in Requests, edit_company(r)
    PROVE  HierarchyInv'
<1>1. PICK c \in stored, to \in Ids \cup {NoParent, Keep} :
         /\ to # c
         /\ LET moves == to # Keep /\ to # parent_company_id[c] IN
            Begin(r, [Idle EXCEPT !.op = "update", !.id = c, !.own = Loaded(c),
                                  !.to = IF moves THEN to ELSE Keep,
                                  !.pc = IF moves THEN "count" ELSE "write"])
  BY DEF edit_company
<1> DEFINE moves == to # Keep /\ to # parent_company_id[c]
           q == [Idle EXCEPT !.op = "update", !.id = c, !.own = Loaded(c),
                             !.to = IF moves THEN to ELSE Keep,
                             !.pc = IF moves THEN "count" ELSE "write"]
<1>2. c \in Ids /\ Loaded(c) \in [parent : Ids \cup {NoParent}, root : Ids]
  BY DEF HierarchyInv, TypeOK, Loaded
<1>3. q \in Request
  BY <1>2, IdleIsRequest DEF Request
<1>4. Keep \notin Ids \cup {NoParent}
  BY DEF Keep, Ids, NoParent
<1>5. StepsMatch(q)
  BY <1>1, <1>2, <1>4 DEF StepsMatch, Idle, Loaded
<1>6. ReadsHold(q)
  BY <1>4 DEF ReadsHold, Idle
<1> HIDE DEF q
<1> QED BY <1>1, <1>3, <1>5, <1>6, BeginKeepsInv DEF q

LEMMA RemoveCompanyStep ==
    ASSUME HierarchyInv, NEW r \in Requests, remove_company(r)
    PROVE  HierarchyInv'
<1>1. PICK c \in stored :
         Begin(r, [Idle EXCEPT !.op = "delete", !.pc = "count", !.id = c, !.own = Loaded(c)])
  BY DEF remove_company
<1> DEFINE q == [Idle EXCEPT !.op = "delete", !.pc = "count", !.id = c, !.own = Loaded(c)]
<1>2. c \in Ids /\ Loaded(c) \in [parent : Ids \cup {NoParent}, root : Ids]
  BY DEF HierarchyInv, TypeOK, Loaded
<1>3. q \in Request
  BY <1>2, IdleIsRequest DEF Request
<1>4. StepsMatch(q) /\ ReadsHold(q)
  BY <1>2 DEF StepsMatch, ReadsHold, Idle
<1> HIDE DEF q
<1> QED BY <1>1, <1>3, <1>4, BeginKeepsInv DEF q

LEMMA GetParentStep ==
    ASSUME HierarchyInv, NEW r \in Requests, get_parent(r)
    PROVE  HierarchyInv'
<1> DEFINE p == req[r]
           q == [p EXCEPT !.up = group_root_id[p.to],
                          !.pc = IF p.op = "create" THEN "insert" ELSE "write"]
<1>1. p \in Request /\ StepsMatch(p) /\ p.pc = "parent"
  BY DEF HierarchyInv, TypeOK, get_parent
<1>2. CASE p.to \notin stored
  BY <1>2, FinishKeepsInv DEF get_parent
<1>3. CASE p.to \in stored
  <2>1. group_root_id[p.to] \in Ids /\ p.to \in Ids
    BY <1>3 DEF HierarchyInv, TypeOK
  <2>2. q \in Request
    BY <1>1, <2>1 DEF Request
  <2>3. req' = [req EXCEPT ![r] = q]
    BY <1>3 DEF get_parent
  <2>4. p.op \in {"create", "update"}
    BY <1>1 DEF StepsMatch, Request, Idle
  <2>5. StepsMatch(q)
    BY <1>1, <2>1, <2>4 DEF StepsMatch, Request
  <2>6. ASSUME ~raced, ~q.overtaken
        PROVE  ReadsHold(q)
    <3>1. ReadsHold(p)
      BY <1>1, <2>6 DEF HierarchyInv, Request
    <3>2. p.op = "update" => p.to # Keep
      BY <1>1 DEF StepsMatch
    <3> QED BY <1>1, <1>3, <2>4, <3>1, <3>2 DEF ReadsHold, Request
  <2>7. started' \in 0 .. MaxRequests /\ UNCHANGED <<columns, raced>>
    BY DEF get_parent, HierarchyInv, TypeOK
  <2> HIDE DEF q
  <2> QED BY <2>2, <2>3, <2>5, <2>6, <2>7, OneRequestMoves
<1> QED BY <1>2, <1>3

LEMMA CountStep ==
    ASSUME HierarchyInv, NEW r \in Requests, count_subsidiaries(r)
    PROVE  HierarchyInv'
<1> DEFINE p == req[r]
           next == CASE p.op = "delete"   -> "select"
                     [] p.to = NoParent   -> "write"
                     [] OTHER             -> "parent"
           q == [p EXCEPT !.pc = next]
<1>1. p \in Request /\ StepsMatch(p) /\ p.pc = "count"
  BY DEF HierarchyInv, TypeOK, count_subsidiaries
<1>2. CASE Subsidiaries(p.id) # {}
  BY <1>2, FinishKeepsInv DEF count_subsidiaries
<1>3. CASE Subsidiaries(p.id) = {}
  <2>1. next \in {"select", "write", "parent"}
    OBVIOUS
  <2>2. q \in Request
    BY <1>1, <2>1 DEF Request
  <2>3. req' = [req EXCEPT ![r] = q]
    BY <1>3 DEF count_subsidiaries, Goto
  <2>4. p.op \in {"update", "delete"}
    BY <1>1 DEF StepsMatch, Request, Idle
  <2>5. NoParent \notin Ids /\ Keep \notin Ids \cup {NoParent}
    BY DEF Keep, Ids, NoParent
  <2>6. StepsMatch(q)
    <3>1. CASE p.op = "delete"
      <4>1. q.pc = "select" /\ q.op = "delete" /\ q.to = p.to /\ q.id = p.id
        BY <1>1, <3>1 DEF Request, StepsMatch, Keep, NoParent
      <4> QED BY <1>1, <3>1, <4>1 DEF StepsMatch
    <3>2. CASE p.op = "update"
      <4>1. p.to \in Ids \cup {NoParent} /\ q.to = p.to /\ q.id = p.id /\ q.own = p.own
        BY <1>1, <3>2 DEF StepsMatch, Request
      <4>2. q.pc = IF p.to = NoParent THEN "write" ELSE "parent"
        BY <1>1, <3>2 DEF Request
      <4>3. q.op = "update" /\ q.pc # "insert"
        BY <1>1, <3>2, <4>2 DEF Request
      <4> QED BY <1>1, <2>5, <3>2, <4>1, <4>2, <4>3 DEF StepsMatch
    <3> QED BY <2>4, <3>1, <3>2
  <2>7. ASSUME ~raced, ~q.overtaken
        PROVE  ReadsHold(q)
    <3>1. ReadsHold(p)
      BY <1>1, <2>7 DEF HierarchyInv, Request
    <3>2. q.pc = "write" => q.to = NoParent
      BY <1>1 DEF Request
    <3>3. q.pc \notin {"insert", "delete"}
      BY <2>1, <1>1 DEF Request
    <3> QED BY <1>1, <1>3, <2>5, <3>1, <3>2, <3>3 DEF ReadsHold, Request
  <2>8. started' \in 0 .. MaxRequests /\ UNCHANGED <<columns, raced>>
    BY DEF count_subsidiaries, HierarchyInv, TypeOK
  <2> HIDE DEF q
  <2> QED BY <2>2, <2>3, <2>6, <2>7, <2>8, OneRequestMoves
<1> QED BY <1>2, <1>3

\* What is needed of the columns to commit, apart from the tree.
LEMMA ColumnTypes ==
    HierarchyInv => /\ stored \subseteq Ids
                    /\ parent_company_id \in [Ids -> Ids \cup {NoParent}]
                    /\ group_root_id \in [Ids -> Ids \cup {NoId}]
                    /\ \A c \in stored : c < nextId /\ group_root_id[c] \in Ids
                    /\ nextId \in 1 .. MaxCompanies + 1
                    /\ NoParent \notin Ids
BY DEF HierarchyInv, TypeOK, Ids, NoParent

\* A new row is nobody's parent, so it closes no circle.
LEMMA CreateStep ==
    ASSUME HierarchyInv, NEW r \in Requests, create_company(r)
    PROVE  HierarchyInv'
<1> DEFINE q == req[r]
           to == q.to
           n == nextId
<1> USE ColumnTypes
<1>1. q \in Request /\ StepsMatch(q) /\ q.pc = "insert"
  BY DEF HierarchyInv, TypeOK, create_company
<1>2. n \in Ids /\ n \notin stored /\ nextId' = n + 1 /\ nextId' \in 1 .. MaxCompanies + 1
  BY BoundsAssumption DEF create_company, Ids
<1>3. q.op = "create" /\ to \in Ids \cup {NoParent}
  BY <1>1 DEF StepsMatch, Request, Idle
<1>4. CASE ~(to = NoParent \/ to \in stored)
  <2>1. /\ req' = [req EXCEPT ![r] = Idle]
        /\ UNCHANGED <<stored, parent_company_id, group_root_id, raced, started>>
    BY <1>4 DEF create_company, Finish
  <2>2. TypeOK'
    <3>1. \A c \in stored : c < nextId'
      BY <1>2 DEF Ids
    <3> QED BY <1>2, <2>1, <3>1, IdleIsRequest DEF HierarchyInv, TypeOK
  <2>3. \A p \in Requests : req'[p] = IF p = r THEN Idle ELSE req[p]
    BY <2>1 DEF HierarchyInv, TypeOK
  <2>4. StepsMatch(Idle) /\ ReadsHold(Idle)'
    BY DEF StepsMatch, ReadsHold, Idle
  <2>5. \A p \in Requests : StepsMatch(req'[p])
    BY <2>3, <2>4 DEF HierarchyInv
  <2>6. ASSUME ~raced', NEW p \in Requests, ~req'[p].overtaken
        PROVE  ReadsHold(req[p])'
    BY <2>1, <2>3, <2>4, <2>6 DEF HierarchyInv, ReadsHold, Loaded, Subsidiaries
  <2>7. ~raced' => RowsAgree' /\ Acyclic'
    BY <2>1 DEF HierarchyInv, RowsAgree, Acyclic
  <2> QED BY <2>2, <2>5, <2>6, <2>7 DEF HierarchyInv
<1>5. CASE to = NoParent \/ to \in stored
  <2> DEFINE g == IF to = NoParent THEN n ELSE q.up
  <2>1. /\ stored' = stored \cup {n}
        /\ parent_company_id' = [parent_company_id EXCEPT ![n] = to]
        /\ group_root_id' = [group_root_id EXCEPT ![n] = g]
        /\ Commit(r)
        /\ started' = started
    BY <1>5 DEF create_company
  <2>2. g \in Ids
    BY <1>1, <1>2, <1>3 DEF StepsMatch
  <2> HIDE DEF g
  <2>3. /\ stored' \subseteq Ids
        /\ parent_company_id' \in [Ids -> Ids \cup {NoParent}]
        /\ group_root_id' \in [Ids -> Ids \cup {NoId}]
    BY <1>2, <1>3, <2>1, <2>2
  <2>4. \A c \in stored' : c < nextId' /\ group_root_id'[c] \in Ids
    BY <1>2, <2>1, <2>2 DEF Ids
  <2>5. ASSUME ~raced, ReadsHold(q)
        PROVE  RowsAgree' /\ Acyclic'
    <3>1. RowsAgree /\ Acyclic
      BY <2>5 DEF HierarchyInv
    <3>2. \A c \in stored : parent_company_id'[c] = parent_company_id[c]
                           /\ group_root_id'[c] = group_root_id[c]
                           /\ parent_company_id[c] # n
      BY <1>2, <2>1, <3>1 DEF RowsAgree
    <3>3. parent_company_id'[n] = to /\ group_root_id'[n] = g /\ to # n
      BY <1>2, <1>5, <2>1
    <3>4. to # NoParent => group_root_id[to] = g
      BY <1>1, <1>3, <2>5 DEF ReadsHold, g
    <3>5. RowsAgree'
      BY <1>2, <1>5, <2>1, <3>1, <3>2, <3>3, <3>4 DEF RowsAgree, g
    <3>6. ASSUME NEW S \in SUBSET stored', S # {}
          PROVE  \E c \in S : parent_company_id'[c] \notin S
      <4>1. CASE S \ {n} = {}
        BY <3>3, <3>6, <4>1
      <4>2. CASE S \ {n} # {}
        <5>1. S \ {n} \in SUBSET stored
          BY <2>1
        <5>2. PICK c \in S \ {n} : parent_company_id[c] \notin S \ {n}
          BY <3>1, <4>2, <5>1 DEF Acyclic
        <5> QED BY <3>2, <5>1, <5>2
      <4> QED BY <4>1, <4>2
    <3> QED BY <3>5, <3>6 DEF Acyclic
  <2> QED BY <1>2, <2>1, <2>3, <2>4, <2>5, CommitMoves
<1> QED BY <1>4, <1>5

\* A request that leaves the parent alone has no column to write.
LEMMA KeepWritesNothing == \A q \in Request : q.to = Keep => Written(q) = {}
<1> TAKE q \in Request
<1> HAVE q.to = Keep
<1>1. Edited(q) = q.own
  BY DEF Edited, Keep, NoParent
<1> QED BY <1>1 DEF Written

\* A company without subsidiaries is nobody's parent, so it may move.
LEMMA UpdateStep ==
    ASSUME HierarchyInv, NEW r \in Requests, update_company(r)
    PROVE  HierarchyInv'
<1> DEFINE q == req[r]
           c == q.id
           new == Edited(q)
           writes == /\ Written(q) # {} /\ c \in stored
                     /\ "parent" \in Written(q) => new.parent \in stored \cup {NoParent}
<1> USE ColumnTypes
<1>1. q \in Request /\ StepsMatch(q) /\ q.pc = "write"
  BY DEF HierarchyInv, TypeOK, update_company
<1>2. q.op = "update" /\ c \in Ids /\ q.own.root \in Ids /\ q.to # c /\ q.to # q.own.parent
  BY <1>1 DEF StepsMatch, Request, Idle
<1>3. CASE ~writes
  BY <1>3, FinishKeepsInv DEF update_company, columns
<1>4. CASE writes
  <2>1. /\ parent_company_id' = IF "parent" \in Written(q)
                                THEN [parent_company_id EXCEPT ![c] = new.parent]
                                ELSE parent_company_id
        /\ group_root_id' = IF "root" \in Written(q)
                            THEN [group_root_id EXCEPT ![c] = new.root]
                            ELSE group_root_id
        /\ Commit(r)
        /\ UNCHANGED <<stored, nextId, started>>
    BY <1>4 DEF update_company
  <2>2. new \in [parent : Ids \cup {NoParent}, root : Ids]
    BY <1>1, <1>2 DEF Edited, StepsMatch, Request
  <2>3. q.to # Keep
    BY <1>1, <1>4, KeepWritesNothing
  <2>4. q.to \in Ids \cup {NoParent} /\ new.parent = q.to
    BY <1>1, <2>3 DEF Request, Edited
  <2>5. new.root = IF q.to = NoParent THEN c ELSE q.up
    BY <2>3, <2>4 DEF Edited
  <2> HIDE DEF new
  <2>6. /\ parent_company_id' \in [Ids -> Ids \cup {NoParent}]
        /\ group_root_id' \in [Ids -> Ids \cup {NoId}]
    BY <1>2, <2>1, <2>2
  <2>7. \A d \in stored' : d < nextId' /\ group_root_id'[d] \in Ids
    BY <1>2, <2>1, <2>2
  <2>8. ASSUME ~raced, ReadsHold(q)
        PROVE  RowsAgree' /\ Acyclic'
    <3>1. RowsAgree /\ Acyclic
      BY <2>8 DEF HierarchyInv
    <3>2. c \in stored /\ q.own = Loaded(c) /\ Subsidiaries(c) = {}
      BY <1>1, <1>2, <2>3, <2>8 DEF ReadsHold
    <3>3. q.to \in Ids => q.to \in stored /\ q.up = group_root_id[q.to]
      BY <1>1, <2>8 DEF ReadsHold
    \* The UPDATE leaves the row as edited: what it does not name is already so.
    <3>4. \A d \in Ids : /\ parent_company_id'[d] = IF d = c THEN q.to ELSE parent_company_id[d]
                         /\ group_root_id'[d] = IF d = c THEN new.root ELSE group_root_id[d]
      BY <1>2, <2>1, <2>4, <3>2 DEF Written, Loaded, new
    <3>5. \A d \in stored : parent_company_id[d] # c
      BY <3>2 DEF Subsidiaries
    <3>6. RowsAgree'
      BY <1>2, <2>1, <2>4, <2>5, <3>1, <3>2, <3>3, <3>4, <3>5 DEF RowsAgree
    <3>7. ASSUME NEW S \in SUBSET stored', S # {}
          PROVE  \E d \in S : parent_company_id'[d] \notin S
      <4>1. CASE S \ {c} = {}
        BY <1>2, <3>4, <3>7, <4>1
      <4>2. CASE S \ {c} # {}
        <5>1. S \ {c} \in SUBSET stored
          BY <2>1
        <5>2. PICK d \in S \ {c} : parent_company_id[d] \notin S \ {c}
          BY <3>1, <4>2, <5>1 DEF Acyclic
        <5> QED BY <3>4, <3>5, <5>1, <5>2
      <4> QED BY <4>1, <4>2
    <3> QED BY <3>6, <3>7 DEF Acyclic
  <2> QED BY <2>1, <2>6, <2>7, <2>8, CommitMoves
<1> QED BY <1>3, <1>4

LEMMA SelectStep ==
    ASSUME HierarchyInv, NEW r \in Requests, select_subsidiaries(r)
    PROVE  HierarchyInv'
<1> DEFINE p == req[r]
           q == [p EXCEPT !.below = Subsidiaries(p.id), !.pc = "delete"]
<1>1. p \in Request /\ StepsMatch(p) /\ p.pc = "select"
  BY DEF HierarchyInv, TypeOK, select_subsidiaries
<1>2. Subsidiaries(p.id) \subseteq Ids
  BY DEF Subsidiaries, HierarchyInv, TypeOK
<1>3. q \in Request /\ req' = [req EXCEPT ![r] = q]
  BY <1>1, <1>2 DEF Request, select_subsidiaries
<1>4. p.op = "delete" /\ q.op = "delete" /\ q.pc = "delete" /\ q.id = p.id /\ q.to = p.to
      /\ q.own = p.own /\ q.below = Subsidiaries(p.id) /\ q.overtaken = p.overtaken
  BY <1>1 DEF StepsMatch, Request, Idle
<1> HIDE DEF q
<1>5. StepsMatch(q)
  BY <1>1, <1>4 DEF StepsMatch
<1>6. ASSUME ~raced, ~q.overtaken
      PROVE  ReadsHold(q)
  <2>1. ReadsHold(p)
    BY <1>4, <1>6 DEF HierarchyInv
  <2> QED BY <1>1, <1>4, <2>1 DEF ReadsHold
<1>7. started' \in 0 .. MaxRequests /\ UNCHANGED <<columns, raced>>
  BY DEF select_subsidiaries, HierarchyInv, TypeOK
<1> QED BY <1>3, <1>5, <1>6, <1>7, OneRequestMoves

\* A company without subsidiaries leaves no row behind that names it.
LEMMA DeleteStep ==
    ASSUME HierarchyInv, NEW r \in Requests, delete_company(r)
    PROVE  HierarchyInv'
<1> DEFINE q == req[r]
           c == q.id
           kids == q.below
           writes == kids \subseteq stored /\ (c \in stored \/ kids # {})
<1> USE ColumnTypes
<1>1. q \in Request /\ StepsMatch(q) /\ q.pc = "delete"
  BY DEF HierarchyInv, TypeOK, delete_company
<1>2. CASE ~writes
  BY <1>2, FinishKeepsInv DEF delete_company, columns
<1>3. CASE writes
  <2>1. /\ stored' = stored \ {c}
        /\ parent_company_id' = [d \in Ids |-> IF d \in kids \cup Subsidiaries(c)
                                               THEN NoParent ELSE parent_company_id[d]]
        /\ Commit(r)
        /\ UNCHANGED <<group_root_id, nextId, started>>
    BY <1>3 DEF delete_company
  <2>2. parent_company_id' \in [Ids -> Ids \cup {NoParent}]
    BY <2>1
  <2>3. ASSUME ~raced, ReadsHold(q)
        PROVE  RowsAgree' /\ Acyclic'
    <3>1. RowsAgree /\ Acyclic
      BY <2>3 DEF HierarchyInv
    <3>2. Subsidiaries(c) = {} /\ kids = {}
      BY <1>1, <2>3 DEF ReadsHold
    <3>3. \A d \in stored : parent_company_id[d] # c /\ parent_company_id'[d] = parent_company_id[d]
      BY <2>1, <3>2 DEF Subsidiaries
    <3> QED BY <2>1, <3>1, <3>3 DEF RowsAgree, Acyclic
  <2> QED BY <2>1, <2>2, <2>3, CommitMoves
<1> QED BY <1>2, <1>3

-----------------------------------------------------------------------------
(* The theorems.                                                           *)

LEMMA StepInv == HierarchyInv /\ [Next]_vars => HierarchyInv'
<1> SUFFICES ASSUME HierarchyInv, [Next]_vars PROVE HierarchyInv'
  OBVIOUS
<1>1. CASE UNCHANGED vars
  BY <1>1 DEF HierarchyInv, TypeOK, RowsAgree, Acyclic, ReadsHold, Loaded, Subsidiaries, vars, columns
<1>2. ASSUME NEW r \in Requests, Fail(r)
      PROVE  HierarchyInv'
  BY <1>2, FinishKeepsInv DEF Fail
<1> QED BY <1>1, <1>2, AddCompanyStep, GetParentStep, CreateStep, EditCompanyStep,
           CountStep, UpdateStep, RemoveCompanyStep, SelectStep, DeleteStep DEF Next

LEMMA InvAlways == Spec => []HierarchyInv
<1>1. Init => HierarchyInv
  BY InitInv
<1>2. HierarchyInv /\ [Next]_vars => HierarchyInv'
  BY StepInv
<1> QED BY <1>1, <1>2, PTL DEF Spec

\* Every reachable state is well typed, and no row keeps the placeholder
\* group root of its INSERT.
THEOREM TypeCorrect == Spec => []TypeOK
<1>1. HierarchyInv => TypeOK
  BY DEF HierarchyInv
<1> QED BY <1>1, InvAlways, PTL

\* As long as no request commits on a table another one has changed since it
\* started, group_root_id is the top-most ancestor of every company.
THEOREM TreeIsKept == Spec => []TreeUnlessOvertaken
<1>1. HierarchyInv => TreeUnlessOvertaken
  BY TreeGivesTop DEF HierarchyInv, TreeUnlessOvertaken
<1> QED BY <1>1, InvAlways, PTL

\* The columns of the tree stay when a request that is to keep its parent ends.
LEMMA KeepStep ==
    ASSUME HierarchyInv, [Next]_vars, NEW r \in Requests,
           req[r].op = "update", req[r].to = Keep, req'[r] = Idle
    PROVE  UNCHANGED <<stored, parent_company_id, group_root_id>>
<1>1. req[r] \in Request /\ StepsMatch(req[r]) /\ req[r] # Idle
  BY DEF HierarchyInv, TypeOK, Idle
<1>2. req[r].pc = "write" /\ Written(req[r]) = {}
  <2>1. req[r].pc = "write"
    BY <1>1 DEF StepsMatch
  <2> QED BY <1>1, <2>1, KeepWritesNothing
<1>3. ASSUME NEW p \in Requests, p # r, Commit(p)
      PROVE  FALSE
  BY <1>1, <1>3 DEF Commit, Request, Idle
<1>4. ASSUME NEW p \in Requests, create_company(p)
      PROVE  UNCHANGED <<stored, parent_company_id, group_root_id>>
  BY <1>2, <1>3, <1>4 DEF create_company
<1>5. ASSUME NEW p \in Requests, update_company(p)
      PROVE  UNCHANGED <<stored, parent_company_id, group_root_id>>
  BY <1>2, <1>3, <1>5 DEF update_company
<1>6. ASSUME NEW p \in Requests, delete_company(p)
      PROVE  UNCHANGED <<stored, parent_company_id, group_root_id>>
  BY <1>2, <1>3, <1>6 DEF delete_company
<1> QED BY <1>4, <1>5, <1>6 DEF Next, vars, columns, add_company, edit_company,
           remove_company, Begin, get_parent, count_subsidiaries, select_subsidiaries, Fail

\* A PATCH without parent_company_id writes no place in the tree, however the
\* row was moved after it was loaded.
THEOREM RenamesKeepPlaces == Spec => RenameKeepsPlace
<1>1. HierarchyInv /\ [Next]_vars =>
         [\A r \in Requests :
            req[r].op = "update" /\ req[r].to = Keep /\ req'[r] = Idle
               => UNCHANGED <<stored, parent_company_id, group_root_id>>]_vars
  BY KeepStep
<1> QED BY <1>1, InvAlways, PTL DEF Spec, RenameKeepsPlace

-----------------------------------------------------------------------------
(* CompanyTree is implemented.                                             *)

LEMMA TreeStarts == Init => Tree!Init
<1> SUFFICES ASSUME Init PROVE Tree!Init
  OBVIOUS
<1>1. [c \in stored |-> parent_company_id[c]] = <<>> /\ [c \in stored |-> group_root_id[c]] = <<>>
  BY DEF Init
<1> QED BY <1>1 DEF Init, Tree!Init

\* The two ways to say that a column is the top-most ancestor agree.
LEMMA TopsAreTops == TypeOK /\ GroupRootIsTopAncestor => Tree!GroupsAreTops
<1> SUFFICES ASSUME TypeOK, GroupRootIsTopAncestor, NEW c \in stored
             PROVE  /\ group_root_id[c] \in stored
                    /\ parent_company_id[group_root_id[c]] = NoParent
                    /\ Tree!IsAbove(group_root_id[c], c)
  BY DEF Tree!GroupsAreTops
<1>1. group_root_id[c] \in stored /\ parent_company_id[group_root_id[c]] = NoParent
      /\ IsAbove(group_root_id[c], c)
  BY DEF GroupRootIsTopAncestor
<1>2. ASSUME NEW S \in SUBSET stored, c \in S,
             \A e \in S : [d \in stored |-> parent_company_id[d]][e] \in S \cup {NoParent}
      PROVE  group_root_id[c] \in S
  BY <1>1, <1>2 DEF IsAbove, ClosedUpward
<1> QED BY <1>1, <1>2 DEF Tree!IsAbove

\* A commit of a request that nothing has overtaken.
LEMMA QuietCommit ==
    ASSUME HierarchyInv, HierarchyInv', NEW r \in Requests, Commit(r), ~raced'
    PROVE  ReadsHold(req[r]) /\ Tree!GroupsAreTops'
<1>1. ReadsHold(req[r])
  BY DEF HierarchyInv, Commit
<1>2. TypeOK' /\ GroupRootIsTopAncestor'
  BY TreeGivesTop, PTL DEF HierarchyInv
<1> QED BY <1>1, <1>2, TopsAreTops, PTL
LEMMA ChangeIsNext ==
    ASSUME NEW c \in Ids, Tree!GroupsAreTops', raced' = FALSE,
           \/ \E p \in Ids \cup {NoParent} : Tree!Add(c, p) \/ Tree!Move(c, p)
           \/ Tree!Remove(c)
    PROVE  Tree!Next
<1>1. \E d \in Ids :
         \/ \E p \in Ids \cup {NoParent} : Tree!Add(d, p) \/ Tree!Move(d, p)
         \/ Tree!Remove(d)
  OBVIOUS
<1>2. Tree!Change
  BY <1>1 DEF Tree!Change
<1> QED BY <1>2 DEF Tree!Next

LEMMA CreateAdds ==
    ASSUME HierarchyInv, HierarchyInv', NEW r \in Requests, create_company(r), ~raced'
    PROVE  Tree!Next \/ UNCHANGED Tree!vars
<1> DEFINE q == req[r]
<1>1. nextId \in Ids \ stored
  BY BoundsAssumption DEF create_company, HierarchyInv, TypeOK, Ids
<1>2. CASE ~(q.to = NoParent \/ q.to \in stored)
  BY <1>2 DEF create_company, Tree!vars
<1>3. CASE q.to = NoParent \/ q.to \in stored
  <2>1. /\ stored' = stored \cup {nextId}
        /\ parent_company_id' = [parent_company_id EXCEPT ![nextId] = q.to]
        /\ Commit(r)
    BY <1>3 DEF create_company
  <2>2. Tree!GroupsAreTops' /\ raced' = FALSE
    BY <2>1, QuietCommit DEF HierarchyInv, TypeOK
  <2>3. [d \in stored |-> parent_company_id[d]]' =
            [d \in stored \cup {nextId} |->
                IF d = nextId THEN q.to ELSE [e \in stored |-> parent_company_id[e]][d]]
    BY <1>1, <2>1 DEF HierarchyInv, TypeOK
  <2>4. PICK n \in Ids, p \in Ids \cup {NoParent} : n = nextId /\ p = q.to
    BY <1>1, <1>3 DEF HierarchyInv, TypeOK
  <2>5. Tree!Add(n, p)
    BY <1>1, <1>3, <2>3, <2>4 DEF Tree!Add
  <2> QED BY <2>2, <2>4, <2>5, ChangeIsNext
<1> QED BY <1>2, <1>3

LEMMA UpdateMoves ==
    ASSUME HierarchyInv, HierarchyInv', NEW r \in Requests, update_company(r), ~raced'
    PROVE  Tree!Next \/ UNCHANGED Tree!vars
<1> DEFINE q == req[r]
           c == q.id
           new == Edited(q)
           writes == /\ Written(q) # {} /\ c \in stored
                     /\ "parent" \in Written(q) => new.parent \in stored \cup {NoParent}
<1>1. q \in Request /\ StepsMatch(q) /\ q.pc = "write"
  BY DEF HierarchyInv, TypeOK, update_company
<1>2. CASE ~writes
  BY <1>2 DEF update_company, Tree!vars
<1>3. CASE writes
  <2>1. /\ parent_company_id' = IF "parent" \in Written(q)
                                THEN [parent_company_id EXCEPT ![c] = new.parent]
                                ELSE parent_company_id
        /\ Commit(r)
        /\ stored' = stored
    BY <1>3 DEF update_company
  <2>2. ReadsHold(q) /\ Tree!GroupsAreTops' /\ raced' = FALSE
    BY <2>1, QuietCommit DEF HierarchyInv, TypeOK
  <2>3. q.op = "update" /\ q.to # Keep /\ q.to # c /\ q.to \in Ids \cup {NoParent}
    BY <1>1, <1>3, KeepWritesNothing DEF StepsMatch, Request, Idle
  <2>4. c \in stored /\ q.own = Loaded(c) /\ Subsidiaries(c) = {}
        /\ q.to \in stored \cup {NoParent}
    BY <1>1, <2>2, <2>3 DEF ReadsHold
  <2>5. new.parent = q.to
    BY <2>3 DEF Edited
  <2> HIDE DEF new
  <2>6. \A d \in stored : parent_company_id'[d] = IF d = c THEN q.to ELSE parent_company_id[d]
    BY <2>1, <2>4, <2>5 DEF Written, Loaded, HierarchyInv, TypeOK, new
  <2>7. [d \in stored |-> parent_company_id[d]]' =
            [[d \in stored |-> parent_company_id[d]] EXCEPT ![c] = q.to]
    BY <2>1, <2>4, <2>6
  <2>8. PICK n \in Ids, p \in Ids \cup {NoParent} : n = c /\ p = q.to
    BY <2>3, <2>4 DEF HierarchyInv, TypeOK
  <2>9. Tree!Move(n, p)
    BY <2>3, <2>4, <2>7, <2>8 DEF Tree!Move, Tree!IsLeaf, Subsidiaries
  <2> QED BY <2>2, <2>8, <2>9, ChangeIsNext
<1> QED BY <1>2, <1>3

LEMMA DeleteRemoves ==
    ASSUME HierarchyInv, HierarchyInv', NEW r \in Requests, delete_company(r), ~raced'
    PROVE  Tree!Next \/ UNCHANGED Tree!vars
<1> DEFINE q == req[r]
           c == q.id
           kids == q.below
           writes == kids \subseteq stored /\ (c \in stored \/ kids # {})
<1>1. q.pc = "delete"
  BY DEF delete_company
<1>2. CASE ~writes
  BY <1>2 DEF delete_company, Tree!vars
<1>3. CASE writes
  <2>1. /\ stored' = stored \ {c}
        /\ parent_company_id' = [d \in Ids |-> IF d \in kids \cup Subsidiaries(c)
                                               THEN NoParent ELSE parent_company_id[d]]
        /\ Commit(r)
    BY <1>3 DEF delete_company
  <2>2. Subsidiaries(c) = {} /\ kids = {} /\ Tree!GroupsAreTops' /\ raced' = FALSE
    BY <1>1, <2>1, QuietCommit DEF ReadsHold, HierarchyInv, TypeOK
  <2>3. [d \in stored |-> parent_company_id[d]]' =
            [d \in stored \ {c} |-> [e \in stored |-> parent_company_id[e]][d]]
    BY <2>1, <2>2 DEF HierarchyInv, TypeOK
  <2>4. PICK n \in Ids : n = c
    BY <1>3, <2>2 DEF HierarchyInv, TypeOK
  <2>5. Tree!Remove(n)
    BY <1>3, <2>2, <2>3, <2>4 DEF Tree!Remove, Tree!IsLeaf, Subsidiaries
  <2> QED BY <2>2, <2>4, <2>5, ChangeIsNext
<1> QED BY <1>2, <1>3

LEMMA StepImplements ==
    HierarchyInv /\ HierarchyInv' /\ [Next]_vars => [Tree!Next]_(Tree!vars)
<1> SUFFICES ASSUME HierarchyInv, HierarchyInv', [Next]_vars
             PROVE  Tree!Next \/ UNCHANGED Tree!vars
  OBVIOUS
<1>1. CASE raced'
  BY <1>1 DEF Tree!Next
<1>2. CASE ~raced'
  <2>1. CASE UNCHANGED <<columns, raced>>
    BY <2>1 DEF columns, Tree!vars
  <2>2. CASE UNCHANGED vars
    BY <2>1, <2>2 DEF vars
  <2> QED BY <1>2, <2>1, <2>2, CreateAdds, UpdateMoves, DeleteRemoves
          DEF Next, add_company, edit_company, remove_company, Begin, get_parent,
              count_subsidiaries, select_subsidiaries, Fail
<1> QED BY <1>1, <1>2

\* The handlers implement CompanyTree: statement by statement, their commits
\* are the additions, moves and removals of leaves of a forest whose groups
\* are its trees, until one request overtakes another.
THEOREM TreeIsImplemented == Spec => ImplementsTree
<1> QED BY TreeStarts, StepImplements, InvAlways, PTL DEF Spec, ImplementsTree, Tree!Spec
=============================================================================
