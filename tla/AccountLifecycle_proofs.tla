----------------------- MODULE AccountLifecycle_proofs -----------------------
(***************************************************************************)
(* Theorems about AccountLifecycle, for any number of requests.            *)
(***************************************************************************)
EXTENDS AccountLifecycle, TLAPS

-----------------------------------------------------------------------------
(* Type correctness.                                                       *)

\* The steps of each handler; only three of them hold a link.
Shape(q) ==
    \/ q.op = "signup"     /\ q.pc \in {"create", "assign", "send"} /\ q.link = NoLink
    \/ q.op = "resend"     /\ q.pc = "send" /\ q.link = NoLink
    \/ q.op = "forgot"     /\ q.pc = "send" /\ q.link = NoLink
    \/ q.op = "verify"     /\ q.pc \in {"load", "write"} /\ q.link # NoLink
    \/ q.op = "confirm"    /\ q.pc \in {"load", "write", "restore", "revoke"} /\ q.link # NoLink
    \/ q.op = "oauth"      /\ q.pc \in {"load", "create", "assign", "write", "mint"} /\ q.link # NoLink
    \/ q.op = "login"      /\ q.pc = "mint" /\ q.link = NoLink
    \/ q.op = "profile"    /\ q.pc \in {"write", "revoke", "mint"} /\ q.link = NoLink
    \/ q.op = "update"     /\ q.pc \in {"write", "revoke"} /\ q.link = NoLink
    \/ q.op = "delete"     /\ q.pc \in {"write", "revoke"} /\ q.link = NoLink
    \/ q.op = "purge"      /\ q.pc \in {"revoke", "remove"} /\ q.link = NoLink
    \/ q.op = "reactivate" /\ q.pc = "write" /\ q.link = NoLink

Shapes == \A r \in Requests : req[r] # Idle => Shape(req[r])

TypeInv == TypeOK /\ Shapes

LEMMA NumbersAreNaturals ==
    /\ Numbers \subseteq Nat
    /\ 1 \in Numbers
    /\ NoLink \notin Numbers /\ NoPassword \notin Numbers
    /\ \A i \in 0 .. MaxRequests : i < MaxRequests => i + 1 \in Numbers
  BY LifecycleAssumption DEF Numbers, NoLink, NoPassword

LEMMA Busy ==
    ASSUME TypeInv, NEW r \in Requests, req[r].pc # "idle"
    PROVE  req[r] \in Request /\ Shape(req[r]) /\ req[r] # Idle
  BY DEF TypeInv, TypeOK, Shapes, Idle

\* A request that starts or goes on.
LEMMA Moves ==
    ASSUME TypeInv, NEW r \in Requests, NEW q, q \in Request, Shape(q),
           req' = [req EXCEPT ![r] = q]
    PROVE  req' \in [Requests -> Request \cup {Idle}] /\ Shapes'
  BY DEF TypeInv, TypeOK, Shapes

LEMMA Ends ==
    ASSUME TypeInv, NEW r \in Requests, Finish(r)
    PROVE  req' \in [Requests -> Request \cup {Idle}] /\ Shapes'
  BY DEF TypeInv, TypeOK, Shapes, Finish

LEMMA Goes ==
    ASSUME TypeInv, NEW r \in Requests, req[r].pc # "idle", NEW pc \in Pcs, Goto(r, pc),
           Shape([req[r] EXCEPT !.pc = pc])
    PROVE  req' \in [Requests -> Request \cup {Idle}] /\ Shapes'
<1>1. req[r] \in Request
  BY Busy
<1>2. [req[r] EXCEPT !.pc = pc] \in Request
  BY <1>1 DEF Request
<1>3. req' = [req EXCEPT ![r] = [req[r] EXCEPT !.pc = pc]]
  BY DEF Goto
<1> QED
  BY <1>2, <1>3, Moves

LEMMA Begins ==
    ASSUME TypeInv, NEW r \in Requests, NEW op \in Ops, NEW pc \in Pcs,
           NEW link \in Numbers \cup {NoLink}, NEW e \in Nat, BeginWith(r, op, pc, link, e),
           \A n \in Numbers : \A u, x :
              Shape([op |-> op, pc |-> pc, n |-> n, link |-> link, loaded |-> u, epoch |-> x])
    PROVE  req' \in [Requests -> Request \cup {Idle}] /\ Shapes' /\ started' \in 0 .. MaxRequests
<1> DEFINE q == [op |-> op, pc |-> pc, n |-> started + 1, link |-> link,
                 loaded |-> user, epoch |-> e]
<1>1. started + 1 \in Numbers /\ started + 1 \in 0 .. MaxRequests
  BY LifecycleAssumption DEF TypeInv, TypeOK, BeginWith, Numbers
<1>2. q \in Request /\ Shape(q)
  BY <1>1 DEF Request, TypeInv, TypeOK
<1>3. req' = [req EXCEPT ![r] = q]
  BY DEF BeginWith
<1> QED
  BY <1>1, <1>2, <1>3, Moves DEF BeginWith

LEMMA LoadsTo ==
    ASSUME TypeInv, NEW r \in Requests, req[r].pc # "idle", NEW pc \in Pcs, LoadTo(r, pc),
           Shape([req[r] EXCEPT !.loaded = user, !.epoch = epoch, !.pc = pc])
    PROVE  TypeInv'
<1> DEFINE q == [req[r] EXCEPT !.loaded = user, !.epoch = epoch, !.pc = pc]
<1>1. req[r] \in Request
  BY Busy
<1>2. q \in Request
  BY <1>1 DEF Request, TypeInv, TypeOK
<1>3. req' = [req EXCEPT ![r] = q]
  BY DEF LoadTo
<1>4. req' \in [Requests -> Request \cup {Idle}] /\ Shapes'
  BY <1>2, <1>3, Moves
<1> QED
  BY <1>4 DEF LoadTo, TypeInv, TypeOK, stores, ghosts

LEMMA LoadsAndEnds ==
    ASSUME TypeInv, NEW r \in Requests, LoadAndFinish(r)
    PROVE  TypeInv'
  BY Ends DEF LoadAndFinish, TypeInv, TypeOK, stores, ghosts

LEMMA InitType == Init => TypeInv
<1> SUFFICES ASSUME Init PROVE TypeInv
  OBVIOUS
<1>1. user \in Row \cup {NoUser}
  <2>1. ASSUME NEW p \in {NoPassword, 1}, NEW v \in BOOLEAN
        PROVE  [id |-> 1, password |-> p, is_verified |-> v, is_active |-> TRUE,
                deleted |-> FALSE] \in Row
    BY NumbersAreNaturals DEF Row
  <2> QED
    BY <2>1 DEF Init
<1>2. /\ kind \in [Numbers -> {"none", "verify", "reset", "state"}]
      /\ keys \subseteq Numbers
      /\ effects \in [Numbers -> Nat]
  BY NumbersAreNaturals DEF Init
<1>3. started \in 0 .. MaxRequests
  BY LifecycleAssumption DEF Init
<1>4. req \in [Requests -> Request \cup {Idle}] /\ Shapes
  BY DEF Init, Shapes
<1>5. /\ nextId \in Nat \ {0} /\ version \in Nat /\ tokens \subseteq Token
      /\ expired \subseteq Numbers /\ epoch \in Nat /\ retired \subseteq Numbers
      /\ dropped \subseteq Numbers
  BY DEF Init
<1>6. lost \in BOOLEAN /\ overtaken \in BOOLEAN
  BY DEF Init
<1> QED
  BY <1>1, <1>2, <1>3, <1>4, <1>5, <1>6 DEF TypeInv, TypeOK

\* What a request does not touch when it starts or ends.
LEMMA StoresKept ==
    ASSUME TypeInv, UNCHANGED <<stores, ghosts>>, started' \in 0 .. MaxRequests,
           req' \in [Requests -> Request \cup {Idle}], Shapes'
    PROVE  TypeInv'
  BY DEF TypeInv, TypeOK, stores, ghosts

LEMMA RedeemType ==
    ASSUME TypeInv, NEW r \in Requests, NEW op \in {"verify", "confirm", "oauth"},
           NEW which, Redeem(r, op, which)
    PROVE  TypeInv'
<1>1. PICK l \in Numbers \ expired : getdel(l) /\ Begin(r, op, "load", l)
  BY DEF Redeem
<1>2. req' \in [Requests -> Request \cup {Idle}] /\ Shapes' /\ started' \in 0 .. MaxRequests
  BY <1>1, Begins, NumbersAreNaturals DEF Begin, Ops, Pcs, Shape, TypeInv, TypeOK
<1>3. keys' \subseteq Numbers
  BY <1>1 DEF getdel, TypeInv, TypeOK
<1> QED
  BY <1>2, <1>3 DEF Redeem, TypeInv, TypeOK, ghosts

LEMMA StartType == ASSUME TypeInv, NEW r \in Requests, Start(r) PROVE TypeInv'
<1>0. epoch \in Nat
  BY DEF TypeInv, TypeOK
<1>1. CASE signup(r)
  BY <1>0, <1>1, Begins, StoresKept DEF signup, Begin, Ops, Pcs, Shape
<1>2. CASE send_verification_email_if_needed(r)
  BY <1>0, <1>2, Begins, StoresKept DEF send_verification_email_if_needed, Begin, Ops, Pcs, Shape
<1>3. CASE send_reset_email(r)
  BY <1>0, <1>3, Begins, StoresKept DEF send_reset_email, Begin, Ops, Pcs, Shape
<1>4. CASE verify_token(r) \/ reset_password(r) \/ consume_state(r)
  BY <1>4, RedeemType DEF verify_token, reset_password, consume_state
<1>5. CASE login(r)
  BY <1>0, <1>5, Begins, StoresKept DEF login, Begin, Ops, Pcs, Shape
<1>6. CASE update_my_profile(r)
  <2>1. PICK t \in tokens : BeginWith(r, "profile", "write", NoLink, t.epoch)
    BY <1>6 DEF update_my_profile
  <2>2. t.epoch \in Nat
    BY DEF TypeInv, TypeOK, Token
  <2> QED
    BY <1>6, <2>1, <2>2, Begins, StoresKept DEF update_my_profile, Ops, Pcs, Shape
<1>7. CASE update_any_user(r) \/ delete_any_user(r) \/ purge_user(r) \/ reactivate_user(r)
  BY <1>0, <1>7, Begins, StoresKept DEF update_any_user, delete_any_user, purge_user,
     reactivate_user, LoadFor, Begin, Ops, Pcs, Shape
<1> QED
  BY <1>1, <1>2, <1>3, <1>4, <1>5, <1>6, <1>7 DEF Start

LEMMA StorePasswordType ==
    ASSUME TypeInv, NEW r \in Requests, StorePassword(r), user # NoUser,
           req[r].op \in {"confirm", "profile", "update"}, req[r].pc = "write"
    PROVE  /\ user' \in Row \cup {NoUser}
           /\ retired' \subseteq Numbers
           /\ epoch' \in Nat
           /\ req' \in [Requests -> Request \cup {Idle}] /\ Shapes'
<1> DEFINE q == [req[r] EXCEPT !.pc = "revoke", !.epoch = @ + 1]
<1>1. req[r] \in Request /\ Shape(req[r])
  BY Busy
<1>2. user \in Row
  BY DEF TypeInv, TypeOK
<1>3. user' \in Row /\ retired' \subseteq Numbers
  BY <1>1, <1>2, NumbersAreNaturals DEF StorePassword, Retire, TypeInv, TypeOK, Row, Request
<1>a. req[r].epoch + 1 \in Nat
  BY <1>1 DEF Request
<1>4. q \in Request /\ Shape(q)
  <2>1. q \in Request
    BY <1>1, <1>a DEF Request, Pcs
  <2>2. q.op = req[r].op /\ q.link = req[r].link /\ q.pc = "revoke"
    BY <1>1 DEF Request
  <2> QED
    BY <1>1, <2>1, <2>2 DEF Shape
<1>5. req' = [req EXCEPT ![r] = q]
  BY DEF StorePassword
<1>6. req' \in [Requests -> Request \cup {Idle}] /\ Shapes'
  BY <1>4, <1>5, Moves
<1> QED
  BY <1>3, <1>6 DEF StorePassword, TypeInv, TypeOK

LEMMA AfterRevokeType ==
    ASSUME TypeInv, NEW r \in Requests, req[r].pc = "revoke", AfterRevoke(r)
    PROVE  req' \in [Requests -> Request \cup {Idle}] /\ Shapes'
<1>1. req[r] \in Request /\ Shape(req[r])
  BY Busy
<1>2. CASE req[r].op = "purge"
  BY <1>1, <1>2, Goes DEF AfterRevoke, Request, Shape, Pcs
<1>3. CASE req[r].op = "profile"
  BY <1>1, <1>3, Goes DEF AfterRevoke, Request, Shape, Pcs
<1>4. CASE req[r].op \notin {"purge", "profile"}
  BY <1>4, Ends DEF AfterRevoke
<1> QED
  BY <1>2, <1>3, <1>4

LEMMA StepType == ASSUME TypeInv, NEW r \in Requests, Step(r) PROVE TypeInv'
<1>0. /\ user \in Row \cup {NoUser} /\ nextId \in Nat \ {0}
      /\ keys \subseteq Numbers /\ expired \subseteq Numbers
      /\ epoch \in Nat /\ version \in Nat /\ retired \subseteq Numbers
      /\ effects \in [Numbers -> Nat]
  BY DEF TypeInv, TypeOK
<1>a. ASSUME NEW l, TakesEffect(l) PROVE effects' \in [Numbers -> Nat]
  <2>1. CASE l \in Numbers
    BY <1>0, <1>a, <2>1 DEF TakesEffect
  <2>2. CASE l \notin Numbers
    BY <1>0, <1>a, <2>2 DEF TakesEffect
  <2> QED
    BY <2>1, <2>2
<1>b. req[r].pc # "idle" => req[r] \in Request /\ Shape(req[r])
  BY Busy
<1>1. CASE create(r)
  <2> DEFINE new == [id |-> nextId,
                     password |-> IF req[r].op = "signup" THEN req[r].n ELSE NoPassword,
                     is_verified |-> req[r].op = "oauth", is_active |-> TRUE, deleted |-> FALSE]
             q   == [req[r] EXCEPT !.loaded = new, !.epoch = epoch, !.pc = "assign"]
  <2>1. req[r] \in Request /\ Shape(req[r]) /\ req[r].pc = "create"
    BY <1>1, <1>b DEF create
  <2>2. new \in Row
    BY <1>0, <2>1 DEF Row, Request
  <2>3. q \in Request /\ Shape(q)
    BY <1>0, <2>1, <2>2 DEF Request, Shape, Pcs
  <2>4. CASE user = NoUser
    <3>1. user' = new /\ nextId' = nextId + 1 /\ req' = [req EXCEPT ![r] = q]
      BY <1>1, <2>4 DEF create
    <3>2. req' \in [Requests -> Request \cup {Idle}] /\ Shapes'
      BY <2>3, <3>1, Moves
    <3> QED
      BY <1>0, <1>1, <2>2, <3>1, <3>2 DEF create, TypeInv, TypeOK, ghosts
  <2>5. CASE user # NoUser
    BY <1>1, <2>5, Ends DEF create, TypeInv, TypeOK, ghosts
  <2> QED
    BY <2>4, <2>5
<1>2. CASE assign_policy_to_user(r)
  <2>1. req[r] \in Request /\ Shape(req[r]) /\ req[r].pc = "assign"
    BY <1>2, <1>b DEF assign_policy_to_user
  <2>2. CASE Present(r)
    <3>1. req' \in [Requests -> Request \cup {Idle}] /\ Shapes'
      BY <1>2, <2>1, <2>2, Goes DEF assign_policy_to_user, Shape, Request, Pcs
    <3> QED
      BY <1>2, <3>1, StoresKept DEF assign_policy_to_user, TypeInv, TypeOK
  <2>3. CASE ~Present(r)
    BY <1>2, <2>3, Ends, StoresKept DEF assign_policy_to_user, TypeInv, TypeOK
  <2> QED
    BY <2>2, <2>3
<1>3. CASE send(r)
  <2>1. req[r].n \in Numbers
    BY <1>3, <1>b DEF send, Request
  <2> QED
    BY <1>3, <2>1, Ends DEF send, TypeInv, TypeOK, ghosts
<1>4. CASE load_for_verification(r)
  <2>1. req[r] \in Request /\ Shape(req[r]) /\ req[r].pc = "load" /\ req[r].op = "verify"
    BY <1>4, <1>b DEF load_for_verification
  <2>2. Shape([req[r] EXCEPT !.loaded = user, !.epoch = epoch, !.pc = "write"])
    BY <2>1 DEF Shape, Request
  <2> QED
    BY <1>4, <2>1, <2>2, LoadsTo, LoadsAndEnds DEF load_for_verification, Pcs
<1>5. CASE mark_user_verified(r)
  <2>1. user # NoUser => [user EXCEPT !.is_verified = TRUE] \in Row
    BY <1>0 DEF Row
  <2>2. user' \in Row \cup {NoUser} /\ effects' \in [Numbers -> Nat]
    BY <1>0, <1>5, <1>a, <2>1 DEF mark_user_verified
  <2> QED
    BY <1>5, <2>2, Ends DEF mark_user_verified, TypeInv, TypeOK
<1>6. CASE load_for_reset(r)
  <2>1. req[r] \in Request /\ Shape(req[r]) /\ req[r].pc = "load" /\ req[r].op = "confirm"
    BY <1>6, <1>b DEF load_for_reset
  <2>2. ASSUME NEW pc \in {"restore", "write"}
        PROVE  Shape([req[r] EXCEPT !.loaded = user, !.epoch = epoch, !.pc = pc])
    BY <2>1 DEF Shape, Request
  <2> QED
    BY <1>6, <2>1, <2>2, LoadsTo DEF load_for_reset, Pcs
<1>7. CASE restore_token(r)
  <2>1. req[r].link \in Numbers
    BY <1>7, <1>b DEF restore_token, Request, Shape
  <2> QED
    BY <1>7, <2>1, Ends DEF restore_token, TypeInv, TypeOK, ghosts
<1>8. CASE update_password(r)
  <2>1. req[r] \in Request /\ Shape(req[r]) /\ req[r].pc = "write" /\ req[r].op = "confirm"
    BY <1>8, <1>b DEF update_password
  <2>2. CASE user # NoUser
    <3>1. StorePassword(r) /\ TakesEffect(req[r].link)
      BY <1>8, <2>2 DEF update_password
    <3>2. effects' \in [Numbers -> Nat]
      BY <1>a, <3>1
    <3> QED
      BY <1>8, <2>1, <2>2, <3>1, <3>2, StorePasswordType DEF update_password, TypeInv, TypeOK
  <2>3. CASE user = NoUser
    <3>1. req' \in [Requests -> Request \cup {Idle}] /\ Shapes'
      BY <1>8, <2>1, <2>3, Goes DEF update_password, Shape, Request, Pcs
    <3> QED
      BY <1>8, <2>3, <3>1 DEF update_password, TypeInv, TypeOK
  <2> QED
    BY <2>2, <2>3
<1>9. CASE login_or_create_user(r)
  <2>1. req[r] \in Request /\ Shape(req[r]) /\ req[r].pc = "load" /\ req[r].op = "oauth"
    BY <1>9, <1>b DEF login_or_create_user
  <2>2. ASSUME NEW pc \in {"create", "write", "mint"}
        PROVE  Shape([req[r] EXCEPT !.loaded = user, !.epoch = epoch, !.pc = pc])
    BY <2>1 DEF Shape, Request
  <2>3. \/ \E pc \in {"create", "write", "mint"} : LoadTo(r, pc)
        \/ LoadAndFinish(r)
    BY <1>9 DEF login_or_create_user
  <2> QED
    BY <2>1, <2>2, <2>3, LoadsTo, LoadsAndEnds DEF Pcs
<1>10. CASE verify_and_clear_password(r)
  <2>1. req[r] \in Request /\ Shape(req[r]) /\ req[r].pc = "write" /\ req[r].op = "oauth"
    BY <1>10, <1>b DEF verify_and_clear_password
  <2>2. CASE user # NoUser
    <3>1. user \in Row /\ [user EXCEPT !.is_verified = TRUE, !.password = NoPassword] \in Row
      BY <1>0, <2>2 DEF Row
    <3>2. retired \cup ({user.password} \ {NoPassword}) \subseteq Numbers
      BY <1>0, <3>1, NumbersAreNaturals DEF Row
    <3>a. epoch + 1 \in Nat
      BY <1>0
    <3>3. [req[r] EXCEPT !.pc = "mint", !.epoch = epoch + 1] \in Request
      BY <2>1, <3>a DEF Request, Pcs
    <3>4. Shape([req[r] EXCEPT !.pc = "mint", !.epoch = epoch + 1])
      BY <2>1 DEF Shape, Request
    <3>5. req' \in [Requests -> Request \cup {Idle}] /\ Shapes'
      <4>1. CASE user.is_active
        <5> DEFINE q == [req[r] EXCEPT !.pc = "mint", !.epoch = epoch + 1]
        <5>1. q \in Request /\ Shape(q)
          BY <3>3, <3>4
        <5>2. req' = [req EXCEPT ![r] = q]
          BY <1>10, <2>2, <4>1 DEF verify_and_clear_password
        <5> HIDE DEF q
        <5> QED
          BY <5>1, <5>2, Moves
      <4>2. CASE ~user.is_active
        BY <1>10, <2>2, <4>2, Ends DEF verify_and_clear_password
      <4> QED
        BY <4>1, <4>2
    <3>6. lost' \in BOOLEAN /\ epoch' \in Nat
      BY <1>0, <1>10, <2>2, <3>1 DEF verify_and_clear_password, TypeInv, TypeOK, Row
    <3> QED
      BY <1>10, <2>2, <3>1, <3>2, <3>5, <3>6 DEF verify_and_clear_password, Retire, TypeInv, TypeOK
  <2>3. CASE user = NoUser
    <3>1. req' \in [Requests -> Request \cup {Idle}] /\ Shapes'
      BY <1>10, <2>1, <2>3, Goes, Ends DEF verify_and_clear_password, Shape, Request, Pcs
    <3> QED
      BY <1>10, <2>3, <3>1 DEF verify_and_clear_password, TypeInv, TypeOK
  <2> QED
    BY <2>2, <2>3
<1>11. CASE mint(r)
  <2>1. req[r].epoch \in Nat
    BY <1>11, <1>b DEF mint, Request
  <2>2. [ver |-> version, epoch |-> req[r].epoch, late |-> req[r].epoch # epoch \/ Purging] \in Token
    BY <1>0, <2>1 DEF Token
  <2>3. effects' \in [Numbers -> Nat]
    BY <1>0, <1>11, <1>a DEF mint
  <2> QED
    BY <1>11, <2>2, <2>3, Ends DEF mint, TypeInv, TypeOK
<1>12. CASE set_password(r)
  <2>1. user \in Row \cup {NoUser} /\ req[r].op \in {"confirm", "profile", "update"} /\ req[r].pc = "write"
    BY <1>0, <1>12 DEF set_password
  <2>2. CASE StaleData(r)
    BY <1>12, <2>2, Ends DEF set_password, StaleData, TypeInv, TypeOK
  <2>3. CASE Present(r) /\ StorePassword(r) /\ UNCHANGED overtaken
    BY <1>12, <2>1, <2>3, StorePasswordType DEF set_password, Present, TypeInv, TypeOK
  <2> QED
    BY <1>12, <2>2, <2>3 DEF set_password
<1>13. CASE soft_delete(r)
  <2>1. req[r] \in Request /\ Shape(req[r]) /\ req[r].pc = "write" /\ req[r].op = "delete"
    BY <1>13, <1>b DEF soft_delete
  <2>2. CASE StaleData(r)
    BY <1>13, <2>2, Ends DEF soft_delete, StaleData, TypeInv, TypeOK
  <2>3. CASE ~StaleData(r)
    <3>1. user \in Row /\ req[r].loaded.is_active \in BOOLEAN
      BY <1>0, <1>13, <2>1, <2>3 DEF soft_delete, Present, Request, Row, NoUser
    <3>2. user' \in Row /\ overtaken' \in BOOLEAN
      BY <1>13, <2>3, <3>1 DEF soft_delete, Row, TypeInv, TypeOK
    <3>3. req' \in [Requests -> Request \cup {Idle}] /\ Shapes'
      BY <1>13, <2>1, <2>3, Goes DEF soft_delete, Shape, Request, Pcs
    <3> QED
      BY <1>0, <1>13, <2>3, <3>2, <3>3 DEF soft_delete, TypeInv, TypeOK
  <2> QED
    BY <2>2, <2>3
<1>14. CASE reactivate(r)
  <2>1. req[r] \in Request
    BY <1>14, <1>b DEF reactivate
  <2>2. user' \in Row \cup {NoUser}
    <3>1. req[r].loaded.is_active \in BOOLEAN
      <4>1. req[r].loaded \in Row \cup {NoUser}
        BY <2>1 DEF Request
      <4>2. NoUser.is_active \in BOOLEAN
        BY DEF NoUser
      <4>3. \A u \in Row : u.is_active \in BOOLEAN
        BY DEF Row
      <4> QED
        BY <4>1, <4>2, <4>3
    <3>2. CASE StaleData(r)
      BY <1>0, <3>2 DEF StaleData
    <3>3. CASE Present(r) /\ user' = [user EXCEPT !.is_active = @ \/ ~req[r].loaded.is_active, !.deleted = FALSE]
      <4>1. user \in Row
        BY <1>0, <3>3 DEF Present
      <4> QED
        BY <3>1, <3>3, <4>1 DEF Row
    <3> QED
      BY <1>14, <3>2, <3>3 DEF reactivate
  <2>3. Finish(r)
    BY <1>14 DEF reactivate, StaleData
  <2>4. req' \in [Requests -> Request \cup {Idle}] /\ Shapes'
    BY <2>3, Ends
  <2>5. epoch' = epoch /\ retired' = retired /\ overtaken' = overtaken
    BY <1>14 DEF reactivate, StaleData
  <2>6. UNCHANGED <<nextId, version, tokens, kind, keys, expired, started, lost, effects, dropped>>
    BY <1>14 DEF reactivate
  <2> QED
    BY <2>2, <2>4, <2>5, <2>6 DEF TypeInv, TypeOK
<1>15. CASE revoke_all_tokens_for_user(r)
  <2>0. version' = version + 1 /\ lost' = FALSE
    BY <1>15 DEF revoke_all_tokens_for_user
  <2>a. version' \in Nat
    BY <1>0, <2>0
  <2>b. lost' \in BOOLEAN
    BY <2>0, Zenon
  <2>1. version' \in Nat /\ lost' \in BOOLEAN
    BY <2>a, <2>b
  <2>2. req' \in [Requests -> Request \cup {Idle}] /\ Shapes'
    BY <1>15, AfterRevokeType DEF revoke_all_tokens_for_user
  <2> QED
    BY <1>15, <2>1, <2>2 DEF revoke_all_tokens_for_user, TypeInv, TypeOK
<1>16. CASE revoke_fails(r)
  BY <1>16, AfterRevokeType DEF revoke_fails, TypeInv, TypeOK, stores
<1>17. CASE remove(r)
  <2>1. user' \in Row \cup {NoUser} /\ epoch' \in Nat
    BY <1>0, <1>17 DEF remove
  <2>2. Present(r) => retired \cup ({user.password} \ {NoPassword}) \subseteq Numbers
    BY <1>0, NumbersAreNaturals DEF Present, Row
  <2>3. retired' \subseteq Numbers
    BY <1>0, <1>17, <2>2 DEF remove, Retire
  <2> QED
    BY <1>17, <2>1, <2>3, Ends DEF remove, TypeInv, TypeOK
<1> QED
  BY <1>1, <1>2, <1>3, <1>4, <1>5, <1>6, <1>7, <1>8, <1>9, <1>10, <1>11, <1>12, <1>13,
     <1>14, <1>15, <1>16, <1>17 DEF Step

LEMMA NextType == TypeInv /\ [Next]_vars => TypeInv'
<1> SUFFICES ASSUME TypeInv, [Next]_vars PROVE TypeInv'
  OBVIOUS
<1>1. ASSUME NEW r \in Requests, Fail(r) PROVE TypeInv'
  <2>1. dropped' \subseteq Numbers
    BY <1>1 DEF Fail, TypeInv, TypeOK, Shapes, Shape, Request
  <2>2. lost' \in BOOLEAN
    BY <1>1 DEF Fail, TypeInv, TypeOK
  <2> QED
    BY <1>1, <2>1, <2>2, Ends DEF Fail, TypeInv, TypeOK, stores
<1>2. ASSUME generate_and_store_state PROVE TypeInv'
  <2>1. started + 1 \in Numbers /\ started + 1 \in 0 .. MaxRequests
    BY <1>2, LifecycleAssumption DEF generate_and_store_state, TypeInv, TypeOK, Numbers
  <2> QED
    BY <1>2, <2>1 DEF generate_and_store_state, TypeInv, TypeOK, Shapes, ghosts
<1>3. ASSUME NEW l \in Numbers, Expire(l) PROVE TypeInv'
  BY <1>3 DEF Expire, TypeInv, TypeOK, Shapes, ghosts
<1>4. CASE UNCHANGED vars
  BY <1>4 DEF vars, stores, ghosts, TypeInv, TypeOK, Shapes
<1> QED
  BY <1>1, <1>2, <1>3, <1>4, StartType, StepType DEF Next

LEMMA AlwaysTypeInv == Spec => []TypeInv
  BY InitType, NextType, PTL DEF Spec

\* Every reachable state is well typed: in particular whoever puts a link back
\* holds one, and an account that is written is one that exists.
THEOREM TypeCorrect == Spec => []TypeOK
<1>1. TypeInv => TypeOK
  BY DEF TypeInv
<1> QED
  BY <1>1, AlwaysTypeInv, PTL

-----------------------------------------------------------------------------
(* What a step does to links and to requests.                              *)

\* r starts without a link.
Starts(r) ==
    \E op \in Ops \ {"verify", "confirm", "oauth"}, pc \in Pcs, e \in Nat :
        BeginWith(r, op, pc, NoLink, e)

\* r goes on to its next await, as the same request.
Keeps(r, q) ==
    /\ req[r].pc # "idle"
    /\ q \in Request /\ Shape(q)
    /\ req' = [req EXCEPT ![r] = q]
    /\ q.op = req[r].op /\ q.n = req[r].n /\ q.link = req[r].link
    /\ req[r].link # NoLink => req[r].pc # "revoke"

\* A reset ends when it has revoked, or drops its link.
Leaves(r) ==
    /\ Finish(r)
    /\ req[r].pc # "idle"
    /\ req[r].op = "confirm" => req[r].pc = "revoke" \/ req[r].link \in dropped'
    /\ dropped \subseteq dropped'

linkVars == <<kind, keys, expired, effects, started>>

QuietMove(r) ==
    /\ UNCHANGED linkVars
    /\ \/ Leaves(r)
       \/ /\ \E q : Keeps(r, q) /\ (q.op = "confirm" => q.pc # "revoke")
          /\ UNCHANGED dropped

Effect(r) ==
    /\ TakesEffect(req[r].link)
    /\ req[r].link \in Numbers /\ req[r].pc # "idle" /\ req[r].pc # "revoke"
    /\ UNCHANGED <<kind, keys, expired, started, dropped>>
    /\ \/ req[r].op # "confirm" /\ Finish(r)
       \/ req[r].op = "confirm" /\ \E q : Keeps(r, q) /\ q.pc = "revoke"

Redeems(r) ==
    \/ Redeem(r, "verify", "verify")
    \/ Redeem(r, "confirm", "reset")
    \/ Redeem(r, "oauth", "state")

LinkStep(r) ==
    \/ Starts(r) /\ UNCHANGED <<kind, keys, expired, effects, dropped>>
    \/ Redeems(r)
    \/ QuietMove(r)
    \/ Effect(r)
    \/ send(r)
    \/ restore_token(r)

LEMMA StartKinds ==
    ASSUME TypeInv, NEW r \in Requests, Start(r)
    PROVE  LinkStep(r)
<1>1. epoch \in Nat /\ \A t \in tokens : t.epoch \in Nat
  BY DEF TypeInv, TypeOK, Token
<1>2. CASE verify_token(r) \/ reset_password(r) \/ consume_state(r)
  BY <1>2 DEF verify_token, reset_password, consume_state, Redeems, LinkStep
<1>3. CASE update_my_profile(r)
  BY <1>1, <1>3 DEF update_my_profile, Starts, LinkStep, Ops, Pcs, stores, ghosts
<1>4. CASE signup(r) \/ send_verification_email_if_needed(r) \/ send_reset_email(r)
  BY <1>1, <1>4 DEF signup, send_verification_email_if_needed, send_reset_email, Begin,
     Starts, LinkStep, Ops, Pcs, stores, ghosts
<1>5. CASE login(r) \/ update_any_user(r) \/ delete_any_user(r) \/ purge_user(r) \/ reactivate_user(r)
  BY <1>1, <1>5 DEF login, update_any_user, delete_any_user, purge_user, reactivate_user,
     LoadFor, Begin, Starts, LinkStep, Ops, Pcs, stores, ghosts
<1> QED
  BY <1>2, <1>3, <1>4, <1>5 DEF Start

\* A request that goes on by Goto, and one that goes on with what it loaded.
LEMMA GoesOn ==
    ASSUME TypeInv, NEW r \in Requests, req[r].pc # "idle", NEW pc \in Pcs, Goto(r, pc),
           Shape([req[r] EXCEPT !.pc = pc]), req[r].link # NoLink => req[r].pc # "revoke"
    PROVE  \E q : Keeps(r, q) /\ q.pc = pc
<1> DEFINE q == [req[r] EXCEPT !.pc = pc]
<1>1. req[r] \in Request
  BY Busy
<1>2. q \in Request /\ q.op = req[r].op /\ q.n = req[r].n /\ q.link = req[r].link /\ q.pc = pc
  BY <1>1 DEF Request
<1> QED
  BY <1>2 DEF Goto, Keeps

LEMMA LoadsOn ==
    ASSUME TypeInv, NEW r \in Requests, req[r].pc # "idle", req[r].pc # "revoke",
           NEW u \in Row \cup {NoUser}, NEW e \in Nat, NEW pc \in Pcs,
           req' = [req EXCEPT ![r].loaded = u, ![r].epoch = e, ![r].pc = pc],
           Shape([req[r] EXCEPT !.loaded = u, !.epoch = e, !.pc = pc])
    PROVE  \E q : Keeps(r, q) /\ q.pc = pc
<1> DEFINE q == [req[r] EXCEPT !.loaded = u, !.epoch = e, !.pc = pc]
<1>1. req[r] \in Request
  BY Busy
<1>2. q \in Request /\ q.op = req[r].op /\ q.n = req[r].n /\ q.link = req[r].link /\ q.pc = pc
  BY <1>1 DEF Request
<1>3. req' = [req EXCEPT ![r] = q]
  OBVIOUS
<1> QED
  BY <1>2, <1>3 DEF Keeps

LEMMA StoresOn ==
    ASSUME TypeInv, NEW r \in Requests, req[r].pc = "write",
           req[r].op \in {"confirm", "profile", "update"}, StorePassword(r)
    PROVE  \E q : Keeps(r, q) /\ q.pc = "revoke"
<1> DEFINE q == [req[r] EXCEPT !.pc = "revoke", !.epoch = @ + 1]
<1>1. req[r] \in Request /\ Shape(req[r])
  BY Busy
<1>2. req[r].epoch + 1 \in Nat
  BY <1>1 DEF Request
<1>3. q \in Request /\ q.op = req[r].op /\ q.n = req[r].n /\ q.link = req[r].link /\ q.pc = "revoke"
  BY <1>1, <1>2 DEF Request, Pcs
<1>4. Shape(q)
  BY <1>1, <1>3 DEF Shape
<1> QED
  BY <1>3, <1>4 DEF StorePassword, Keeps

LEMMA RevokeKinds ==
    ASSUME TypeInv, NEW r \in Requests, req[r].pc = "revoke", AfterRevoke(r),
           UNCHANGED linkVars, UNCHANGED dropped
    PROVE  QuietMove(r)
<1>1. req[r] \in Request /\ Shape(req[r])
  BY Busy
<1>2. CASE req[r].op = "purge"
  <2>1. Shape([req[r] EXCEPT !.pc = "remove"]) /\ req[r].link = NoLink
    BY <1>1, <1>2 DEF Shape, Request
  <2>2. \E q : Keeps(r, q) /\ q.pc = "remove"
    BY <1>2, <2>1, GoesOn DEF AfterRevoke, Pcs
  <2> QED
    BY <2>2 DEF QuietMove
<1>3. CASE req[r].op = "profile"
  <2>1. Shape([req[r] EXCEPT !.pc = "mint"]) /\ req[r].link = NoLink
    BY <1>1, <1>3 DEF Shape, Request
  <2>2. \E q : Keeps(r, q) /\ q.pc = "mint"
    BY <1>3, <2>1, GoesOn DEF AfterRevoke, Pcs
  <2> QED
    BY <2>2 DEF QuietMove
<1>4. CASE req[r].op \notin {"purge", "profile"}
  BY <1>4 DEF AfterRevoke, QuietMove, Leaves
<1> QED
  BY <1>2, <1>3, <1>4

LEMMA StepKinds ==
    ASSUME TypeInv, NEW r \in Requests, Step(r)
    PROVE  LinkStep(r)
<1>0. /\ user \in Row \cup {NoUser} /\ epoch \in Nat
      /\ req[r].pc # "idle" => req[r] \in Request /\ Shape(req[r])
  BY Busy DEF TypeInv, TypeOK
<1>1. CASE create(r)
  <2> DEFINE new == [id |-> nextId,
                     password |-> IF req[r].op = "signup" THEN req[r].n ELSE NoPassword,
                     is_verified |-> req[r].op = "oauth", is_active |-> TRUE, deleted |-> FALSE]
  <2>1. req[r] \in Request /\ Shape(req[r]) /\ req[r].pc = "create"
    BY <1>0, <1>1 DEF create
  <2>2. CASE user = NoUser
    <3>1. new \in Row
      BY <2>1 DEF Row, Request, TypeInv, TypeOK
    <3>2. Shape([req[r] EXCEPT !.loaded = new, !.epoch = epoch, !.pc = "assign"])
      BY <2>1 DEF Shape, Request
    <3>3. req' = [req EXCEPT ![r].loaded = new, ![r].epoch = epoch, ![r].pc = "assign"]
      BY <1>1, <2>2 DEF create
    <3>4. \E q : Keeps(r, q) /\ q.pc = "assign"
      BY <1>0, <2>1, <3>1, <3>2, <3>3, LoadsOn DEF Pcs
    <3> QED
      BY <1>1, <3>4 DEF create, LinkStep, QuietMove, linkVars, ghosts
  <2>3. CASE user # NoUser
    BY <1>1, <2>1, <2>3 DEF create, Shape, LinkStep, QuietMove, Leaves, linkVars, ghosts
  <2> QED
    BY <2>2, <2>3
<1>2. CASE assign_policy_to_user(r)
  <2>1. req[r] \in Request /\ Shape(req[r]) /\ req[r].pc = "assign"
    BY <1>0, <1>2 DEF assign_policy_to_user
  <2>2. CASE Present(r)
    <3>1. \E q : Keeps(r, q) /\ q.pc # "revoke"
      BY <1>2, <2>1, <2>2, GoesOn DEF assign_policy_to_user, Shape, Request, Pcs
    <3> QED
      BY <1>2, <3>1 DEF assign_policy_to_user, LinkStep, QuietMove, linkVars, stores, ghosts
  <2>3. CASE ~Present(r)
    BY <1>2, <2>1, <2>3 DEF assign_policy_to_user, Shape, LinkStep, QuietMove, Leaves, linkVars, stores, ghosts
  <2> QED
    BY <2>2, <2>3
<1>3. CASE send(r) \/ restore_token(r)
  BY <1>3 DEF LinkStep
<1>4. ASSUME NEW pc \in Pcs \ {"revoke"}, req[r].pc = "load", LoadTo(r, pc),
             Shape([req[r] EXCEPT !.loaded = user, !.epoch = epoch, !.pc = pc])
      PROVE  LinkStep(r)
  <2> DEFINE q == [req[r] EXCEPT !.loaded = user, !.epoch = epoch, !.pc = pc]
  <2>1. req' = [req EXCEPT ![r] = q]
    BY <1>4 DEF LoadTo
  <2>2. req[r] \in Request /\ req[r].pc # "idle" /\ req[r].pc # "revoke" /\ pc \in Pcs
    BY <1>0, <1>4
  <2>3. q \in Request /\ q.op = req[r].op /\ q.n = req[r].n /\ q.link = req[r].link /\ q.pc = pc
    BY <1>0, <2>2 DEF Request
  <2>4. Shape(q)
    BY <1>4
  <2> HIDE DEF q
  <2>5. Keeps(r, q) /\ q.pc = pc
    BY <2>1, <2>2, <2>3, <2>4 DEF Keeps
  <2> QED
    BY <1>4, <2>5 DEF LoadTo, LinkStep, QuietMove, linkVars, stores, ghosts
<1>5. ASSUME req[r].pc = "load", req[r].op # "confirm", LoadAndFinish(r)
      PROVE  LinkStep(r)
  BY <1>5 DEF LoadAndFinish, LinkStep, QuietMove, Leaves, linkVars, stores, ghosts
<1>6. CASE load_for_verification(r)
  <2>1. req[r] \in Request /\ Shape(req[r]) /\ req[r].pc = "load" /\ req[r].op = "verify"
    BY <1>0, <1>6 DEF load_for_verification
  <2>2. Shape([req[r] EXCEPT !.loaded = user, !.epoch = epoch, !.pc = "write"])
    BY <2>1 DEF Shape, Request
  <2> QED
    BY <1>4, <1>5, <1>6, <2>1, <2>2 DEF load_for_verification, Pcs
<1>7. CASE load_for_reset(r)
  <2>1. req[r] \in Request /\ Shape(req[r]) /\ req[r].pc = "load" /\ req[r].op = "confirm"
    BY <1>0, <1>7 DEF load_for_reset
  <2>2. ASSUME NEW pc \in {"restore", "write"}
        PROVE  Shape([req[r] EXCEPT !.loaded = user, !.epoch = epoch, !.pc = pc])
    BY <2>1 DEF Shape, Request
  <2> QED
    BY <1>4, <1>7, <2>1, <2>2 DEF load_for_reset, Pcs
<1>8. CASE login_or_create_user(r)
  <2>1. req[r] \in Request /\ Shape(req[r]) /\ req[r].pc = "load" /\ req[r].op = "oauth"
    BY <1>0, <1>8 DEF login_or_create_user
  <2>2. ASSUME NEW pc \in {"create", "write", "mint"}
        PROVE  Shape([req[r] EXCEPT !.loaded = user, !.epoch = epoch, !.pc = pc])
    BY <2>1 DEF Shape, Request
  <2>3. \/ \E pc \in {"create", "write", "mint"} : LoadTo(r, pc)
        \/ LoadAndFinish(r)
    BY <1>8 DEF login_or_create_user
  <2> QED
    BY <1>4, <1>5, <2>1, <2>2, <2>3 DEF Pcs
<1>9. CASE mark_user_verified(r)
  <2>1. req[r] \in Request /\ Shape(req[r]) /\ req[r].pc = "write" /\ req[r].op = "verify"
    BY <1>0, <1>9 DEF mark_user_verified
  <2>2. req[r].link \in Numbers
    BY <2>1 DEF Shape, Request
  <2>3. CASE user # NoUser
    BY <1>9, <2>1, <2>2, <2>3 DEF mark_user_verified, LinkStep, Effect
  <2>4. CASE user = NoUser
    BY <1>9, <2>1, <2>4 DEF mark_user_verified, LinkStep, QuietMove, Leaves, linkVars
  <2> QED
    BY <2>3, <2>4
<1>10. CASE update_password(r)
  <2>1. req[r] \in Request /\ Shape(req[r]) /\ req[r].pc = "write" /\ req[r].op = "confirm"
    BY <1>0, <1>10 DEF update_password
  <2>2. req[r].link \in Numbers
    BY <2>1 DEF Shape, Request
  <2>3. CASE user # NoUser
    <3>1. \E q : Keeps(r, q) /\ q.pc = "revoke"
      BY <1>10, <2>1, <2>3, StoresOn DEF update_password
    <3> QED
      BY <1>10, <2>1, <2>2, <2>3, <3>1 DEF update_password, LinkStep, Effect
  <2>4. CASE user = NoUser
    <3>1. \E q : Keeps(r, q) /\ q.pc = "restore"
      BY <1>10, <2>1, <2>4, GoesOn DEF update_password, Shape, Request, Pcs
    <3> QED
      BY <1>10, <2>4, <3>1 DEF update_password, LinkStep, QuietMove, linkVars
  <2> QED
    BY <2>3, <2>4
<1>11. CASE verify_and_clear_password(r)
  <2>1. req[r] \in Request /\ Shape(req[r]) /\ req[r].pc = "write" /\ req[r].op = "oauth"
    BY <1>0, <1>11 DEF verify_and_clear_password
  <2>2. UNCHANGED <<kind, keys, expired, effects, started, dropped>>
    BY <1>11 DEF verify_and_clear_password
  <2>3. CASE Finish(r)
    BY <2>1, <2>2, <2>3 DEF LinkStep, QuietMove, Leaves, linkVars
  <2>4. CASE Goto(r, "mint")
    <3>1. \E q : Keeps(r, q) /\ q.pc = "mint"
      BY <2>1, <2>4, GoesOn DEF Shape, Request, Pcs
    <3> QED
      BY <2>2, <3>1 DEF LinkStep, QuietMove, linkVars
  <2>5. CASE req' = [req EXCEPT ![r].pc = "mint", ![r].epoch = epoch + 1]
    <3> DEFINE q == [req[r] EXCEPT !.pc = "mint", !.epoch = epoch + 1]
    <3>1. epoch + 1 \in Nat
      BY <1>0
    <3>2. q \in Request /\ q.op = req[r].op /\ q.n = req[r].n /\ q.link = req[r].link /\ q.pc = "mint"
      BY <2>1, <3>1 DEF Request, Pcs
    <3>3. Shape(q)
      BY <2>1, <3>2 DEF Shape
    <3>4. Keeps(r, q)
      BY <2>1, <2>5, <3>2, <3>3 DEF Keeps
    <3> QED
      BY <2>2, <3>2, <3>4 DEF LinkStep, QuietMove, linkVars
  <2> QED
    BY <1>11, <2>3, <2>4, <2>5 DEF verify_and_clear_password
<1>12. CASE mint(r)
  <2>1. req[r] \in Request /\ Shape(req[r]) /\ req[r].pc = "mint" /\ req[r].op # "confirm"
    BY <1>0, <1>12 DEF mint, Shape
  <2>2. CASE req[r].op = "oauth"
    <3>1. req[r].link \in Numbers
      BY <2>1, <2>2 DEF Shape, Request
    <3> QED
      BY <1>12, <2>1, <2>2, <3>1 DEF mint, LinkStep, Effect
  <2>3. CASE req[r].op # "oauth"
    BY <1>12, <2>1, <2>3 DEF mint, LinkStep, QuietMove, Leaves, linkVars
  <2> QED
    BY <2>2, <2>3
<1>13. CASE set_password(r)
  <2>1. req[r].op \in {"profile", "update"} /\ req[r].pc = "write"
    BY <1>13 DEF set_password
  <2>2. CASE StaleData(r)
    BY <1>13, <2>1, <2>2 DEF set_password, StaleData, LinkStep, QuietMove, Leaves, linkVars
  <2>3. CASE StorePassword(r)
    <3>1. \E q : Keeps(r, q) /\ q.op # "confirm"
      BY <2>1, <2>3, StoresOn DEF Keeps
    <3> QED
      BY <1>13, <3>1 DEF set_password, LinkStep, QuietMove, linkVars
  <2> QED
    BY <1>13, <2>2, <2>3 DEF set_password
<1>14. CASE soft_delete(r)
  <2>1. req[r] \in Request /\ Shape(req[r]) /\ req[r].pc = "write" /\ req[r].op = "delete"
    BY <1>0, <1>14 DEF soft_delete
  <2>2. CASE Finish(r)
    BY <1>14, <2>1, <2>2 DEF soft_delete, LinkStep, QuietMove, Leaves, linkVars
  <2>3. CASE Goto(r, "revoke")
    <3>1. \E q : Keeps(r, q) /\ q.op # "confirm"
      BY <2>1, <2>3, GoesOn DEF Shape, Request, Pcs, Keeps
    <3> QED
      BY <1>14, <3>1 DEF soft_delete, LinkStep, QuietMove, linkVars
  <2> QED
    BY <1>14, <2>2, <2>3 DEF soft_delete, StaleData
<1>15. CASE reactivate(r)
  BY <1>0, <1>15 DEF reactivate, StaleData, LinkStep, QuietMove, Leaves, linkVars
<1>16. CASE revoke_all_tokens_for_user(r)
  BY <1>16, RevokeKinds DEF revoke_all_tokens_for_user, LinkStep, linkVars
<1>17. CASE revoke_fails(r)
  BY <1>17, RevokeKinds DEF revoke_fails, LinkStep, linkVars, stores
<1>18. CASE remove(r)
  BY <1>0, <1>18 DEF remove, Shape, LinkStep, QuietMove, Leaves, linkVars
<1> QED
  BY <1>1, <1>2, <1>3, <1>6, <1>7, <1>8, <1>9, <1>10, <1>11, <1>12, <1>13,
     <1>14, <1>15, <1>16, <1>17, <1>18 DEF Step

\* Every step, as far as links and requests in flight are concerned.
LEMMA LinkSteps ==
    ASSUME TypeInv, [Next]_vars
    PROVE  \/ \E r \in Requests : LinkStep(r)
           \/ generate_and_store_state
           \/ \E l \in Numbers : Expire(l)
           \/ UNCHANGED <<linkVars, dropped, req>>
<1>1. ASSUME NEW r \in Requests, Fail(r) PROVE LinkStep(r)
  <2>1. req[r].pc # "idle"
    BY <1>1 DEF Fail, TypeInv, TypeOK, Request, Pcs
  <2> QED
    BY <1>1, <2>1 DEF Fail, LinkStep, QuietMove, Leaves, linkVars, stores
<1>2. CASE UNCHANGED vars
  BY <1>2 DEF vars, stores, ghosts, linkVars
<1> QED
  BY <1>1, <1>2, StartKinds, StepKinds DEF Next

-----------------------------------------------------------------------------
(* Requests in flight have numbers of their own, and a link that is yet to *)
(* be sent has none.                                                       *)

Mails(r) == req[r].op \in {"signup", "resend", "forgot"}

NumbersInv ==
    /\ \A r \in Requests : req[r] # Idle => req[r].n <= started
    /\ \A r, s \in Requests : req[r] # Idle /\ req[s] # Idle /\ req[r].n = req[s].n => r = s
    /\ \A l \in Numbers : l > started => kind[l] = "none"
    /\ \A r \in Requests : Mails(r) => kind[req[r].n] = "none"

LEMMA RequestNumbers ==
    ASSUME TypeInv, NEW r \in Requests, req[r] # Idle
    PROVE  req[r] \in Request /\ req[r].n \in Numbers /\ req[r].n \in Nat
  BY NumbersAreNaturals DEF TypeInv, TypeOK, Request

LEMMA NumbersEnd ==
    ASSUME TypeInv, NumbersInv, NEW r \in Requests, Finish(r), UNCHANGED <<kind, started>>
    PROVE  NumbersInv'
  BY DEF NumbersInv, Finish, TypeInv, TypeOK, Idle, Mails

LEMMA NumbersKept ==
    ASSUME TypeInv, NumbersInv, NEW r \in Requests, NEW q, Keeps(r, q), UNCHANGED <<kind, started>>
    PROVE  NumbersInv'
<1>1. req[r] # Idle /\ q # Idle
  BY DEF Keeps, Idle, Request, Ops
<1> QED
  BY <1>1 DEF NumbersInv, Keeps, TypeInv, TypeOK, Mails

LEMMA NumbersBegin ==
    ASSUME TypeInv, NumbersInv, NEW r \in Requests, NEW op, NEW pc, NEW link, NEW e,
           BeginWith(r, op, pc, link, e), UNCHANGED kind
    PROVE  NumbersInv'
<1>1. /\ started \in Nat /\ started' = started + 1 /\ started + 1 \in Numbers
      /\ kind[started + 1] = "none"
  BY LifecycleAssumption, NumbersAreNaturals DEF BeginWith, TypeInv, TypeOK, NumbersInv
<1>2. req'[r].n = started + 1 /\ \A s \in Requests \ {r} : req'[s] = req[s]
  BY DEF BeginWith, TypeInv, TypeOK
<1>3. \A s \in Requests : req[s] # Idle => req[s].n \in Nat /\ req[s].n <= started
  BY RequestNumbers DEF NumbersInv
<1>4. \A s \in Requests : req'[s] # Idle => req'[s].n <= started'
  BY <1>1, <1>2, <1>3
<1>5. \A s, u \in Requests : req'[s] # Idle /\ req'[u] # Idle /\ req'[s].n = req'[u].n => s = u
  BY <1>1, <1>2, <1>3 DEF NumbersInv
<1>6. ASSUME NEW l \in Numbers, l > started' PROVE kind'[l] = "none"
  <2>1. l > started
    BY <1>1, <1>6, NumbersAreNaturals
  <2> QED
    BY <2>1 DEF NumbersInv
<1>7. \A s \in Requests : Mails(s)' => kind'[req'[s].n] = "none"
  BY <1>1, <1>2 DEF NumbersInv, Mails
<1> QED
  BY <1>4, <1>5, <1>6, <1>7 DEF NumbersInv

LEMMA NumbersStep == TypeInv /\ NumbersInv /\ [Next]_vars => NumbersInv'
<1> SUFFICES ASSUME TypeInv, NumbersInv, [Next]_vars PROVE NumbersInv'
  OBVIOUS
<1>1. ASSUME NEW r \in Requests, Starts(r), UNCHANGED kind PROVE NumbersInv'
  BY <1>1, NumbersBegin DEF Starts
<1>2. ASSUME NEW r \in Requests, Redeems(r) PROVE NumbersInv'
  BY <1>2, NumbersBegin DEF Redeems, Redeem, Begin
<1>3. ASSUME NEW r \in Requests, QuietMove(r) PROVE NumbersInv'
  BY <1>3, NumbersEnd, NumbersKept DEF QuietMove, Leaves, linkVars
<1>4. ASSUME NEW r \in Requests, Effect(r) PROVE NumbersInv'
  BY <1>4, NumbersEnd, NumbersKept DEF Effect
<1>5. ASSUME NEW r \in Requests, restore_token(r) PROVE NumbersInv'
  BY <1>5, NumbersEnd DEF restore_token
<1>6. ASSUME NEW r \in Requests, send(r) PROVE NumbersInv'
  <2>1. req[r] # Idle /\ req[r].n \in Numbers /\ req[r].n <= started
    BY <1>6, RequestNumbers DEF send, Idle, NumbersInv
  <2>2. \A l \in Numbers : l # req[r].n => kind'[l] = kind[l]
    BY <1>6 DEF send, TypeInv, TypeOK
  <2>3. req' = [req EXCEPT ![r] = Idle] /\ started' = started
    BY <1>6 DEF send, Finish
  <2>4. \A s \in Requests : Mails(s)' => s # r /\ req'[s] = req[s] /\ req[s] # Idle
    BY <2>3 DEF Mails, Idle, TypeInv, TypeOK
  <2>5. \A s \in Requests : Mails(s)' => kind'[req'[s].n] = "none"
    BY <2>1, <2>2, <2>4, RequestNumbers DEF NumbersInv, Mails
  <2>6. \A l \in Numbers : l > started' => kind'[l] = "none"
    BY <2>1, <2>2, <2>3, NumbersAreNaturals DEF NumbersInv, TypeInv, TypeOK
  <2> QED
    BY <2>3, <2>5, <2>6 DEF NumbersInv, TypeInv, TypeOK
<1>7. ASSUME generate_and_store_state PROVE NumbersInv'
  <2>1. started \in Nat /\ started' = started + 1 /\ started + 1 \in Numbers /\ req' = req
    BY <1>7, LifecycleAssumption, NumbersAreNaturals DEF generate_and_store_state, TypeInv, TypeOK
  <2>2. \A l \in Numbers : l # started + 1 => kind'[l] = kind[l]
    BY <1>7 DEF generate_and_store_state, TypeInv, TypeOK
  <2>3. \A s \in Requests : req[s] # Idle => req[s].n \in Numbers /\ req[s].n \in Nat /\ req[s].n <= started
    BY RequestNumbers DEF NumbersInv
  <2>4. \A s \in Requests : req[s] # Idle => req[s].n # started + 1 /\ req[s].n <= started + 1
    BY <2>1, <2>3
  <2>5. \A s \in Requests : Mails(s) => req[s] # Idle
    BY DEF Mails, Idle
  <2>6. \A s \in Requests : Mails(s)' => kind'[req'[s].n] = "none"
    BY <2>1, <2>2, <2>3, <2>4, <2>5 DEF NumbersInv, Mails
  <2>7. \A l \in Numbers : l > started' => kind'[l] = "none"
    BY <2>1, <2>2, NumbersAreNaturals DEF NumbersInv
  <2> QED
    BY <2>1, <2>4, <2>6, <2>7 DEF NumbersInv
<1>8. ASSUME NEW l \in Numbers, Expire(l) PROVE NumbersInv'
  BY <1>8 DEF Expire, NumbersInv, Mails
<1>9. CASE UNCHANGED <<linkVars, dropped, req>>
  BY <1>9 DEF linkVars, NumbersInv, Mails
<1> QED
  BY <1>1, <1>2, <1>3, <1>4, <1>5, <1>6, <1>7, <1>8, <1>9, LinkSteps DEF LinkStep

LEMMA NumbersInit == Init => NumbersInv
<1> SUFFICES ASSUME Init PROVE NumbersInv
  OBVIOUS
<1>1. started = 1 /\ \A r \in Requests : req[r] = Idle
  BY DEF Init
<1>2. \A l \in Numbers : l > 1 => kind[l] = "none"
  BY NumbersAreNaturals DEF Init
<1> QED
  BY <1>1, <1>2 DEF NumbersInv, Mails, Idle

-----------------------------------------------------------------------------
(* Links: a key, a holder or an effect, and never two of them.             *)

\* r may still make l take effect.
Holds(r, l) == req[r].link = l /\ req[r].pc # "revoke"

LinkInv ==
    \A l \in Numbers :
        /\ l \in keys \/ effects[l] > 0 \/ Redeeming(l) => kind[l] # "none"
        /\ effects[l] <= 1
        /\ effects[l] > 0 => l \notin keys
        /\ \A r \in Requests : Holds(r, l) => l \notin keys /\ effects[l] = 0
        /\ \A r, s \in Requests : Holds(r, l) /\ Holds(s, l) => r = s

LEMMA LinksEnd ==
    ASSUME TypeInv, LinkInv, NEW r \in Requests, Finish(r), UNCHANGED <<kind, keys, effects>>
    PROVE  LinkInv'
  BY NumbersAreNaturals DEF LinkInv, Finish, TypeInv, TypeOK, Idle, Holds, Redeeming

LEMMA LinksKept ==
    ASSUME TypeInv, LinkInv, NEW r \in Requests, NEW q, Keeps(r, q), UNCHANGED <<kind, keys, effects>>
    PROVE  LinkInv'
<1>1. \A l \in Numbers : Holds(r, l)' => Holds(r, l)
  BY NumbersAreNaturals DEF Holds, Keeps, TypeInv, TypeOK
<1>2. \A l \in Numbers, s \in Requests \ {r} : Holds(s, l)' <=> Holds(s, l)
  BY DEF Holds, Keeps, TypeInv, TypeOK
<1>3. \A l \in Numbers : Redeeming(l)' <=> Redeeming(l)
  BY DEF Redeeming, Keeps, TypeInv, TypeOK
<1> QED
  BY <1>1, <1>2, <1>3 DEF LinkInv

\* A link takes effect: nobody holds it any more.
LEMMA LinksTakeEffect ==
    ASSUME TypeInv, LinkInv, NEW r \in Requests, Effect(r)
    PROVE  LinkInv'
<1> DEFINE k == req[r].link
<1>1. k \in Numbers /\ Holds(r, k) /\ UNCHANGED <<kind, keys>>
  BY DEF Effect, Holds
<1>2. effects[k] = 0 /\ k \notin keys /\ kind[k] # "none"
  BY <1>1 DEF LinkInv, Redeeming, Holds
<1>3. effects'[k] = 1 /\ \A l \in Numbers \ {k} : effects'[l] = effects[l]
  BY <1>1, <1>2 DEF Effect, TakesEffect, TypeInv, TypeOK
<1>4. /\ \A s \in Requests \ {r} : req'[s] = req[s]
      /\ \A l \in Numbers : ~ Holds(r, l)'
      /\ \A l \in Numbers : req'[r].link = l => l = k
  BY NumbersAreNaturals DEF Effect, Finish, Keeps, Holds, Idle, TypeInv, TypeOK
<1>5. \A l \in Numbers : Redeeming(l)' => Redeeming(l)
  BY <1>1, <1>4 DEF Redeeming
<1>6. \A l \in Numbers, s \in Requests : Holds(s, l)' => s # r /\ Holds(s, l)
  BY <1>4 DEF Holds
<1>7. ASSUME NEW l \in Numbers, l = k, NEW s \in Requests, Holds(s, l)' PROVE FALSE
  <2>1. s # r /\ Holds(s, l) /\ Holds(r, l)
    BY <1>1, <1>6, <1>7
  <2> QED
    BY <2>1 DEF LinkInv
<1> QED
  BY <1>1, <1>2, <1>3, <1>5, <1>6, <1>7 DEF LinkInv

\* A link is redeemed, and r is the only one to hold it.
LEMMA LinksAreRedeemed ==
    ASSUME TypeInv, LinkInv, NEW r \in Requests, NEW op, NEW which, which # "none", Redeem(r, op, which)
    PROVE  LinkInv'
<1>1. PICK k \in Numbers : kind[k] = which /\ k \in keys /\ keys' = keys \ {k} /\ Begin(r, op, "load", k)
  BY DEF Redeem, getdel
<1>2. /\ req'[r].link = k /\ \A s \in Requests \ {r} : req'[s] = req[s]
      /\ req[r] = Idle
  BY <1>1 DEF Begin, BeginWith, TypeInv, TypeOK
<1>3. effects[k] = 0
  BY <1>1 DEF LinkInv, TypeInv, TypeOK
<1>4. \A s \in Requests : ~ Holds(s, k)
  BY <1>1 DEF LinkInv
<1>5. UNCHANGED <<kind, effects>>
  BY DEF Redeem, ghosts
<1>6. \A l \in Numbers, s \in Requests : Holds(s, l)' => (s = r /\ l = k) \/ (s # r /\ l # k /\ Holds(s, l))
  BY <1>2, <1>4 DEF Holds
<1>7. \A l \in Numbers : Redeeming(l)' => Redeeming(l) \/ l = k
  BY <1>2 DEF Redeeming
<1> QED
  BY <1>1, <1>3, <1>5, <1>6, <1>7 DEF LinkInv

LEMMA LinkStepInv == TypeInv /\ NumbersInv /\ LinkInv /\ [Next]_vars => LinkInv'
<1> SUFFICES ASSUME TypeInv, NumbersInv, LinkInv, [Next]_vars PROVE LinkInv'
  OBVIOUS
<1>1. ASSUME NEW r \in Requests, Starts(r), UNCHANGED <<kind, keys, effects>> PROVE LinkInv'
  <2>1. req[r] = Idle /\ req'[r].link = NoLink /\ \A s \in Requests \ {r} : req'[s] = req[s]
    BY <1>1 DEF Starts, BeginWith, TypeInv, TypeOK
  <2>2. \A l \in Numbers, s \in Requests : Holds(s, l)' => Holds(s, l)
    BY <2>1, NumbersAreNaturals DEF Holds
  <2>3. \A l \in Numbers : Redeeming(l)' => Redeeming(l)
    BY <2>1, NumbersAreNaturals DEF Redeeming
  <2> QED
    BY <1>1, <2>2, <2>3 DEF LinkInv
<1>2. ASSUME NEW r \in Requests, Redeems(r) PROVE LinkInv'
  BY <1>2, LinksAreRedeemed DEF Redeems
<1>3. ASSUME NEW r \in Requests, QuietMove(r) PROVE LinkInv'
  BY <1>3, LinksEnd, LinksKept DEF QuietMove, Leaves, linkVars
<1>4. ASSUME NEW r \in Requests, Effect(r) PROVE LinkInv'
  BY <1>4, LinksTakeEffect
<1>5. ASSUME NEW r \in Requests, restore_token(r) PROVE LinkInv'
  <2>1. req[r] \in Request /\ Shape(req[r])
    BY <1>5, Busy DEF restore_token
  <2>2. req[r].link \in Numbers /\ Holds(r, req[r].link)
    BY <1>5, <2>1 DEF restore_token, Shape, Request, Holds
  <2>3. effects[req[r].link] = 0 /\ kind[req[r].link] # "none" /\ \A s \in Requests : Holds(s, req[r].link) => s = r
    BY <2>2 DEF LinkInv, Redeeming, Holds
  <2>4. \A l \in Numbers, s \in Requests : Holds(s, l)' => s # r /\ Holds(s, l)
    BY <1>5, NumbersAreNaturals DEF restore_token, Finish, Holds, Idle, TypeInv, TypeOK
  <2>5. \A l \in Numbers : Redeeming(l)' => Redeeming(l)
    BY <1>5, NumbersAreNaturals DEF restore_token, Finish, Redeeming, Idle, TypeInv, TypeOK
  <2>6. keys' \subseteq keys \cup {req[r].link} /\ UNCHANGED <<kind, effects>>
    BY <1>5 DEF restore_token, ghosts
  <2> QED
    BY <2>2, <2>3, <2>4, <2>5, <2>6 DEF LinkInv, TypeInv, TypeOK
<1>6. ASSUME NEW k \in Numbers, kind[k] = "none", NEW which \in {"verify", "reset", "state"},
             kind' = [kind EXCEPT ![k] = which], keys' = keys \cup {k}, UNCHANGED effects,
             \A l \in Numbers, s \in Requests : Holds(s, l)' => Holds(s, l),
             \A l \in Numbers : Redeeming(l)' => Redeeming(l)
      PROVE  LinkInv'
  <2>1. effects[k] = 0 /\ \A s \in Requests : ~ Holds(s, k)
    BY <1>6 DEF LinkInv, Redeeming, Holds, TypeInv, TypeOK
  <2>2. kind'[k] # "none" /\ \A l \in Numbers \ {k} : kind'[l] = kind[l]
    BY <1>6 DEF TypeInv, TypeOK
  <2> QED
    BY <1>6, <2>1, <2>2 DEF LinkInv
<1>7. ASSUME NEW r \in Requests, send(r) PROVE LinkInv'
  <2>1. req[r] \in Request /\ Shape(req[r]) /\ req[r].n \in Numbers
    BY <1>7, Busy DEF send, Request
  <2>2. kind[req[r].n] = "none"
    BY <1>7, <2>1 DEF send, Shape, Mails, NumbersInv
  <2>3. \A l \in Numbers, s \in Requests : Holds(s, l)' => Holds(s, l)
    BY <1>7, NumbersAreNaturals DEF send, Finish, Holds, Idle, TypeInv, TypeOK
  <2>4. \A l \in Numbers : Redeeming(l)' => Redeeming(l)
    BY <1>7, NumbersAreNaturals DEF send, Finish, Redeeming, Idle, TypeInv, TypeOK
  <2>5. CASE req[r].op = "forgot"
    BY <1>6, <1>7, <2>1, <2>2, <2>3, <2>4, <2>5 DEF send, ghosts
  <2>6. CASE req[r].op # "forgot"
    BY <1>6, <1>7, <2>1, <2>2, <2>3, <2>4, <2>6 DEF send, ghosts
  <2> QED
    BY <2>5, <2>6
<1>8. ASSUME generate_and_store_state PROVE LinkInv'
  <2>1. started + 1 \in Numbers /\ kind[started + 1] = "none"
    BY <1>8, LifecycleAssumption, NumbersAreNaturals DEF generate_and_store_state, NumbersInv, TypeInv, TypeOK
  <2> QED
    BY <1>6, <1>8, <2>1 DEF generate_and_store_state, Holds, Redeeming, ghosts
<1>9. ASSUME NEW l \in Numbers, Expire(l) PROVE LinkInv'
  BY <1>9 DEF Expire, LinkInv, Holds, Redeeming, ghosts
<1>10. CASE UNCHANGED <<linkVars, dropped, req>>
  BY <1>10 DEF linkVars, LinkInv, Holds, Redeeming
<1> QED
  BY <1>1, <1>2, <1>3, <1>4, <1>5, <1>7, <1>8, <1>9, <1>10, LinkSteps DEF LinkStep

LEMMA LinkInit == Init => LinkInv
<1> SUFFICES ASSUME Init PROVE LinkInv
  OBVIOUS
<1>1. \A r \in Requests, l \in Numbers : req[r].link # l
  BY NumbersAreNaturals DEF Init, Idle
<1> QED
  BY <1>1, NumbersAreNaturals DEF Init, LinkInv, Holds, Redeeming

\* A link verifies an account, sets a password or logs in at most once, for any
\* number of requests that redeem it, put it back, fail, or die: whoever may
\* make it take effect is alone, and the key is gone while he is there.
THEOREM LinksTakeEffectOnce == Spec => []LinkTakesEffectOnce
<1>1. LinkInv => LinkTakesEffectOnce
  BY DEF LinkInv, LinkTakesEffectOnce
<1> QED
  BY <1>1, InitType, NextType, NumbersInit, NumbersStep, LinkInit, LinkStepInv, PTL DEF Spec


-----------------------------------------------------------------------------
(* A reset link is lost only with the request that had claimed it.         *)

ResetInv ==
    /\ \A r \in Requests, l \in Numbers :
          req[r].link = l /\ kind[l] = "reset" => req[r].op = "confirm"
    /\ \A r \in Requests, l \in Numbers :
          req[r].link = l /\ req[r].op = "confirm" /\ req[r].pc = "revoke" => effects[l] > 0
    /\ ResetLinkLostOnlyToFailure

EffectsGrow ==
    \A l \in Numbers : (effects[l] > 0 => effects'[l] > 0) /\ (effects'[l] = 0 => effects[l] = 0)

\* r ends: what it claimed took effect, was put back, or is dropped.
LEMMA ResetEnds ==
    ASSUME TypeInv, ResetInv, NEW r \in Requests, Finish(r),
           UNCHANGED <<kind, expired>>, keys \subseteq keys', dropped \subseteq dropped',
           EffectsGrow,
           \A l \in Numbers : req[r].link = l /\ kind[l] = "reset" =>
               effects'[l] > 0 \/ l \in keys' \cup expired \cup dropped'
    PROVE  ResetInv'
<1>1. \A s \in Requests, l \in Numbers : req'[s].link = l => s # r /\ req'[s] = req[s]
  BY NumbersAreNaturals DEF Finish, Idle, TypeInv, TypeOK
<1>3. \A l \in Numbers : effects'[l] = 0 => effects[l] = 0 /\ (Redeeming(l) => Redeeming(l)' \/ req[r].link = l)
  <2>1. ASSUME NEW l \in Numbers, Redeeming(l) PROVE Redeeming(l)' \/ req[r].link = l
    BY <2>1 DEF Redeeming, Finish, TypeInv, TypeOK
  <2> QED
    BY <2>1 DEF EffectsGrow
<1>4. \A t \in Requests, l \in Numbers :
          req'[t].link = l /\ req'[t].op = "confirm" /\ req'[t].pc = "revoke" => effects'[l] > 0
  <2> SUFFICES ASSUME NEW t \in Requests, NEW l \in Numbers,
                      req'[t].link = l, req'[t].op = "confirm", req'[t].pc = "revoke"
               PROVE  effects'[l] > 0
    OBVIOUS
  <2>1. effects[l] > 0
    BY <1>1 DEF ResetInv
  <2> QED
    BY <2>1 DEF EffectsGrow
<1>5. ResetLinkLostOnlyToFailure'
  <2> SUFFICES ASSUME NEW l \in Numbers, kind[l] = "reset", l \notin keys' \cup expired,
                      effects'[l] = 0, ~Redeeming(l)'
               PROVE  l \in dropped'
    BY DEF ResetLinkLostOnlyToFailure
  <2>1. CASE req[r].link = l
    BY <2>1
  <2>2. CASE req[r].link # l
    <3>1. effects[l] = 0 /\ ~Redeeming(l) /\ l \notin keys \cup expired
      BY <1>3, <2>2
    <3> QED
      BY <3>1 DEF ResetInv, ResetLinkLostOnlyToFailure
  <2> QED
    BY <2>1, <2>2
<1> QED
  BY <1>1, <1>4, <1>5 DEF ResetInv

\* r goes on with its link, which may take effect at this step.
LEMMA ResetKept ==
    ASSUME TypeInv, ResetInv, NEW r \in Requests, NEW q, Keeps(r, q),
           UNCHANGED <<kind, keys, expired, dropped>>,
           EffectsGrow,
           q.op = "confirm" /\ q.pc = "revoke" => \A l \in Numbers : q.link = l => effects'[l] > 0
    PROVE  ResetInv'
<1>1. /\ \A s \in Requests \ {r} : req'[s] = req[s]
      /\ req'[r] = q /\ q.op = req[r].op /\ q.link = req[r].link
  BY DEF Keeps, TypeInv, TypeOK
<1>3. \A l \in Numbers : Redeeming(l)' <=> Redeeming(l)
  BY <1>1 DEF Redeeming
<1>4. \A t \in Requests, l \in Numbers :
          req'[t].link = l /\ req'[t].op = "confirm" /\ req'[t].pc = "revoke" => effects'[l] > 0
  <2> SUFFICES ASSUME NEW t \in Requests, NEW l \in Numbers,
                      req'[t].link = l, req'[t].op = "confirm", req'[t].pc = "revoke"
               PROVE  effects'[l] > 0
    OBVIOUS
  <2>1. CASE t = r
    BY <1>1, <2>1
  <2>2. CASE t # r
    <3>1. effects[l] > 0
      BY <1>1, <2>2 DEF ResetInv
    <3> QED
      BY <3>1 DEF EffectsGrow
  <2> QED
    BY <2>1, <2>2
<1>5. \A t \in Requests, l \in Numbers :
          req'[t].link = l /\ kind'[l] = "reset" => req'[t].op = "confirm"
  BY <1>1 DEF ResetInv
<1>6. ResetLinkLostOnlyToFailure'
  <2> SUFFICES ASSUME NEW l \in Numbers, kind[l] = "reset", l \notin keys \cup expired,
                      effects'[l] = 0, ~Redeeming(l)'
               PROVE  l \in dropped
    BY DEF ResetLinkLostOnlyToFailure
  <2>1. effects[l] = 0
    BY DEF EffectsGrow
  <2> QED
    BY <1>3, <2>1 DEF ResetInv, ResetLinkLostOnlyToFailure
<1> QED
  BY <1>4, <1>5, <1>6 DEF ResetInv

LEMMA ResetStep == TypeInv /\ NumbersInv /\ LinkInv /\ ResetInv /\ [Next]_vars => ResetInv'
<1> SUFFICES ASSUME TypeInv, NumbersInv, LinkInv, ResetInv, [Next]_vars PROVE ResetInv'
  OBVIOUS
<1>0. \A l \in Numbers : effects[l] \in Nat
  BY DEF TypeInv, TypeOK
<1>1. ASSUME NEW r \in Requests, Starts(r), UNCHANGED <<kind, keys, expired, effects, dropped>>
      PROVE  ResetInv'
  <2>1. req[r] = Idle /\ req'[r].link = NoLink /\ \A s \in Requests \ {r} : req'[s] = req[s]
    BY <1>1 DEF Starts, BeginWith, TypeInv, TypeOK
  <2>2. \A l \in Numbers, s \in Requests : req'[s].link = l => s # r /\ req'[s] = req[s]
    BY <2>1, NumbersAreNaturals
  <2>3. \A l \in Numbers : Redeeming(l) => Redeeming(l)'
    BY <2>1, NumbersAreNaturals DEF Redeeming, Idle
  <2> QED
    BY <1>1, <2>2, <2>3 DEF ResetInv, ResetLinkLostOnlyToFailure
<1>2. ASSUME NEW r \in Requests, NEW op, NEW which, op = "confirm" <=> which = "reset",
             Redeem(r, op, which)
      PROVE  ResetInv'
  <2>1. PICK k \in Numbers : kind[k] = which /\ keys' = keys \ {k} /\ Begin(r, op, "load", k)
    BY <1>2 DEF Redeem, getdel
  <2>2. /\ req'[r].link = k /\ req'[r].op = op /\ req'[r].pc = "load"
        /\ \A s \in Requests \ {r} : req'[s] = req[s]
        /\ req[r] = Idle
    BY <2>1 DEF Begin, BeginWith, TypeInv, TypeOK
  <2>3. \A l \in Numbers : (Redeeming(l) => Redeeming(l)') /\ Redeeming(k)'
    BY <2>2, NumbersAreNaturals DEF Redeeming, Idle
  <2>4. UNCHANGED <<kind, expired, effects, dropped>>
    BY <1>2 DEF Redeem, ghosts
  <2>5. /\ \A s \in Requests, l \in Numbers :
             req'[s].link = l /\ kind'[l] = "reset" => req'[s].op = "confirm"
        /\ \A s \in Requests, l \in Numbers :
             req'[s].link = l /\ req'[s].op = "confirm" /\ req'[s].pc = "revoke" => effects'[l] > 0
    BY <1>2, <2>1, <2>2, <2>4 DEF ResetInv
  <2> QED
    BY <2>1, <2>3, <2>4, <2>5 DEF ResetInv, ResetLinkLostOnlyToFailure
<1>3. ASSUME NEW r \in Requests, QuietMove(r) PROVE ResetInv'
  <2>1. EffectsGrow /\ UNCHANGED <<kind, keys, expired>>
    BY <1>3 DEF QuietMove, linkVars, EffectsGrow
  <2>2. CASE Leaves(r)
    <3>1. \A l \in Numbers : req[r].link = l /\ kind[l] = "reset" =>
              effects'[l] > 0 \/ l \in keys' \cup expired \cup dropped'
      BY <2>1, <2>2 DEF Leaves, ResetInv, EffectsGrow
    <3> QED
      BY <2>1, <2>2, <3>1, ResetEnds DEF Leaves
  <2>3. CASE (\E q : Keeps(r, q) /\ (q.op = "confirm" => q.pc # "revoke")) /\ UNCHANGED dropped
    BY <2>1, <2>3, ResetKept
  <2> QED
    BY <1>3, <2>2, <2>3 DEF QuietMove
<1>4. ASSUME NEW r \in Requests, Effect(r) PROVE ResetInv'
  <2>1. /\ \A l \in Numbers \ {req[r].link} : effects'[l] = effects[l]
        /\ effects'[req[r].link] = effects[req[r].link] + 1 /\ req[r].link \in Numbers
    BY <1>4 DEF Effect, TakesEffect, TypeInv, TypeOK
  <2>2. EffectsGrow /\ \A l \in Numbers : req[r].link = l => effects'[l] > 0
    BY <1>0, <2>1 DEF EffectsGrow
  <2>3. UNCHANGED <<kind, keys, expired, dropped>>
    BY <1>4 DEF Effect
  <2>4. CASE Finish(r)
    BY <2>2, <2>3, <2>4, ResetEnds
  <2>5. ASSUME NEW q, Keeps(r, q) PROVE ResetInv'
    <3>1. \A l \in Numbers : q.link = l => effects'[l] > 0
      BY <2>2, <2>5 DEF Keeps
    <3> QED
      BY <2>2, <2>3, <2>5, <3>1, ResetKept
  <2> QED
    BY <1>4, <2>4, <2>5 DEF Effect
<1>5. ASSUME NEW r \in Requests, restore_token(r) PROVE ResetInv'
  <2>1. EffectsGrow /\ UNCHANGED <<kind, expired, dropped>> /\ Finish(r)
    BY <1>5 DEF restore_token, EffectsGrow, ghosts
  <2>2. keys' = keys \cup ({req[r].link} \ expired)
    BY <1>5 DEF restore_token
  <2> QED
    BY <2>1, <2>2, ResetEnds
<1>6. ASSUME NEW k \in Numbers, kind[k] = "none", NEW which \in {"verify", "reset", "state"},
             kind' = [kind EXCEPT ![k] = which], keys' = keys \cup {k},
             UNCHANGED <<expired, effects, dropped>>,
             \A s \in Requests, l \in Numbers : req'[s].link = l => req'[s] = req[s],
             \A l \in Numbers : Redeeming(l) => Redeeming(l)'
      PROVE  ResetInv'
  <2>1. \A s \in Requests : req[s].link # k
    BY <1>6 DEF LinkInv, Redeeming
  <2>2. \A l \in Numbers \ {k} : kind'[l] = kind[l]
    BY <1>6 DEF TypeInv, TypeOK
  <2>3. /\ \A s \in Requests, l \in Numbers :
             req'[s].link = l /\ kind'[l] = "reset" => req'[s].op = "confirm"
        /\ \A s \in Requests, l \in Numbers :
             req'[s].link = l /\ req'[s].op = "confirm" /\ req'[s].pc = "revoke" => effects'[l] > 0
    BY <1>6, <2>1, <2>2 DEF ResetInv
  <2> QED
    BY <1>6, <2>2, <2>3 DEF ResetInv, ResetLinkLostOnlyToFailure
<1>7. ASSUME NEW r \in Requests, send(r) PROVE ResetInv'
  <2>1. req[r] \in Request /\ Shape(req[r]) /\ req[r].n \in Numbers
    BY <1>7, Busy DEF send, Request
  <2>2. kind[req[r].n] = "none" /\ req[r].link = NoLink
    BY <1>7, <2>1 DEF send, Shape, Mails, NumbersInv
  <2>3. \A s \in Requests, l \in Numbers : req'[s].link = l => req'[s] = req[s]
    BY <1>7, NumbersAreNaturals DEF send, Finish, Idle, TypeInv, TypeOK
  <2>4. \A l \in Numbers : Redeeming(l) => Redeeming(l)'
    BY <1>7, <2>2, NumbersAreNaturals DEF send, Finish, Redeeming, TypeInv, TypeOK
  <2>5. CASE req[r].op = "forgot"
    BY <1>6, <1>7, <2>1, <2>2, <2>3, <2>4, <2>5 DEF send, ghosts
  <2>6. CASE req[r].op # "forgot"
    BY <1>6, <1>7, <2>1, <2>2, <2>3, <2>4, <2>6 DEF send, ghosts
  <2> QED
    BY <2>5, <2>6
<1>8. ASSUME generate_and_store_state PROVE ResetInv'
  <2>1. started + 1 \in Numbers /\ kind[started + 1] = "none"
    BY <1>8, LifecycleAssumption, NumbersAreNaturals DEF generate_and_store_state, NumbersInv, TypeInv, TypeOK
  <2> QED
    BY <1>6, <1>8, <2>1 DEF generate_and_store_state, Redeeming, ghosts
<1>9. ASSUME NEW l \in Numbers, Expire(l) PROVE ResetInv'
  BY <1>9 DEF Expire, ResetInv, ResetLinkLostOnlyToFailure, Redeeming, ghosts
<1>10. CASE UNCHANGED <<linkVars, dropped, req>>
  BY <1>10 DEF linkVars, ResetInv, ResetLinkLostOnlyToFailure, Redeeming
<1> QED
  BY <1>1, <1>2, <1>3, <1>4, <1>5, <1>7, <1>8, <1>9, <1>10, LinkSteps DEF LinkStep, Redeems

LEMMA ResetInit == Init => ResetInv
<1> SUFFICES ASSUME Init PROVE ResetInv
  OBVIOUS
<1>1. \A r \in Requests, l \in Numbers : req[r].link # l
  BY NumbersAreNaturals DEF Init, Idle
<1>2. \A l \in Numbers : kind[l] # "reset"
  BY DEF Init
<1> QED
  BY <1>1, <1>2 DEF ResetInv, ResetLinkLostOnlyToFailure

\* A reset link that is gone, not expired, and set no password was dropped by
\* a request that raised or died: every way a reset is refused puts it back,
\* for any number of resets of the same link and mails sent meanwhile.
THEOREM ResetLinksAreNotLost == Spec => []ResetLinkLostOnlyToFailure
<1>1. ResetInv => ResetLinkLostOnlyToFailure
  BY DEF ResetInv
<1> QED
  BY <1>1, InitType, NextType, NumbersInit, NumbersStep, LinkInit, LinkStepInv,
     ResetInit, ResetStep, PTL DEF Spec


-----------------------------------------------------------------------------
(* A deleted account is inactive.                                          *)

\* A step that does not disturb what deletion promises.
DeletionKept ==
    \/ UNCHANGED overtaken /\ (user'.deleted /\ user'.is_active => user.deleted /\ user.is_active)
    \/ user'.deleted /\ user'.is_active => overtaken'

LEMMA StartDeletes == ASSUME NEW r \in Requests, Start(r) PROVE UNCHANGED <<user, overtaken>>
  BY DEF Start, signup, send_verification_email_if_needed, send_reset_email, verify_token,
     reset_password, consume_state, Redeem, login, update_my_profile, update_any_user,
     delete_any_user, purge_user, reactivate_user, LoadFor, stores, ghosts

LEMMA StepDeletes == ASSUME TypeInv, NEW r \in Requests, Step(r) PROVE DeletionKept
<1>0. user # NoUser => user \in Row
  BY DEF TypeInv, TypeOK
<1>1. CASE assign_policy_to_user(r) \/ send(r) \/ load_for_verification(r) \/ load_for_reset(r)
           \/ restore_token(r) \/ login_or_create_user(r) \/ mint(r)
           \/ revoke_all_tokens_for_user(r) \/ revoke_fails(r)
  BY <1>1 DEF DeletionKept, assign_policy_to_user, send, load_for_verification, load_for_reset,
     restore_token, login_or_create_user, mint, revoke_all_tokens_for_user, revoke_fails,
     LoadTo, LoadAndFinish, stores, ghosts
<1>2. CASE create(r)
  BY <1>2 DEF create, DeletionKept, ghosts
<1>3. CASE mark_user_verified(r)
  BY <1>0, <1>3 DEF mark_user_verified, DeletionKept, Row
<1>4. CASE update_password(r)
  BY <1>0, <1>4 DEF update_password, StorePassword, DeletionKept, Row
<1>5. CASE verify_and_clear_password(r)
  BY <1>0, <1>5 DEF verify_and_clear_password, DeletionKept, Row
<1>6. CASE set_password(r)
  BY <1>0, <1>6 DEF set_password, StaleData, Present, StorePassword, DeletionKept, Row
<1>7. CASE soft_delete(r)
  <2>1. CASE StaleData(r)
    BY <2>1 DEF StaleData, DeletionKept
  <2>2. CASE ~StaleData(r)
    <3>1. /\ user'.is_active = (user.is_active /\ ~req[r].loaded.is_active)
          /\ overtaken' = (overtaken \/ (user.is_active /\ ~req[r].loaded.is_active))
      BY <1>0, <1>7, <2>2 DEF soft_delete, Present, Row
    <3> QED
      BY <3>1 DEF DeletionKept
  <2> QED
    BY <2>1, <2>2
<1>8. CASE reactivate(r)
  BY <1>0, <1>8 DEF reactivate, StaleData, Present, DeletionKept, Row
<1>9. CASE remove(r)
  BY <1>9 DEF remove, DeletionKept, NoUser
<1> QED
  BY <1>1, <1>2, <1>3, <1>4, <1>5, <1>6, <1>7, <1>8, <1>9 DEF Step

\* An account marked deleted is inactive, whatever loads and writes are
\* interleaved, unless a soft delete wrote over a row that was reactivated
\* after it had been loaded inactive: the only way the two columns part.
THEOREM DeletedIsInactive == Spec => []DeletedIsInactiveUnlessOvertaken
<1>1. Init => DeletedIsInactiveUnlessOvertaken
  BY DEF Init, DeletedIsInactiveUnlessOvertaken, NoUser
<1>2. TypeInv /\ DeletedIsInactiveUnlessOvertaken /\ [Next]_vars => DeletedIsInactiveUnlessOvertaken'
  <2> SUFFICES ASSUME TypeInv, DeletedIsInactiveUnlessOvertaken, [Next]_vars
               PROVE  DeletedIsInactiveUnlessOvertaken'
    OBVIOUS
  <2>1. ASSUME DeletionKept PROVE DeletedIsInactiveUnlessOvertaken'
    BY <2>1 DEF DeletionKept, DeletedIsInactiveUnlessOvertaken
  <2>2. CASE UNCHANGED <<user, overtaken>>
    BY <2>2 DEF DeletedIsInactiveUnlessOvertaken
  <2>3. CASE \E r \in Requests : Step(r)
    BY <2>1, <2>3, StepDeletes
  <2>4. CASE \E r \in Requests : Start(r) \/ Fail(r)
    BY <2>2, <2>4, StartDeletes DEF Fail, stores
  <2>5. CASE generate_and_store_state \/ \E l \in Numbers : Expire(l)
    BY <2>2, <2>5 DEF generate_and_store_state, Expire, ghosts
  <2>6. CASE UNCHANGED vars
    BY <2>2, <2>6 DEF vars, stores, ghosts
  <2> QED
    BY <2>3, <2>4, <2>5, <2>6 DEF Next
<1> QED
  BY <1>1, <1>2, InitType, NextType, PTL DEF Spec


-----------------------------------------------------------------------------
(* A password that was replaced stays replaced.                            *)

\* q is yet to store the password it was started with.
Sets(q) ==
    \/ q.op = "signup" /\ q.pc = "create"
    \/ q.op \in {"profile", "update"} /\ q.pc = "write"
    \/ q.op = "confirm" /\ q.pc \in {"load", "write"}

PasswordInv ==
    /\ \A r \in Requests : Sets(req[r]) => req[r].n \notin retired /\ req[r].n # user.password
    /\ \A p \in retired : p <= started
    /\ user.password <= started
    /\ ReplacedPasswordStaysReplaced

Onward(r, q) == req' = [req EXCEPT ![r] = q] /\ q.op = req[r].op /\ q.n = req[r].n

\* r moves: the password stays, is cleared, or becomes the one r sets.
PasswordMove(r) ==
    /\ req[r].pc # "idle"
    /\ UNCHANGED started
    /\ \E q :
          /\ req' = [req EXCEPT ![r] = q]
          /\ Sets(q) => Sets(req[r]) /\ q.n = req[r].n
          /\ \/ user'.password = user.password /\ retired' = retired
             \/ user'.password = NoPassword /\ retired' \subseteq retired \cup {user.password}
             \/ /\ user'.password = req[r].n /\ retired' \subseteq retired \cup {user.password}
                /\ Sets(req[r]) /\ ~Sets(q)

LEMMA GoesOnward ==
    ASSUME TypeInv, NEW r \in Requests, req[r].pc # "idle", NEW pc, Goto(r, pc)
    PROVE  \E q : Onward(r, q) /\ q.pc = pc
<1>1. req[r] \in Request
  BY Busy
<1> DEFINE q == [req[r] EXCEPT !.pc = pc]
<1>2. q.op = req[r].op /\ q.n = req[r].n /\ q.pc = pc
  BY <1>1 DEF Request
<1> QED
  BY <1>2 DEF Onward, Goto

LEMMA LoadsOnward ==
    ASSUME TypeInv, NEW r \in Requests, req[r].pc # "idle", NEW pc, NEW u, NEW e,
           req' = [req EXCEPT ![r].loaded = u, ![r].epoch = e, ![r].pc = pc]
    PROVE  \E q : Onward(r, q) /\ q.pc = pc
<1>1. req[r] \in Request
  BY Busy
<1> DEFINE q == [req[r] EXCEPT !.loaded = u, !.epoch = e, !.pc = pc]
<1>2. q.op = req[r].op /\ q.n = req[r].n /\ q.pc = pc
  BY <1>1 DEF Request
<1>3. req' = [req EXCEPT ![r] = q]
  OBVIOUS
<1> QED
  BY <1>2, <1>3 DEF Onward

LEMMA StoresOnward ==
    ASSUME TypeInv, NEW r \in Requests, req[r].pc = "write", StorePassword(r), user # NoUser,
           Sets(req[r]), UNCHANGED started
    PROVE  PasswordMove(r)
<1>1. req[r] \in Request /\ user \in Row
  BY Busy DEF TypeInv, TypeOK
<1> DEFINE q == [req[r] EXCEPT !.pc = "revoke", !.epoch = @ + 1]
<1>2. q.op = req[r].op /\ q.n = req[r].n /\ q.pc = "revoke"
  BY <1>1 DEF Request
<1>3. ~Sets(q)
  BY <1>2 DEF Sets
<1>4. user'.password = req[r].n /\ retired' \subseteq retired \cup {user.password}
  BY <1>1 DEF StorePassword, Retire, Row
<1> QED
  BY <1>3, <1>4 DEF StorePassword, PasswordMove

\* r moves by Finish, or by Goto or a load to a step that stores nothing new.
LEMMA PasswordEnds ==
    ASSUME NEW r \in Requests, req[r].pc # "idle", Finish(r), UNCHANGED started,
           \/ user'.password = user.password /\ retired' = retired
           \/ user'.password = NoPassword /\ retired' \subseteq retired \cup {user.password}
    PROVE  PasswordMove(r)
<1>1. ~Sets(Idle)
  BY DEF Sets, Idle
<1> QED
  BY <1>1 DEF PasswordMove, Finish

LEMMA PasswordGoes ==
    ASSUME NEW r \in Requests, req[r].pc # "idle", NEW q, Onward(r, q), UNCHANGED started,
           Sets(q) => Sets(req[r]),
           \/ user'.password = user.password /\ retired' = retired
           \/ user'.password = NoPassword /\ retired' \subseteq retired \cup {user.password}
    PROVE  PasswordMove(r)
  BY DEF PasswordMove, Onward

LEMMA StepPasswords == ASSUME TypeInv, NEW r \in Requests, Step(r) PROVE PasswordMove(r)
<1>0. /\ user # NoUser => user \in Row
      /\ req[r].pc # "idle" => req[r] \in Request /\ Shape(req[r])
  BY Busy DEF TypeInv, TypeOK
<1>1. CASE create(r)
  <2>1. req[r] \in Request /\ Shape(req[r]) /\ req[r].pc = "create"
    BY <1>0, <1>1 DEF create
  <2>2. UNCHANGED <<started, retired>>
    BY <1>1 DEF create, ghosts
  <2>3. CASE user = NoUser
    <3>0. req' = [req EXCEPT ![r].loaded = user', ![r].epoch = epoch, ![r].pc = "assign"]
      BY <1>1, <2>3 DEF create
    <3>1. PICK q : Onward(r, q) /\ q.pc = "assign"
      BY <2>1, <3>0, LoadsOnward
    <3>2. ~Sets(q)
      BY <3>1 DEF Sets
    <3>3. user'.password = IF req[r].op = "signup" THEN req[r].n ELSE NoPassword
      BY <1>1, <2>3 DEF create
    <3>4. CASE req[r].op = "signup"
      BY <2>1, <2>2, <3>1, <3>2, <3>3, <3>4 DEF PasswordMove, Onward, Sets
    <3>5. CASE req[r].op # "signup"
      BY <2>1, <2>2, <3>1, <3>2, <3>3, <3>5, PasswordGoes
    <3> QED
      BY <3>4, <3>5
  <2>4. CASE user # NoUser
    BY <1>1, <2>1, <2>2, <2>4, PasswordEnds DEF create
  <2> QED
    BY <2>3, <2>4
<1>2. CASE assign_policy_to_user(r)
  <2>1. req[r].pc = "assign" /\ UNCHANGED <<user, retired, started>>
    BY <1>2 DEF assign_policy_to_user, stores, ghosts
  <2>2. Finish(r) \/ \E pc \in {"send", "mint"} : Goto(r, pc)
    BY <1>2 DEF assign_policy_to_user
  <2>3. ASSUME NEW pc \in {"send", "mint"}, Goto(r, pc) PROVE PasswordMove(r)
    <3>1. PICK q : Onward(r, q) /\ q.pc = pc
      BY <2>1, <2>3, GoesOnward
    <3> QED
      BY <2>1, <3>1, PasswordGoes DEF Sets
  <2> QED
    BY <2>1, <2>2, <2>3, PasswordEnds
<1>3. CASE send(r) \/ restore_token(r)
  BY <1>3, PasswordEnds DEF send, restore_token, ghosts
<1>4. CASE mint(r)
  BY <1>4, PasswordEnds DEF mint
<1>5. ASSUME NEW pc, LoadTo(r, pc), req[r].pc = "load",
             req[r].op \in {"verify", "oauth"} \/ req[r].op = "confirm"
      PROVE  PasswordMove(r)
  <2>1. PICK q : Onward(r, q) /\ q.pc = pc
    BY <1>5, LoadsOnward DEF LoadTo
  <2>2. UNCHANGED <<user, retired, started>>
    BY <1>5 DEF LoadTo, stores, ghosts
  <2>3. Sets(q) => Sets(req[r])
    BY <1>5, <2>1 DEF Sets, Onward
  <2> QED
    BY <1>5, <2>1, <2>2, <2>3, PasswordGoes
<1>6. ASSUME LoadAndFinish(r), req[r].pc = "load" PROVE PasswordMove(r)
  BY <1>6, PasswordEnds DEF LoadAndFinish, stores, ghosts
<1>7. CASE load_for_verification(r) \/ load_for_reset(r) \/ login_or_create_user(r)
  BY <1>5, <1>6, <1>7 DEF load_for_verification, load_for_reset, login_or_create_user
<1>8. CASE mark_user_verified(r)
  <2>1. user'.password = user.password
    BY <1>0, <1>8 DEF mark_user_verified, Row
  <2> QED
    BY <1>8, <2>1, PasswordEnds DEF mark_user_verified
<1>9. CASE update_password(r)
  <2>1. req[r].op = "confirm" /\ req[r].pc = "write" /\ UNCHANGED started
    BY <1>9 DEF update_password
  <2>2. CASE user # NoUser
    BY <1>9, <2>1, <2>2, StoresOnward DEF update_password, Sets
  <2>3. CASE user = NoUser
    <3>1. PICK q : Onward(r, q) /\ q.pc = "restore"
      BY <1>9, <2>1, <2>3, GoesOnward DEF update_password
    <3> QED
      BY <1>9, <2>1, <2>3, <3>1, PasswordGoes DEF update_password, Sets
  <2> QED
    BY <2>2, <2>3
<1>10. CASE verify_and_clear_password(r)
  <2>1. req[r].op = "oauth" /\ req[r].pc = "write" /\ UNCHANGED started
    BY <1>10 DEF verify_and_clear_password
  <2>2. \/ user'.password = user.password /\ retired' = retired
        \/ user'.password = NoPassword /\ retired' \subseteq retired \cup {user.password}
    BY <1>0, <1>10 DEF verify_and_clear_password, Retire, Row
  <2>3. CASE Finish(r)
    BY <2>1, <2>2, <2>3, PasswordEnds
  <2>4. ASSUME NEW q, Onward(r, q) PROVE PasswordMove(r)
    BY <2>1, <2>2, <2>4, PasswordGoes DEF Sets, Onward
  <2>5. CASE Goto(r, "mint")
    BY <2>1, <2>4, <2>5, GoesOnward
  <2>6. CASE req' = [req EXCEPT ![r].pc = "mint", ![r].epoch = epoch + 1]
    <3> DEFINE q == [req[r] EXCEPT !.pc = "mint", !.epoch = epoch + 1]
    <3>1. q.op = req[r].op /\ q.n = req[r].n
      BY <1>0, <2>1 DEF Request
    <3> QED
      BY <2>4, <2>6, <3>1 DEF Onward
  <2> QED
    BY <1>10, <2>3, <2>5, <2>6 DEF verify_and_clear_password
<1>11. CASE set_password(r)
  <2>1. req[r].op \in {"profile", "update"} /\ req[r].pc = "write" /\ UNCHANGED started
    BY <1>11 DEF set_password
  <2>2. CASE StaleData(r)
    BY <2>1, <2>2, PasswordEnds DEF StaleData
  <2>3. CASE Present(r) /\ StorePassword(r)
    BY <2>1, <2>3, StoresOnward DEF Present, Sets
  <2> QED
    BY <1>11, <2>2, <2>3 DEF set_password
<1>12. CASE soft_delete(r) \/ reactivate(r)
  <2>1. req[r].op \in {"delete", "reactivate"} /\ req[r].pc = "write" /\ UNCHANGED <<started, retired>>
    BY <1>12 DEF soft_delete, reactivate, StaleData
  <2>2. user'.password = user.password
    BY <1>0, <1>12 DEF soft_delete, reactivate, StaleData, Present, Row
  <2>3. CASE Finish(r)
    BY <2>1, <2>2, <2>3, PasswordEnds
  <2>4. CASE Goto(r, "revoke")
    <3>1. PICK q : Onward(r, q) /\ q.pc = "revoke"
      BY <2>1, <2>4, GoesOnward
    <3> QED
      BY <2>1, <2>2, <3>1, PasswordGoes DEF Sets
  <2> QED
    BY <1>12, <2>3, <2>4 DEF soft_delete, reactivate, StaleData
<1>13. CASE revoke_all_tokens_for_user(r) \/ revoke_fails(r)
  <2>1. req[r].pc = "revoke" /\ AfterRevoke(r) /\ UNCHANGED <<user, retired, started>>
    BY <1>13 DEF revoke_all_tokens_for_user, revoke_fails, stores
  <2>2. ASSUME NEW pc \in {"remove", "mint"}, Goto(r, pc) PROVE PasswordMove(r)
    <3>1. PICK q : Onward(r, q) /\ q.pc = pc
      BY <2>1, <2>2, GoesOnward
    <3> QED
      BY <2>1, <3>1, PasswordGoes DEF Sets
  <2>3. Finish(r) \/ \E pc \in {"remove", "mint"} : Goto(r, pc)
    BY <2>1 DEF AfterRevoke
  <2> QED
    BY <2>1, <2>2, <2>3, PasswordEnds
<1>14. CASE remove(r)
  <2>1. \/ user'.password = user.password /\ retired' = retired
        \/ user'.password = NoPassword /\ retired' \subseteq retired \cup {user.password}
    BY <1>14 DEF remove, Retire, NoUser
  <2> QED
    BY <1>14, <2>1, PasswordEnds DEF remove
<1> QED
  BY <1>1, <1>2, <1>3, <1>4, <1>7, <1>8, <1>9, <1>10, <1>11, <1>12, <1>13, <1>14 DEF Step

LEMMA PasswordsAreNumbers ==
    ASSUME TypeInv
    PROVE  started \in Nat /\ user.password \in Nat /\ retired \subseteq Numbers
<1>1. user \in Row \/ user = NoUser
  BY DEF TypeInv, TypeOK
<1>2. user.password \in Numbers \cup {0}
  BY <1>1 DEF Row, NoUser, NoPassword
<1>3. started \in Nat /\ retired \subseteq Numbers
  BY LifecycleAssumption DEF TypeInv, TypeOK
<1>4. \A p \in Numbers \cup {0} : p \in Nat
  BY DEF Numbers
<1> QED
  BY <1>2, <1>3, <1>4

LEMMA PasswordsMove ==
    ASSUME TypeInv, TypeInv', NumbersInv, PasswordInv, NEW r \in Requests, PasswordMove(r)
    PROVE  PasswordInv'
<1>0. /\ started \in Nat /\ user.password \in Nat /\ user.password <= started
      /\ retired \subseteq Numbers /\ retired' \subseteq Numbers /\ started' = started
      /\ user.password \notin retired
  BY PasswordsAreNumbers DEF PasswordInv, ReplacedPasswordStaysReplaced, PasswordMove, TypeInv, TypeOK
<1>1. req[r] # Idle /\ req[r].n \in Numbers /\ req[r].n \in Nat /\ req[r].n <= started
  BY RequestNumbers DEF PasswordMove, Idle, NumbersInv
<1>2. \A s \in Requests \ {r} : req'[s] = req[s]
  BY DEF PasswordMove, TypeInv, TypeOK
<1>3. Sets(req[r])' => Sets(req[r]) /\ req'[r].n = req[r].n
  BY DEF PasswordMove, TypeInv, TypeOK
<1>4. \A s \in Requests : Sets(req[s])' => Sets(req[s]) /\ req'[s].n = req[s].n
  BY <1>2, <1>3 DEF Sets
<1>5. \A s \in Requests : Sets(req[s]) => req[s] # Idle /\ req[s].n \in Numbers
  BY RequestNumbers DEF Sets, Idle
<1>6. CASE user'.password = user.password /\ retired' = retired
  BY <1>0, <1>4, <1>6 DEF PasswordInv, ReplacedPasswordStaysReplaced
<1>7. CASE user'.password = NoPassword /\ retired' \subseteq retired \cup {user.password}
  <2>1. \A p \in retired' : p <= started'
    BY <1>0, <1>7 DEF PasswordInv
  <2>2. \A s \in Requests : Sets(req[s])' => req'[s].n \notin retired' /\ req'[s].n # user'.password
    BY <1>4, <1>5, <1>7, NumbersAreNaturals DEF PasswordInv
  <2>3. user'.password <= started' /\ user'.password \notin retired'
    BY <1>0, <1>7, NumbersAreNaturals DEF NoPassword
  <2> QED
    BY <2>1, <2>2, <2>3 DEF PasswordInv, ReplacedPasswordStaysReplaced
<1>8. CASE /\ user'.password = req[r].n /\ retired' \subseteq retired \cup {user.password}
           /\ Sets(req[r]) /\ ~Sets(req[r])'
  <2>1. \A p \in retired' : p <= started'
    BY <1>0, <1>8 DEF PasswordInv
  <2>2. \A s \in Requests : Sets(req[s])' => s # r /\ req[s].n # req[r].n
    BY <1>1, <1>4, <1>5, <1>8 DEF NumbersInv
  <2>3. \A s \in Requests : Sets(req[s])' => req'[s].n \notin retired' /\ req'[s].n # user'.password
    BY <1>4, <1>8, <2>2 DEF PasswordInv
  <2>4. user'.password <= started' /\ user'.password \notin retired'
    BY <1>0, <1>1, <1>8 DEF PasswordInv
  <2> QED
    BY <2>1, <2>3, <2>4 DEF PasswordInv, ReplacedPasswordStaysReplaced
<1>9. \/ user'.password = user.password /\ retired' = retired
      \/ user'.password = NoPassword /\ retired' \subseteq retired \cup {user.password}
      \/ /\ user'.password = req[r].n /\ retired' \subseteq retired \cup {user.password}
         /\ Sets(req[r]) /\ ~Sets(req[r])'
  <2>1. PICK q : /\ req' = [req EXCEPT ![r] = q]
                 /\ \/ user'.password = user.password /\ retired' = retired
                    \/ user'.password = NoPassword /\ retired' \subseteq retired \cup {user.password}
                    \/ /\ user'.password = req[r].n /\ retired' \subseteq retired \cup {user.password}
                       /\ Sets(req[r]) /\ ~Sets(q)
    BY DEF PasswordMove
  <2>2. req'[r] = q
    BY <2>1 DEF TypeInv, TypeOK
  <2> QED
    BY <2>1, <2>2 DEF Sets
<1> QED
  BY <1>6, <1>7, <1>8, <1>9

\* r starts with a number above every password there was.
LEMMA PasswordsBegin ==
    ASSUME TypeInv, TypeInv', NumbersInv, PasswordInv, NEW r \in Requests,
           NEW op, NEW pc, NEW link, NEW e, BeginWith(r, op, pc, link, e), UNCHANGED <<user, retired>>
    PROVE  PasswordInv'
<1>0. /\ started \in Nat /\ user.password \in Nat /\ user.password <= started
      /\ retired \subseteq Numbers /\ started' = started + 1
  BY PasswordsAreNumbers DEF PasswordInv, BeginWith
<1>1. req'[r].n = started + 1 /\ \A s \in Requests \ {r} : req'[s] = req[s]
  BY DEF BeginWith, TypeInv, TypeOK
<1>2. \A p \in retired : p \in Nat /\ p <= started
  BY <1>0, NumbersAreNaturals DEF PasswordInv
<1>3. started + 1 \notin retired /\ started + 1 # user.password
  BY <1>0, <1>2
<1>4. \A s \in Requests : Sets(req[s])' => req'[s].n \notin retired /\ req'[s].n # user.password
  BY <1>1, <1>3 DEF PasswordInv, Sets
<1>5. user.password <= started + 1 /\ \A p \in retired : p <= started + 1
  BY <1>0, <1>2
<1> QED
  BY <1>0, <1>4, <1>5 DEF PasswordInv, ReplacedPasswordStaysReplaced

LEMMA PasswordStep == TypeInv /\ NumbersInv /\ PasswordInv /\ [Next]_vars => PasswordInv'
<1> SUFFICES ASSUME TypeInv, NumbersInv, PasswordInv, [Next]_vars PROVE PasswordInv'
  OBVIOUS
<1>0. TypeInv'
  BY NextType
<1>1. ASSUME NEW r \in Requests, Step(r) PROVE PasswordInv'
  BY <1>0, <1>1, StepPasswords, PasswordsMove
<1>2. ASSUME NEW r \in Requests, Start(r) PROVE PasswordInv'
  <2>1. UNCHANGED <<user, retired>>
    BY <1>2 DEF Start, signup, send_verification_email_if_needed, send_reset_email, verify_token,
       reset_password, consume_state, Redeem, login, update_my_profile, update_any_user,
       delete_any_user, purge_user, reactivate_user, LoadFor, stores, ghosts
  <2>2. \E op, pc, link, e : BeginWith(r, op, pc, link, e)
    BY <1>2 DEF Start, signup, send_verification_email_if_needed, send_reset_email, verify_token,
       reset_password, consume_state, Redeem, login, update_my_profile, update_any_user,
       delete_any_user, purge_user, reactivate_user, LoadFor, Begin
  <2> QED
    BY <1>0, <2>1, <2>2, PasswordsBegin
<1>3. ASSUME NEW r \in Requests, Fail(r) PROVE PasswordInv'
  <2>1. req[r].pc # "idle" /\ Finish(r) /\ UNCHANGED <<user, retired, started>>
    BY <1>3 DEF Fail, stores, TypeInv, TypeOK, Request, Pcs
  <2> QED
    BY <1>0, <2>1, PasswordEnds, PasswordsMove
<1>4. CASE generate_and_store_state
  <2>1. started' = started + 1 /\ UNCHANGED <<user, retired, req>>
    BY <1>4 DEF generate_and_store_state, ghosts
  <2>2. started \in Nat /\ user.password \in Nat /\ \A p \in retired : p \in Nat /\ p <= started
    BY PasswordsAreNumbers, NumbersAreNaturals DEF PasswordInv
  <2>3. user.password <= started + 1 /\ \A p \in retired : p <= started + 1
    BY <2>2 DEF PasswordInv
  <2> QED
    BY <2>1, <2>3 DEF PasswordInv, ReplacedPasswordStaysReplaced, Sets
<1>5. CASE (\E l \in Numbers : Expire(l)) \/ UNCHANGED vars
  <2>1. UNCHANGED <<user, retired, started, req>>
    BY <1>5 DEF Expire, vars, stores, ghosts
  <2> QED
    BY <2>1 DEF PasswordInv, ReplacedPasswordStaysReplaced, Sets
<1> QED
  BY <1>1, <1>2, <1>3, <1>4, <1>5 DEF Next

\* No interleaving of the loads and writes of signups, resets, OAuth2 logins
\* and profile changes brings back a password that was replaced or cleared.
THEOREM PasswordsStayReplaced == Spec => []ReplacedPasswordStaysReplaced
<1>1. Init => PasswordInv
  <2> SUFFICES ASSUME Init PROVE PasswordInv
    OBVIOUS
  <2>1. /\ user.password \in {0, 1} /\ started = 1 /\ retired = {}
        /\ \A r \in Requests : req[r] = Idle
    BY DEF Init, NoUser, NoPassword
  <2> QED
    BY <2>1 DEF PasswordInv, ReplacedPasswordStaysReplaced, Sets, Idle
<1>2. PasswordInv => ReplacedPasswordStaysReplaced
  BY DEF PasswordInv
<1> QED
  BY <1>1, <1>2, InitType, NextType, NumbersInit, NumbersStep, PasswordStep, PTL DEF Spec


-----------------------------------------------------------------------------
(* Sessions are of the account that is there.                              *)

Good(u) == u # NoUser /\ u.is_verified /\ u.is_active

\* q will mint a session for credentials accepted in q.epoch.
Minting(q) == q.pc = "mint" \/ (q.op = "oauth" /\ q.pc = "assign") \/ q.op = "profile"

\* What a request in flight may rely on as long as its epoch lasts: the account
\* it mints for is good, and the one it is to verify is there.
Claim(q, u, e) ==
    /\ q.epoch <= e
    /\ Minting(q) /\ q.epoch = e => Good(u)
    /\ q.op = "oauth" /\ q.pc = "write" /\ q.epoch = e => u # NoUser

OwedBy(q) == q.pc = "revoke" /\ q.op # "purge"

SessionInv ==
    /\ \A r \in Requests : Claim(req[r], user, epoch)
    /\ \A t \in tokens : /\ t.ver <= version /\ t.epoch <= epoch
                         /\ t.epoch = epoch => Good(user)
    /\ \A t \in tokens : t.ver = version /\ ~t.late /\ ~lost =>
          ~Purging /\ (~Owed => t.epoch = epoch)

Kept == (Good(user) => Good(user')) /\ (user # NoUser => user' # NoUser)

\* A step that changes no session,
Quiet(r, q) ==
    /\ UNCHANGED <<version, tokens, epoch, lost>> /\ Kept
    /\ OwedBy(q) <=> OwedBy(req[r])
    /\ q.pc = "remove" => req[r].pc = "remove"

\* that is to end the sessions: r will, or did, or there are none;
Changes(r, q) ==
    /\ epoch' = epoch + 1
    /\ UNCHANGED <<version, tokens, lost>>
    /\ q.pc # "remove"
    /\ \/ OwedBy(q)
       \/ req[r].pc = "remove"
       \/ ~user.is_verified /\ ~OwedBy(req[r])

\* that does not end them although it should;
Loses ==
    /\ lost'
    /\ UNCHANGED <<version, tokens>>
    /\ epoch' = epoch + 1 \/ (epoch' = epoch /\ Kept)

\* that ends them all;
EndsAll == version' = version + 1 /\ UNCHANGED <<tokens, epoch, user>>

\* that opens one.
Opens(r) ==
    /\ UNCHANGED <<version, epoch, lost, user>>
    /\ req[r].pc = "mint" /\ Finish(r)
    /\ tokens' = tokens \cup {[ver |-> version, epoch |-> req[r].epoch,
                               late |-> req[r].epoch # epoch \/ Purging]}

\* r moves to q, and may rely on what it claims.
Becomes(r, q) == req' = [req EXCEPT ![r] = q] /\ Claim(q, user', epoch')

SessionMove(r) ==
    \E q : Becomes(r, q) /\ (Quiet(r, q) \/ Changes(r, q) \/ Loses \/ EndsAll \/ Opens(r))

LEMMA SessionTypes ==
    ASSUME TypeInv
    PROVE  /\ version \in Nat /\ epoch \in Nat /\ lost \in BOOLEAN
           /\ \A r \in Requests : req[r].epoch \in Nat
           /\ \A t \in tokens : t.ver \in Nat /\ t.epoch \in Nat /\ t.late \in BOOLEAN
  BY DEF TypeInv, TypeOK, Request, Idle, Token

LEMMA SessionsMove ==
    ASSUME TypeInv, SessionInv, NEW r \in Requests, SessionMove(r)
    PROVE  SessionInv'
<1>0. /\ version \in Nat /\ epoch \in Nat /\ lost \in BOOLEAN
      /\ \A s \in Requests : req[s].epoch \in Nat
      /\ \A t \in tokens : t.ver \in Nat /\ t.epoch \in Nat
  BY SessionTypes
<1>1. PICK q : Becomes(r, q) /\ (Quiet(r, q) \/ Changes(r, q) \/ Loses \/ EndsAll \/ Opens(r))
  BY DEF SessionMove
<1>2. req'[r] = q /\ Claim(q, user', epoch') /\ \A s \in Requests \ {r} : req'[s] = req[s]
  BY <1>1 DEF Becomes, TypeInv, TypeOK
<1>3. epoch' = epoch + 1 \/ (epoch' = epoch /\ Kept)
  BY <1>1 DEF Quiet, Changes, Loses, EndsAll, Opens, Kept
<1>4. \A s \in Requests : Claim(req'[s], user', epoch')
  <2>1. ASSUME NEW s \in Requests \ {r} PROVE Claim(req[s], user', epoch')
    <3>1. Claim(req[s], user, epoch)
      BY DEF SessionInv
    <3>2. CASE epoch' = epoch + 1
      BY <1>0, <3>1, <3>2 DEF Claim
    <3>3. CASE epoch' = epoch /\ Kept
      BY <3>1, <3>3 DEF Claim, Kept
    <3> QED
      BY <1>3, <3>2, <3>3
  <2> QED
    BY <1>1, <1>2, <2>1
<1>5. \A t \in tokens : /\ t.epoch <= epoch'
                        /\ t.epoch = epoch' => Good(user')
  <2>1. CASE epoch' = epoch + 1
    BY <1>0, <2>1 DEF SessionInv
  <2>2. CASE epoch' = epoch /\ Kept
    BY <2>2 DEF SessionInv, Kept
  <2> QED
    BY <1>3, <2>1, <2>2
<1>7. CASE Quiet(r, q)
  <2>1. Owed' <=> Owed
    BY <1>2, <1>7 DEF Quiet, Owed, OwedBy
  <2>2. Purging' => Purging
    BY <1>2, <1>7 DEF Quiet, Purging
  <2> QED
    BY <1>4, <1>5, <1>7, <2>1, <2>2 DEF Quiet, SessionInv
<1>8. CASE Changes(r, q)
  <2>1. Purging' => Purging
    BY <1>2, <1>8 DEF Changes, Purging
  <2>2. CASE OwedBy(q)
    <3>1. Owed'
      BY <1>2, <2>2 DEF Owed, OwedBy
    <3> QED
      BY <1>4, <1>5, <1>8, <2>1, <3>1 DEF Changes, SessionInv
  <2>3. CASE req[r].pc = "remove"
    <3>1. Purging
      BY <2>3 DEF Purging
    <3> QED
      BY <1>4, <1>5, <1>8, <3>1 DEF Changes, SessionInv
  <2>4. CASE ~user.is_verified /\ ~OwedBy(req[r])
    <3>1. Owed => Owed'
      BY <1>2, <2>4 DEF Owed, OwedBy
    <3>2. \A t \in tokens : t.ver = version /\ ~t.late /\ ~lost => Owed
      BY <2>4 DEF SessionInv, Good
    <3> QED
      BY <1>4, <1>5, <1>8, <2>1, <3>1, <3>2 DEF Changes, SessionInv
  <2> QED
    BY <1>8, <2>2, <2>3, <2>4 DEF Changes
<1>9. CASE Loses
  BY <1>4, <1>5, <1>9 DEF Loses, SessionInv
<1>10. CASE EndsAll
  <2>1. \A t \in tokens : t.ver <= version' /\ t.ver # version'
    BY <1>0, <1>10 DEF EndsAll, SessionInv
  <2> QED
    BY <1>4, <1>5, <1>10, <2>1 DEF EndsAll, SessionInv
<1>11. CASE Opens(r)
  <2> DEFINE new == [ver |-> version, epoch |-> req[r].epoch,
                     late |-> req[r].epoch # epoch \/ Purging]
  <2>0. /\ UNCHANGED <<version, epoch, lost, user>>
        /\ req[r].pc = "mint" /\ req'[r] = Idle /\ tokens' = tokens \cup {new}
    BY <1>11 DEF Opens, Finish, TypeInv, TypeOK
  <2>1. (Owed' <=> Owed) /\ (Purging' => Purging)
    BY <1>2, <2>0 DEF Owed, Purging, Idle
  <2>2. new.epoch <= epoch /\ (new.epoch = epoch => Good(user)) /\ new.ver <= version
    BY <1>0, <2>0 DEF SessionInv, Claim, Minting
  <2>3. ~new.late => ~Purging /\ new.epoch = epoch
    OBVIOUS
  <2>4. \A t \in tokens' : t.ver <= version' /\ t.epoch <= epoch' /\ (t.epoch = epoch' => Good(user'))
    BY <2>0, <2>2 DEF SessionInv
  <2>5. \A t \in tokens' : t.ver = version' /\ ~t.late /\ ~lost' =>
            ~Purging' /\ (~Owed' => t.epoch = epoch')
    BY <2>0, <2>1, <2>3 DEF SessionInv
  <2> QED
    BY <1>4, <2>4, <2>5 DEF SessionInv
<1> QED
  BY <1>1, <1>7, <1>8, <1>9, <1>10, <1>11

\* r moves to a q that relies on what r relied on, or on what it just read.
MovesTo(r, q, pc, e) ==
    req' = [req EXCEPT ![r] = q] /\ q.op = req[r].op /\ q.pc = pc /\ q.epoch = e

LEMMA GoesTo ==
    ASSUME TypeInv, NEW r \in Requests, req[r].pc # "idle", NEW pc, Goto(r, pc)
    PROVE  \E q : MovesTo(r, q, pc, req[r].epoch)
<1> DEFINE q == [req[r] EXCEPT !.pc = pc]
<1>1. q.op = req[r].op /\ q.pc = pc /\ q.epoch = req[r].epoch
  BY Busy DEF Request
<1> QED
  BY <1>1 DEF MovesTo, Goto

LEMMA LoadedTo ==
    ASSUME TypeInv, NEW r \in Requests, req[r].pc # "idle", NEW pc, NEW u, NEW e,
           req' = [req EXCEPT ![r].loaded = u, ![r].epoch = e, ![r].pc = pc]
    PROVE  \E q : MovesTo(r, q, pc, e)
<1> DEFINE q == [req[r] EXCEPT !.loaded = u, !.epoch = e, !.pc = pc]
<1>1. q.op = req[r].op /\ q.pc = pc /\ q.epoch = e
  BY Busy DEF Request
<1>2. req' = [req EXCEPT ![r] = q]
  OBVIOUS
<1> QED
  BY <1>1, <1>2 DEF MovesTo

LEMMA RetimedTo ==
    ASSUME TypeInv, NEW r \in Requests, req[r].pc # "idle", NEW pc, NEW e,
           req' = [req EXCEPT ![r].pc = pc, ![r].epoch = e]
    PROVE  \E q : MovesTo(r, q, pc, e)
<1> DEFINE q == [req[r] EXCEPT !.pc = pc, !.epoch = e]
<1>1. q.op = req[r].op /\ q.pc = pc /\ q.epoch = e
  BY Busy DEF Request
<1>2. req' = [req EXCEPT ![r] = q]
  OBVIOUS
<1> QED
  BY <1>1, <1>2 DEF MovesTo

LEMMA IdleClaims ==
    ASSUME NEW u, NEW e \in Nat
    PROVE  Claim(Idle, u, e) /\ ~OwedBy(Idle) /\ Idle.pc # "remove"
  BY DEF Claim, Minting, OwedBy, Idle

LEMMA QuietEnds ==
    ASSUME TypeInv, NEW r \in Requests, ~OwedBy(req[r]), Finish(r), Kept,
           UNCHANGED <<version, tokens, epoch, lost>>
    PROVE  SessionMove(r)
<1>1. epoch' \in Nat
  BY SessionTypes
<1>2. Becomes(r, Idle) /\ Quiet(r, Idle)
  BY <1>1, IdleClaims DEF Becomes, Quiet, Finish
<1> QED
  BY <1>2 DEF SessionMove

LEMMA QuietGoes ==
    ASSUME TypeInv, NEW r \in Requests, ~OwedBy(req[r]), NEW q, req' = [req EXCEPT ![r] = q],
           Claim(q, user', epoch'), ~OwedBy(q), q.pc # "remove", Kept,
           UNCHANGED <<version, tokens, epoch, lost>>
    PROVE  SessionMove(r)
<1>1. Becomes(r, q) /\ Quiet(r, q)
  BY DEF Becomes, Quiet
<1> QED
  BY <1>1 DEF SessionMove

\* A new password: the sessions are r's to end, and what r was started for
\* was right, if it was in the epoch that ends.
LEMMA StoringMove ==
    ASSUME TypeInv, SessionInv, NEW r \in Requests, req[r].pc = "write",
           req[r].op \in {"confirm", "profile", "update"}, user # NoUser, StorePassword(r),
           UNCHANGED <<version, tokens, lost>>
    PROVE  SessionMove(r)
<1>0. /\ epoch \in Nat /\ req[r].epoch \in Nat /\ user \in Row
      /\ Claim(req[r], user, epoch) /\ epoch' = epoch + 1
  BY SessionTypes DEF TypeInv, TypeOK, SessionInv, StorePassword
<1>1. PICK q : MovesTo(r, q, "revoke", req[r].epoch + 1)
  BY RetimedTo DEF StorePassword
<1>2. user' # NoUser /\ user'.is_verified = user.is_verified /\ user'.is_active = user.is_active
  BY <1>0 DEF StorePassword, Row, NoUser
<1>3. Claim(q, user', epoch')
  BY <1>0, <1>1, <1>2 DEF Claim, Minting, MovesTo, Good
<1>4. Becomes(r, q) /\ Changes(r, q)
  BY <1>0, <1>1, <1>3 DEF Becomes, Changes, MovesTo, OwedBy
<1> QED
  BY <1>4 DEF SessionMove

LEMMA RevokingMove ==
    ASSUME TypeInv, SessionInv, NEW r \in Requests, req[r].pc = "revoke", AfterRevoke(r),
           EndsAll \/ (lost' /\ UNCHANGED <<version, tokens, epoch, user>>)
    PROVE  SessionMove(r)
<1>0. epoch' = epoch /\ epoch' \in Nat /\ user' = user /\ Claim(req[r], user, epoch)
  BY SessionTypes DEF SessionInv, EndsAll
<1>1. EndsAll \/ Loses
  BY <1>0 DEF Loses, Kept
<1>2. CASE Finish(r)
  BY <1>0, <1>1, <1>2, IdleClaims DEF SessionMove, Becomes, Finish
<1>3. ASSUME NEW pc \in {"remove", "mint"}, Goto(r, pc),
             pc = "remove" => req[r].op = "purge", pc = "mint" => req[r].op = "profile"
      PROVE  SessionMove(r)
  <2>1. PICK q : MovesTo(r, q, pc, req[r].epoch)
    BY <1>3, GoesTo
  <2>2. Becomes(r, q)
    BY <1>0, <1>3, <2>1 DEF Becomes, Claim, Minting, MovesTo
  <2> QED
    BY <1>1, <2>2 DEF SessionMove
<1>4. CASE req[r].op = "purge"
  BY <1>3, <1>4 DEF AfterRevoke
<1>5. CASE req[r].op = "profile"
  BY <1>3, <1>5 DEF AfterRevoke
<1> QED
  BY <1>2, <1>4, <1>5 DEF AfterRevoke

LEMMA StepSessions ==
    ASSUME TypeInv, SessionInv, NEW r \in Requests, Step(r)
    PROVE  SessionMove(r)
<1>0. /\ user # NoUser => user \in Row
      /\ req[r].pc # "idle" => Shape(req[r])
      /\ epoch \in Nat /\ req[r].epoch \in Nat /\ Claim(req[r], user, epoch)
  BY Busy, SessionTypes DEF TypeInv, TypeOK, SessionInv
<1>1. CASE create(r)
  <2>1. req[r].pc = "create" /\ Shape(req[r]) /\ ~OwedBy(req[r])
        /\ UNCHANGED <<version, tokens, epoch, lost>>
    BY <1>0, <1>1 DEF create, ghosts, OwedBy
  <2>2. CASE user = NoUser
    <3>0. /\ req' = [req EXCEPT ![r].loaded = user', ![r].epoch = epoch, ![r].pc = "assign"]
          /\ \E p : user' = [id |-> nextId, password |-> p, is_verified |-> req[r].op = "oauth",
                             is_active |-> TRUE, deleted |-> FALSE]
      BY <1>1, <2>2 DEF create
    <3>1. user'.id = nextId /\ user'.is_active /\ (req[r].op = "oauth" => user'.is_verified)
      <4>1. user'.id = nextId
        BY <3>0
      <4>2. user'.is_active = TRUE
        BY <3>0
      <4>3. ASSUME req[r].op = "oauth" PROVE user'.is_verified = TRUE
        <5>1. (req[r].op = "oauth") = TRUE
          BY <4>3
        <5>2. \E p : user' = [id |-> nextId, password |-> p, is_verified |-> TRUE,
                              is_active |-> TRUE, deleted |-> FALSE]
          BY <3>0, <5>1, Zenon
        <5> QED
          BY <5>2
      <4> QED
        BY <4>1, <4>2, <4>3
    <3>2. PICK q : MovesTo(r, q, "assign", epoch)
      BY <2>1, <3>0, LoadedTo
    <3>3. user' # NoUser
      BY <3>1 DEF NoUser, TypeInv, TypeOK
    <3>4. Kept
      BY <2>2, <3>3 DEF Kept, Good
    <3>5. Claim(q, user', epoch')
      <4>1. q.epoch = epoch /\ epoch' = epoch /\ q.pc = "assign" /\ q.op \in {"signup", "oauth"}
        BY <2>1, <3>2 DEF MovesTo, Shape
      <4>2. Minting(q) => Good(user')
        BY <3>1, <3>2, <3>3, <4>1 DEF Minting, Good, MovesTo
      <4> QED
        BY <1>0, <4>1, <4>2 DEF Claim
    <3> QED
      BY <2>1, <3>2, <3>4, <3>5, QuietGoes DEF MovesTo, OwedBy
  <2>3. CASE user # NoUser
    BY <1>1, <2>1, <2>3, QuietEnds DEF create, Kept
  <2> QED
    BY <2>2, <2>3
<1>2. CASE assign_policy_to_user(r)
  <2>1. /\ req[r].pc = "assign" /\ Shape(req[r]) /\ ~OwedBy(req[r])
        /\ UNCHANGED <<user, version, tokens, epoch, lost>> /\ Kept
    BY <1>0, <1>2 DEF assign_policy_to_user, stores, ghosts, OwedBy, Kept
  <2>2. \/ Finish(r)
        \/ Goto(r, "send")
        \/ req[r].op = "oauth" /\ Goto(r, "mint")
    BY <1>2, <2>1 DEF assign_policy_to_user, Shape
  <2>3. ASSUME NEW pc \in {"send", "mint"}, Goto(r, pc), pc = "mint" => req[r].op = "oauth"
        PROVE  SessionMove(r)
    <3>1. PICK q : MovesTo(r, q, pc, req[r].epoch)
      BY <2>1, <2>3, GoesTo
    <3>2. Claim(q, user', epoch')
      BY <1>0, <2>1, <2>3, <3>1 DEF Claim, Minting, MovesTo, Shape
    <3> QED
      BY <2>1, <2>3, <3>1, <3>2, QuietGoes DEF MovesTo, OwedBy
  <2> QED
    BY <2>1, <2>2, <2>3, QuietEnds
<1>3. CASE send(r) \/ restore_token(r)
  BY <1>3, QuietEnds DEF send, restore_token, ghosts, OwedBy, Kept
<1>4. ASSUME NEW pc, LoadTo(r, pc), req[r].pc = "load",
             \/ req[r].op \in {"verify", "confirm"} /\ pc \in {"write", "restore"}
             \/ req[r].op = "oauth" /\ pc = "create"
             \/ req[r].op = "oauth" /\ pc = "write" /\ user # NoUser
             \/ req[r].op = "oauth" /\ pc = "mint" /\ Good(user)
      PROVE  SessionMove(r)
  <2>1. PICK q : MovesTo(r, q, pc, epoch)
    BY <1>4, LoadedTo DEF LoadTo
  <2>2. UNCHANGED <<user, version, tokens, epoch, lost>> /\ Kept
    BY <1>4 DEF LoadTo, stores, ghosts, Kept
  <2>3. Claim(q, user', epoch')
    BY <1>0, <1>4, <2>1, <2>2 DEF Claim, Minting, MovesTo
  <2> QED
    BY <1>4, <2>1, <2>2, <2>3, QuietGoes DEF MovesTo, OwedBy
<1>5. ASSUME LoadAndFinish(r), req[r].pc = "load" PROVE SessionMove(r)
  BY <1>5, QuietEnds DEF LoadAndFinish, stores, ghosts, OwedBy, Kept
<1>6. CASE load_for_verification(r) \/ load_for_reset(r)
  BY <1>4, <1>5, <1>6 DEF load_for_verification, load_for_reset
<1>7. CASE login_or_create_user(r)
  BY <1>4, <1>5, <1>7 DEF login_or_create_user, Good
<1>8. CASE mark_user_verified(r)
  <2>1. Kept
    BY <1>0, <1>8 DEF mark_user_verified, Kept, Good, Row, NoUser
  <2> QED
    BY <1>8, <2>1, QuietEnds DEF mark_user_verified, OwedBy
<1>9. CASE update_password(r)
  <2>1. req[r].op = "confirm" /\ req[r].pc = "write" /\ UNCHANGED <<version, tokens, lost>>
    BY <1>9 DEF update_password
  <2>2. CASE user # NoUser
    BY <1>9, <2>1, <2>2, StoringMove DEF update_password
  <2>3. CASE user = NoUser
    <3>1. UNCHANGED <<user, epoch>> /\ Kept
      BY <1>9, <2>3 DEF update_password, Kept
    <3>2. PICK q : MovesTo(r, q, "restore", req[r].epoch)
      BY <1>9, <2>1, <2>3, GoesTo DEF update_password
    <3>3. Claim(q, user', epoch')
      BY <1>0, <2>1, <3>1, <3>2 DEF Claim, Minting, MovesTo
    <3> QED
      BY <2>1, <3>1, <3>2, <3>3, QuietGoes DEF MovesTo, OwedBy
  <2> QED
    BY <2>2, <2>3
<1>10. CASE verify_and_clear_password(r)
  <2>1. req[r].op = "oauth" /\ req[r].pc = "write" /\ ~OwedBy(req[r]) /\ UNCHANGED <<version, tokens>>
    BY <1>10 DEF verify_and_clear_password, OwedBy
  <2>2. CASE user # NoUser
    <3>1. /\ epoch' = epoch + 1 /\ epoch' \in Nat
          /\ lost' = (lost \/ user.is_verified)
          /\ user' = [user EXCEPT !.is_verified = TRUE, !.password = NoPassword]
      BY <1>0, <1>10, <2>2 DEF verify_and_clear_password
    <3>2. user' # NoUser /\ user'.is_verified /\ user'.is_active = user.is_active
      BY <1>0, <2>2, <3>1 DEF Row, NoUser
    <3>3. ASSUME NEW q, q.pc # "remove", ~OwedBy(q) PROVE Changes(r, q) \/ Loses
      <4>1. CASE user.is_verified
        BY <2>1, <3>1, <4>1 DEF Loses
      <4>2. CASE ~user.is_verified
        <5>1. lost' = lost
          BY <3>1, <4>2, SessionTypes
        <5> QED
          BY <2>1, <3>1, <3>3, <4>2, <5>1 DEF Changes
      <4> QED
        BY <4>1, <4>2
    <3>4. CASE user.is_active
      <4>1. PICK q : MovesTo(r, q, "mint", epoch + 1)
        BY <1>10, <2>1, <2>2, <3>4, RetimedTo DEF verify_and_clear_password
      <4>2. Becomes(r, q)
        BY <3>1, <3>2, <3>4, <4>1, <2>1 DEF Becomes, Claim, Good, MovesTo
      <4> QED
        BY <3>3, <4>1, <4>2 DEF SessionMove, MovesTo, OwedBy
    <3>5. CASE ~user.is_active
      <4>1. Becomes(r, Idle)
        BY <1>10, <2>2, <3>1, <3>5, IdleClaims DEF verify_and_clear_password, Becomes, Finish
      <4> QED
        BY <3>3, <4>1, IdleClaims DEF SessionMove
    <3> QED
      BY <3>4, <3>5
  <2>3. CASE user = NoUser
    <3>1. UNCHANGED <<user, epoch, lost>> /\ Kept
      BY <1>10, <2>3 DEF verify_and_clear_password, Kept
    <3>2. CASE Finish(r)
      BY <2>1, <3>1, <3>2, QuietEnds
    <3>3. CASE Goto(r, "mint")
      <4>1. PICK q : MovesTo(r, q, "mint", req[r].epoch)
        BY <2>1, <3>3, GoesTo
      <4>2. req[r].epoch # epoch /\ Claim(q, user', epoch')
        BY <1>0, <2>1, <2>3, <3>1, <4>1 DEF Claim, MovesTo
      <4> QED
        BY <2>1, <3>1, <4>1, <4>2, QuietGoes DEF MovesTo, OwedBy
    <3> QED
      BY <1>10, <2>3, <3>2, <3>3 DEF verify_and_clear_password
  <2> QED
    BY <2>2, <2>3
<1>11. CASE mint(r)
  <2>1. Opens(r) /\ Becomes(r, Idle)
    BY <1>0, <1>11, IdleClaims DEF mint, Opens, Becomes, Finish
  <2> QED
    BY <2>1 DEF SessionMove
<1>12. CASE set_password(r)
  <2>1. req[r].op \in {"profile", "update"} /\ req[r].pc = "write" /\ UNCHANGED <<version, tokens, lost>>
    BY <1>12 DEF set_password
  <2>2. CASE StaleData(r)
    BY <2>1, <2>2, QuietEnds DEF StaleData, OwedBy, Kept
  <2>3. CASE Present(r) /\ StorePassword(r)
    BY <2>1, <2>3, StoringMove DEF Present
  <2> QED
    BY <1>12, <2>2, <2>3 DEF set_password
<1>13. CASE soft_delete(r)
  <2>1. req[r].op = "delete" /\ req[r].pc = "write" /\ UNCHANGED <<version, tokens, lost>>
    BY <1>13 DEF soft_delete
  <2>2. CASE StaleData(r)
    BY <2>1, <2>2, QuietEnds DEF StaleData, OwedBy, Kept
  <2>3. CASE epoch' = epoch + 1 /\ Goto(r, "revoke")
    <3>1. PICK q : MovesTo(r, q, "revoke", req[r].epoch)
      BY <2>1, <2>3, GoesTo
    <3>2. Becomes(r, q) /\ Changes(r, q)
      BY <1>0, <2>1, <2>3, <3>1 DEF Becomes, Changes, Claim, Minting, MovesTo, OwedBy
    <3> QED
      BY <3>2 DEF SessionMove
  <2> QED
    BY <1>13, <2>2, <2>3 DEF soft_delete
<1>14. CASE reactivate(r)
  <2>1. Kept /\ UNCHANGED <<version, tokens, epoch, lost>>
    <3>1. CASE UNCHANGED user
      BY <1>14, <3>1 DEF reactivate, StaleData, Kept
    <3>2. CASE user # NoUser /\ user' = [user EXCEPT !.is_active = @ \/ ~req[r].loaded.is_active,
                                                    !.deleted = FALSE]
      <4>1. user'.id = user.id /\ user'.is_verified = user.is_verified
            /\ (user.is_active => user'.is_active)
        BY <1>0, <3>2 DEF Row
      <4>2. Kept
        BY <1>0, <3>2, <4>1 DEF Kept, Good, Row, NoUser
      <4> QED
        BY <1>14, <4>2 DEF reactivate, StaleData
    <3> QED
      BY <1>14, <3>1, <3>2 DEF reactivate, StaleData, Present
  <2> QED
    BY <1>14, <2>1, QuietEnds DEF reactivate, StaleData, OwedBy
<1>15. CASE revoke_all_tokens_for_user(r)
  BY <1>15, RevokingMove DEF revoke_all_tokens_for_user, EndsAll
<1>16. CASE revoke_fails(r)
  BY <1>16, RevokingMove DEF revoke_fails, stores
<1>17. CASE remove(r)
  <2>1. req[r].pc = "remove" /\ Finish(r) /\ UNCHANGED <<version, tokens, lost>>
    BY <1>17 DEF remove
  <2>2. CASE epoch' = epoch + 1
    <3>1. Becomes(r, Idle) /\ Changes(r, Idle)
      BY <1>0, <2>1, <2>2, IdleClaims DEF Becomes, Changes, Finish
    <3> QED
      BY <3>1 DEF SessionMove
  <2>3. CASE UNCHANGED <<user, epoch>>
    BY <2>1, <2>3, QuietEnds DEF OwedBy, Kept
  <2> QED
    BY <1>17, <2>2, <2>3 DEF remove
<1> QED
  BY <1>1, <1>2, <1>3, <1>6, <1>7, <1>8, <1>9, <1>10, <1>11, <1>12, <1>13, <1>14, <1>15,
     <1>16, <1>17 DEF Step

LEMMA BeginningMove ==
    ASSUME TypeInv, SessionInv, NEW r \in Requests, NEW op, NEW pc, NEW link, NEW e \in Nat,
           BeginWith(r, op, pc, link, e), e <= epoch,
           op = "profile" \/ pc = "mint" => (e = epoch => Good(user)),
           op = "oauth" => pc = "load", op # "purge" => pc # "revoke", pc # "remove",
           UNCHANGED <<user, version, tokens, epoch, lost>>
    PROVE  SessionMove(r)
<1> DEFINE q == [op |-> op, pc |-> pc, n |-> started + 1, link |-> link,
                 loaded |-> user, epoch |-> e]
<1>1. req' = [req EXCEPT ![r] = q] /\ ~OwedBy(req[r]) /\ ~OwedBy(q) /\ q.pc # "remove"
  BY DEF BeginWith, OwedBy, Idle
<1>2. Claim(q, user', epoch') /\ Kept
  BY DEF Claim, Minting, Kept
<1> QED
  BY <1>1, <1>2, QuietGoes

LEMMA StartSessions ==
    ASSUME TypeInv, SessionInv, NEW r \in Requests, Start(r)
    PROVE  SessionMove(r)
<1>0. epoch \in Nat /\ epoch <= epoch
  BY SessionTypes
<1>1. CASE signup(r) \/ send_verification_email_if_needed(r) \/ send_reset_email(r)
  BY <1>0, <1>1, BeginningMove DEF signup, send_verification_email_if_needed, send_reset_email,
     Begin, stores, ghosts
<1>2. CASE verify_token(r) \/ reset_password(r) \/ consume_state(r)
  <2>1. PICK op \in {"verify", "confirm", "oauth"}, l \in Numbers : Begin(r, op, "load", l)
    BY <1>2 DEF verify_token, reset_password, consume_state, Redeem
  <2>2. UNCHANGED <<user, version, tokens, epoch, lost>>
    BY <1>2 DEF verify_token, reset_password, consume_state, Redeem, ghosts
  <2> QED
    BY <1>0, <2>1, <2>2, BeginningMove DEF Begin
<1>3. CASE login(r)
  <2>1. Good(user) /\ Begin(r, "login", "mint", NoLink) /\ UNCHANGED <<user, version, tokens, epoch, lost>>
    BY <1>3 DEF login, Good, stores, ghosts
  <2> QED
    BY <1>0, <2>1, BeginningMove DEF Begin
<1>4. CASE update_my_profile(r)
  <2>1. PICK t \in tokens : BeginWith(r, "profile", "write", NoLink, t.epoch)
    BY <1>4 DEF update_my_profile
  <2>2. t.epoch \in Nat /\ t.epoch <= epoch /\ (t.epoch = epoch => Good(user))
    BY SessionTypes DEF SessionInv
  <2>3. UNCHANGED <<user, version, tokens, epoch, lost>>
    BY <1>4 DEF update_my_profile, stores, ghosts
  <2> QED
    BY <2>1, <2>2, <2>3, BeginningMove
<1>5. CASE update_any_user(r) \/ delete_any_user(r) \/ purge_user(r) \/ reactivate_user(r)
  BY <1>0, <1>5, BeginningMove DEF update_any_user, delete_any_user, purge_user,
     reactivate_user, LoadFor, Begin, stores, ghosts
<1> QED
  BY <1>1, <1>2, <1>3, <1>4, <1>5 DEF Start

LEMMA SessionStep == TypeInv /\ SessionInv /\ [Next]_vars => SessionInv'
<1> SUFFICES ASSUME TypeInv, SessionInv, [Next]_vars PROVE SessionInv'
  OBVIOUS
<1>1. CASE \E r \in Requests : Start(r) \/ Step(r)
  BY <1>1, StartSessions, StepSessions, SessionsMove
<1>2. ASSUME NEW r \in Requests, Fail(r) PROVE SessionInv'
  <2>1. Finish(r) /\ UNCHANGED <<user, version, tokens, epoch>> /\ Kept
    BY <1>2 DEF Fail, stores, Kept
  <2>2. lost' = (lost \/ OwedBy(req[r]))
    BY <1>2 DEF Fail, OwedBy
  <2>3. CASE OwedBy(req[r])
    <3>1. Becomes(r, Idle) /\ Loses
      BY <2>1, <2>2, <2>3, IdleClaims, SessionTypes DEF Becomes, Loses, Finish
    <3> QED
      BY <3>1, SessionsMove DEF SessionMove
  <2>4. CASE ~OwedBy(req[r])
    <3>1. lost' = lost
      BY <2>2, <2>4, SessionTypes
    <3> QED
      BY <2>1, <2>4, <3>1, QuietEnds, SessionsMove
  <2> QED
    BY <2>3, <2>4
<1>3. CASE generate_and_store_state \/ (\E l \in Numbers : Expire(l)) \/ UNCHANGED vars
  <2>1. UNCHANGED <<user, version, tokens, epoch, lost, req>>
    BY <1>3 DEF generate_and_store_state, Expire, vars, stores, ghosts
  <2> QED
    BY <2>1 DEF SessionInv, Purging, Owed
<1> QED
  BY <1>1, <1>2, <1>3 DEF Next

\* A session that works is of the account that is in the table: verified,
\* active, and opened for credentials accepted after the last change that was
\* to end the sessions; except while the request that made the change is still
\* at it, after it could not end them, and for a session that was minted late.
THEOREM SessionsAreCurrent == Spec => []SessionsAreOfTheAccount
<1>1. Init => SessionInv
  BY DEF Init, SessionInv, Claim, Minting, Idle
<1>2. TypeInv /\ SessionInv => SessionsAreOfTheAccount
  BY DEF SessionInv, SessionsAreOfTheAccount, Good
<1> QED
  BY <1>1, <1>2, InitType, NextType, SessionStep, PTL DEF Spec

=============================================================================
