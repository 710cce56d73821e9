------------------------ MODULE TokenSessions_proofs ------------------------
(* Theorems about TokenSessions, for every set of requests and chains, any  *)
(* lifetimes and any number of requests.                                    *)
EXTENDS TokenSessions, FiniteSetTheorems, TLAPS

-----------------------------------------------------------------------------
(* Arithmetic of expiries.                                                  *)

\* The product of two naturals is a natural.
LEMMA ProductNat ==
    ASSUME NEW a \in Nat, NEW b \in Nat PROVE a * b \in Nat
  BY SMT

\* Dividing ticks by the ticks of a second yields a natural, and rounds down.
LEMMA WholeSeconds ==
    ASSUME NEW a \in Nat
    PROVE  /\ a \div Second \in Nat
           /\ (a \div Second) * Second \in Nat
           /\ (a \div Second) * Second <= a
  BY ConstantsAssumption, Z3 DEF ConstantsAssumption

\* An expiry lies at most a lifetime ahead of the clock.
LEMMA ExpBound ==
    ASSUME TypeOK, NEW life \in Nat
    PROVE  /\ Exp(life) \in Nat
           /\ Exp(life) <= clock + life * Second
<1> DEFINE s == clock \div Second
<1>1. clock \in Nat /\ Second \in Nat
  BY ConstantsAssumption DEF TypeOK, ConstantsAssumption
<1>2. s \in Nat /\ s * Second \in Nat /\ s * Second <= clock
  BY <1>1, WholeSeconds
<1>3. life * Second \in Nat
  BY <1>1, ProductNat
<1>4. (s + life) * Second = s * Second + life * Second
  BY <1>1, <1>2
<1> QED
  BY <1>1, <1>2, <1>3, <1>4 DEF Exp

-----------------------------------------------------------------------------
(* Type correctness.                                                        *)

LEMMA VersionNat ==
    ASSUME TypeOK, NEW c \in Chains PROVE get_chain_version(c) \in Nat
  BY DEF TypeOK, get_chain_version

LEMMA ReadsNat ==
    ASSUME NEW v \in Nat PROVE Reads(v) \subseteq Nat
  BY DEF Reads

\* A claim is stored with an expiry.
LEMMA ClaimTTLNat ==
    ASSUME TypeOK, NEW exp \in Nat PROVE clock + ClaimTTL(exp) \in Nat
<1>1. clock \in Nat /\ Second \in Nat
  BY ConstantsAssumption DEF TypeOK, ConstantsAssumption
<1>2. CASE exp - clock < Second
  BY <1>1, <1>2 DEF ClaimTTL
<1>3. CASE ~(exp - clock < Second)
  <2>1. exp - clock \in Nat
    BY <1>1, <1>3
  <2>2. ((exp - clock) \div Second) * Second \in Nat
    BY <2>1, WholeSeconds
  <2> QED
    BY <1>1, <1>3, <2>2 DEF ClaimTTL
<1> QED
  BY <1>2, <1>3

\* The request a handler starts is well formed.
LEMMA BeginType ==
    ASSUME TypeOK, NEW r \in Requests, NEW op, NEW pc, NEW chain, NEW jti,
           NEW exp, NEW row, NEW need, Begin(r, op, pc, chain, jti, exp, row, need),
           \A new \in Jtis, seen \in Nat :
             [op |-> op, pc |-> pc, chain |-> chain, jti |-> jti, exp |-> exp,
              new |-> new, row |-> row, need |-> need, seen |-> seen] \in Request
    PROVE  /\ started' \in 0 .. MaxRequests
           /\ req' \in [Requests -> Request]
<1>1. started + 1 \in Jtis /\ started' = started + 1
  BY ConstantsAssumption DEF Begin, TypeOK, Jtis, ConstantsAssumption
<1> QED
  BY <1>1, ConstantsAssumption DEF Begin, TypeOK, Jtis, ConstantsAssumption

\* A row that moves to another jti or is revoked is still a row.
LEMMA RowUpdate ==
    ASSUME NEW w \in Row, NEW j \in Jtis
    PROVE  /\ [w EXCEPT !.current_jti = j] \in Row
           /\ [w EXCEPT !.revoked = TRUE] \in Row
  BY DEF Row

\* Rows stay rows when one is added, moved or revoked.
LEMMA RowsType ==
    ASSUME TypeOK, NEW r \in Requests, req[r].chain \in Chains, req[r].new \in Jtis
    PROVE  /\ Append(rows, RowFor(r)) \in Seq(Row)
           /\ \A i \in DOMAIN rows : MoveRow(r, i) \in Seq(Row)
<1>1. RowFor(r) \in Row
  BY DEF RowFor, Row
<1>2. ASSUME NEW i \in DOMAIN rows PROVE MoveRow(r, i) \in Seq(Row)
  <2>1. rows \in Seq(Row) /\ rows[i] \in Row
    BY DEF TypeOK
  <2> DEFINE w == [rows[i] EXCEPT !.current_jti = req[r].new]
  <2>2. w \in Row
    BY <2>1, RowUpdate
  <2>3. MoveRow(r, i) = [rows EXCEPT ![i] = w]
    BY DEF MoveRow
  <2> QED
    <3> HIDE DEF w
    <3> QED BY <2>1, <2>2, <2>3
<1> QED
  BY <1>1, <1>2 DEF TypeOK

LEMMA RevokeRowsType ==
    ASSUME TypeOK, NEW S, Jtis # {} PROVE RevokeRowsIn(S) \in Seq(Row)
<1> DEFINE w(i) == [rows[i] EXCEPT !.revoked = TRUE]
<1>1. rows \in Seq(Row)
  BY DEF TypeOK
<1>2. \A i \in DOMAIN rows : rows[i] \in Row
  BY <1>1
<1>3. \A i \in DOMAIN rows : w(i) \in Row
  BY <1>2, RowUpdate
<1>4. RevokeRowsIn(S) = [i \in DOMAIN rows |-> IF i \in S THEN w(i) ELSE rows[i]]
  BY DEF RevokeRowsIn
<1> HIDE DEF w
<1> QED
  BY <1>1, <1>2, <1>3, <1>4

\* Which requests can stand at a step.
LEMMA RequestShape ==
    ASSUME TypeOK, NEW r \in Requests
    PROVE  /\ req[r] \in Request
           /\ req[r].pc = "claim" => req[r] \in TokenRequest
           /\ req[r].op = "logout" => req[r] \in TokenRequest
           /\ req[r].pc \in {"mint", "bumpChain", "expireChain", "revokeRow"} =>
                req[r] \in TokenRequest \cup ChainRequest
           /\ req[r].pc \in {"count", "bumpAccount", "revokeRows"} =>
                req[r] \in ChainRequest \cup AccountRequest
  BY DEF TypeOK, Request, Idle, TokenRequest, ChainRequest, AccountRequest

\* Moving a request to another step of its kind.
LEMMA RequestUpdate ==
    /\ \A w \in TokenRequest, p \in {"mint", "expireChain", "revokeRow"} :
         [w EXCEPT !.pc = p] \in TokenRequest
    /\ \A w \in TokenRequest :
         [w EXCEPT !.op = "reuse", !.pc = "bumpChain"] \in TokenRequest
    /\ \A w \in ChainRequest, p \in {"mint", "bumpAccount", "revokeRows", "bumpChain",
                                     "expireChain", "revokeRow"} :
         [w EXCEPT !.pc = p] \in ChainRequest
    /\ \A w \in AccountRequest, p \in {"bumpAccount", "revokeRows"} :
         [w EXCEPT !.pc = p] \in AccountRequest
    /\ \A w \in TokenRequest, k \in {"access", "refresh"} :
         [w EXCEPT !.need = @ \ {k}] \in TokenRequest
    /\ \A w \in ChainRequest, k \in {"access", "refresh"} :
         [w EXCEPT !.need = @ \ {k}] \in ChainRequest
<1>1. /\ \A w \in TokenRequest, p \in {"mint", "expireChain", "revokeRow"} :
           [w EXCEPT !.pc = p] \in TokenRequest
      /\ \A w \in TokenRequest :
           [w EXCEPT !.op = "reuse", !.pc = "bumpChain"] \in TokenRequest
  BY DEF TokenRequest
<1>2. \A w \in TokenRequest, k \in {"access", "refresh"} :
        [w EXCEPT !.need = @ \ {k}] \in TokenRequest
  BY DEF TokenRequest
<1>3. /\ \A w \in ChainRequest, p \in {"mint", "bumpAccount", "revokeRows", "bumpChain",
                                       "expireChain", "revokeRow"} :
           [w EXCEPT !.pc = p] \in ChainRequest
      /\ \A w \in ChainRequest, k \in {"access", "refresh"} :
           [w EXCEPT !.need = @ \ {k}] \in ChainRequest
  BY DEF ChainRequest
<1>4. \A w \in AccountRequest, p \in {"bumpAccount", "revokeRows"} :
        [w EXCEPT !.pc = p] \in AccountRequest
  BY DEF AccountRequest
<1> QED
  BY <1>1, <1>2, <1>3, <1>4

\* A step that changes one request to a well-formed one keeps them all so.
LEMMA ReqUpdate ==
    ASSUME TypeOK, NEW r \in Requests, NEW w \in Request, req' = [req EXCEPT ![r] = w]
    PROVE  req' \in [Requests -> Request]
  BY DEF TypeOK

LEMMA FinishType ==
    ASSUME TypeOK, NEW r \in Requests, Finish(r)
    PROVE  req' \in [Requests -> Request]
  BY ReqUpdate DEF Finish, Request

LEMMA GotoType ==
    ASSUME TypeOK, NEW r \in Requests, NEW p, Goto(r, p),
           \/ req[r] \in TokenRequest /\ p \in {"mint", "expireChain", "revokeRow"}
           \/ req[r] \in ChainRequest
              /\ p \in {"mint", "bumpAccount", "revokeRows", "bumpChain",
                        "expireChain", "revokeRow"}
           \/ req[r] \in AccountRequest /\ p \in {"bumpAccount", "revokeRows"}
    PROVE  req' \in [Requests -> Request]
<1> DEFINE w == [req[r] EXCEPT !.pc = p]
<1>1. req' = [req EXCEPT ![r] = w]
  BY DEF Goto
<1>2. w \in Request
  BY RequestUpdate DEF Request
<1> HIDE DEF w
<1> QED
  BY <1>1, <1>2, ReqUpdate

\* What a mint adds is a token.
LEMMA MintType ==
    ASSUME TypeOK, NEW r \in Requests, req[r].pc = "mint",
           NEW type \in {"access", "refresh"}, NEW life \in Nat, Mint(r, type, life)
    PROVE  tokens' \subseteq Token
<1>1. req[r].chain \in Chains /\ req[r].new \in Jtis
  BY RequestShape DEF TokenRequest, ChainRequest
<1>2. Exp(life) \in Nat
  BY ExpBound
<1>3. Reads(accountVer) \subseteq Nat /\ Reads(get_chain_version(req[r].chain)) \subseteq Nat
  BY <1>1, VersionNat, ReadsNat DEF TypeOK
<1>4. PICK a \in Reads(accountVer), v \in Reads(get_chain_version(req[r].chain)) :
        tokens' = tokens \cup
            {[type |-> type, jti |-> req[r].new, chain |-> req[r].chain,
              account_ver |-> a, chain_ver |-> v, exp |-> Exp(life)]}
  BY DEF Mint
<1> QED
  BY <1>1, <1>2, <1>3, <1>4 DEF TypeOK, Token

\* Taking a token off what a request has to mint.
LEMMA NeedType ==
    ASSUME TypeOK, NEW r \in Requests, req[r].pc = "mint", NEW k \in {"access", "refresh"},
           req' = [req EXCEPT ![r].need = @ \ {k}]
    PROVE  req' \in [Requests -> Request]
<1> DEFINE w == [req[r] EXCEPT !.need = @ \ {k}]
<1>1. req' = [req EXCEPT ![r] = w]
  OBVIOUS
<1>2. w \in Request
  BY RequestShape, RequestUpdate DEF Request
<1> HIDE DEF w
<1> QED
  BY <1>1, <1>2, ReqUpdate

\* A write to the mirror, or its failure, leaves rows.
LEMMA RecordType ==
    ASSUME TypeOK, NEW r \in Requests,
           create_session(r) \/ rotate_session(r) \/ rotate_session_by_chain(r)
    PROVE  rows' \in Seq(Row) /\ req' \in [Requests -> Request]
<1>1. req[r].pc = "mint" /\ Finish(r)
  BY DEF create_session, rotate_session, rotate_session_by_chain, RecordStep
<1>2. req[r].chain \in Chains /\ req[r].new \in Jtis
  BY <1>1, RequestShape DEF TokenRequest, ChainRequest
<1>3. /\ rows \in Seq(Row)
      /\ Append(rows, RowFor(r)) \in Seq(Row)
      /\ \A i \in DOMAIN rows : MoveRow(r, i) \in Seq(Row)
  BY <1>2, RowsType DEF TypeOK
<1>4. \/ rows' = rows
      \/ rows' = Append(rows, RowFor(r))
      \/ \E i \in DOMAIN rows : rows' = MoveRow(r, i)
  BY DEF create_session, rotate_session, rotate_session_by_chain, Mirror,
         HoldingJti, ActiveOf
<1> QED
  BY <1>1, <1>3, <1>4, FinishType

\* The steps of requests keep every variable in its type.
LEMMA StepType ==
    ASSUME TypeOK, NEW r \in Requests, Step(r)
    PROVE  TypeOK'
<1>lives. AccessLife \in Nat /\ RefreshLife \in Nat /\ Second \in Nat
  BY ConstantsAssumption DEF ConstantsAssumption
<1>1. CASE create_access_token(r)
  <2>1. tokens' \subseteq Token
    BY <1>1, <1>lives, MintType DEF create_access_token
  <2>2. req' \in [Requests -> Request]
    BY <1>1, NeedType DEF create_access_token
  <2> QED
    BY <1>1, <2>1, <2>2 DEF create_access_token, TypeOK, redisVars, historyVars
<1>2. CASE create_refresh_token(r)
  <2>1. tokens' \subseteq Token
    BY <1>2, <1>lives, MintType DEF create_refresh_token
  <2>2. req' \in [Requests -> Request]
    BY <1>2, NeedType DEF create_refresh_token
  <2> QED
    BY <1>2, <2>1, <2>2 DEF create_refresh_token, TypeOK, redisVars, historyVars
<1>3. CASE create_session(r) \/ rotate_session(r) \/ rotate_session_by_chain(r)
  BY <1>3, RecordType DEF create_session, rotate_session, rotate_session_by_chain,
     RecordStep, TypeOK, redisVars, historyVars
<1>4. CASE claim_jti_for_rotation(r)
  <2>1. req[r] \in TokenRequest /\ req' \in [Requests -> Request]
    BY <1>4, RequestShape, GotoType DEF claim_jti_for_rotation
  <2>2. req[r].jti \in Jtis /\ req[r].new \in Jtis /\ req[r].exp \in Nat
    BY <2>1 DEF TokenRequest
  <2>3. clock + ClaimTTL(req[r].exp) \in Nat
    BY <2>2, ClaimTTLNat
  <2>4. claims' \in [Jtis -> Nat \cup {NotClaimed}]
    BY <1>4, <2>2, <2>3 DEF claim_jti_for_rotation, TypeOK
  <2>5. redeemed' \subseteq [jti : Jtis, by : Jtis, at : Nat, exp : Nat]
    BY <1>4, <2>2 DEF claim_jti_for_rotation, TypeOK
  <2> QED
    BY <1>4, <2>1, <2>4, <2>5 DEF claim_jti_for_rotation, TypeOK
<1>5. CASE handle_reuse_detected(r)
  <2> DEFINE w == [req[r] EXCEPT !.op = "reuse", !.pc = "bumpChain"]
  <2>1. req' = [req EXCEPT ![r] = w]
    BY <1>5 DEF handle_reuse_detected
  <2>2. w \in Request
    BY <1>5, RequestShape, RequestUpdate DEF handle_reuse_detected, Request
  <2>3. req' \in [Requests -> Request]
    <3> HIDE DEF w
    <3> QED BY <2>1, <2>2, ReqUpdate
  <2> QED
    BY <1>5, <2>3 DEF handle_reuse_detected, TypeOK, redisVars, historyVars
<1>6. CASE bump_chain_version(r)
  <2>1. req[r] \in TokenRequest \cup ChainRequest /\ req' \in [Requests -> Request]
    BY <1>6, RequestShape, GotoType DEF bump_chain_version
  <2>2. req[r].chain \in Chains
    BY <2>1 DEF TokenRequest, ChainRequest
  <2>3. get_chain_version(req[r].chain) \in Nat
    BY <2>2, VersionNat
  <2>4. chainVer' \in [Chains -> [ver : Nat, expireAt : Nat \cup {NoTTL}]]
    BY <1>6, <2>2, <2>3 DEF bump_chain_version, TypeOK
  <2>5. ended' \subseteq Chains /\ racers' \subseteq Chains
    BY <1>6, <2>2 DEF bump_chain_version, TypeOK
  <2> QED
    BY <1>6, <2>1, <2>4, <2>5 DEF bump_chain_version, TypeOK
<1>7. CASE expire_chain_version(r)
  <2>1. req[r] \in TokenRequest \cup ChainRequest
    BY <1>7, RequestShape DEF expire_chain_version
  <2>2. req' \in [Requests -> Request]
    BY <1>7, <2>1, GotoType, FinishType DEF expire_chain_version, AfterBump
  <2>3. clock + RefreshLife * Second \in Nat
    <3>1. RefreshLife * Second \in Nat
      BY <1>lives, ProductNat
    <3> QED BY <3>1 DEF TypeOK
  <2>4. chainVer' \in [Chains -> [ver : Nat, expireAt : Nat \cup {NoTTL}]]
    <3> DEFINE until == clock + RefreshLife * Second
    <3>1. until \in Nat
      BY <2>3
    <3>2. \E e \in {until, chainVer[req[r].chain].expireAt} :
            chainVer' = [chainVer EXCEPT ![req[r].chain].expireAt = e]
      BY <1>7 DEF expire_chain_version
    <3> HIDE DEF until
    <3>3. /\ chainVer \in [Chains -> [ver : Nat, expireAt : Nat \cup {NoTTL}]]
          /\ req[r].chain \in Chains
      BY <2>1 DEF TypeOK, TokenRequest, ChainRequest
    <3> QED
      BY <3>1, <3>2, <3>3
  <2> QED
    BY <1>7, <2>2, <2>4 DEF expire_chain_version, TypeOK, historyVars
<1>8. CASE bump_chain_version_fails(r)
  <2>1. req[r] \in TokenRequest \cup ChainRequest
    BY <1>8, RequestShape DEF bump_chain_version_fails
  <2>2. req' \in [Requests -> Request]
    BY <1>8, <2>1, GotoType, FinishType DEF bump_chain_version_fails, AfterBump
  <2> QED
    BY <1>8, <2>2 DEF bump_chain_version_fails, TypeOK, redisVars, historyVars
<1>9. CASE revoke_by_jti(r)
  <2>1. req[r] \in TokenRequest
    BY <1>9, RequestShape DEF revoke_by_jti
  <2>2. req[r].jti \in Jtis
    BY <2>1 DEF TokenRequest
  <2>3. rows' \in Seq(Row)
    BY <1>9, <2>2, RevokeRowsType DEF revoke_by_jti, Mirror, TypeOK
  <2>4. req' \in [Requests -> Request]
    BY <1>9, FinishType DEF revoke_by_jti
  <2> QED
    BY <1>9, <2>2, <2>3, <2>4 DEF revoke_by_jti, TypeOK, redisVars
<1>10. CASE revoke_chain(r)
  <2>1. req[r] \in TokenRequest \cup ChainRequest
    BY <1>10, RequestShape DEF revoke_chain
  <2>2. req[r].new \in Jtis
    BY <2>1 DEF TokenRequest, ChainRequest
  <2>3. rows' \in Seq(Row)
    BY <1>10, <2>2, RevokeRowsType DEF revoke_chain, Mirror, TypeOK
  <2>4. req' \in [Requests -> Request]
    BY <1>10, FinishType DEF revoke_chain
  <2> QED
    BY <1>10, <2>3, <2>4 DEF revoke_chain, TypeOK, redisVars, historyVars
<1>11. CASE revoke_one_session(r)
  <2>1. req[r].pc = "revokeRow" /\ req[r].op = "revoke_one"
    BY <1>11 DEF revoke_one_session
  <2>2. req[r] \in ChainRequest
    BY <2>1, RequestShape DEF TokenRequest
  <2>3. req[r].new \in Jtis
    BY <2>2 DEF ChainRequest
  <2>4. rows' \in Seq(Row)
    BY <1>11, <2>3, RevokeRowsType DEF revoke_one_session, TypeOK
  <2>5. req' \in [Requests -> Request]
    BY <1>11, <2>2, GotoType, FinishType DEF revoke_one_session
  <2> QED
    BY <1>11, <2>4, <2>5 DEF revoke_one_session, TypeOK, redisVars, historyVars
<1>12. CASE count_active_sessions(r)
  <2>1. req[r] \in ChainRequest \cup AccountRequest
    BY <1>12, RequestShape DEF count_active_sessions
  <2>2. req[r].op = "change_password" => req[r] \in ChainRequest
    BY <2>1 DEF AccountRequest
  <2>3. req' \in [Requests -> Request]
    BY <1>12, <2>1, <2>2, GotoType, FinishType DEF count_active_sessions, AfterRevokeAll
  <2> QED
    BY <1>12, <2>3 DEF count_active_sessions, TypeOK, redisVars, historyVars
<1>13. CASE bump_account_version(r)
  <2>1. req[r] \in ChainRequest \cup AccountRequest /\ req' \in [Requests -> Request]
    BY <1>13, RequestShape, GotoType DEF bump_account_version
  <2>2. \A q \in Requests : WillMint(q) => req[q].chain \in Chains
    BY RequestShape DEF WillMint, Request, Idle, TokenRequest, ChainRequest, AccountRequest
  <2>3. racers' \subseteq Chains
    BY <1>13, <2>2 DEF bump_account_version, InFlight, TypeOK
  <2>4. auth' \in [Chains -> Nat \cup {NotYet}] /\ accountVer' \in Nat
    <3>1. accountVer + 1 \in Nat /\ accountVer' = accountVer + 1
      BY <1>13 DEF bump_account_version, TypeOK
    <3>2. auth' = auth \/ auth' = [auth EXCEPT ![req[r].chain] = accountVer + 1]
      BY <1>13 DEF bump_account_version
    <3> QED BY <3>1, <3>2 DEF TypeOK
  <2> QED
    BY <1>13, <2>1, <2>3, <2>4 DEF bump_account_version, TypeOK
<1>14. CASE bump_account_version_fails(r)
  <2>1. req' \in [Requests -> Request]
    BY <1>14, RequestShape, GotoType DEF bump_account_version_fails
  <2> QED
    BY <1>14, <2>1 DEF bump_account_version_fails, TypeOK, redisVars, historyVars
<1>15. CASE revoke_all_sessions(r)
  <2>1. req[r] \in ChainRequest \cup AccountRequest
    BY <1>15, RequestShape DEF revoke_all_sessions
  <2>2. /\ req[r].op = "change_password" => req[r] \in ChainRequest
        /\ req[r].new \in Jtis
    BY <2>1 DEF AccountRequest, ChainRequest
  <2>3. req' \in [Requests -> Request]
    BY <1>15, <2>2, GotoType, FinishType DEF revoke_all_sessions, AfterRevokeAll
  <2>4. rows' \in Seq(Row)
    BY <1>15, <2>2, RevokeRowsType DEF revoke_all_sessions, Mirror, TypeOK
  <2> QED
    BY <1>15, <2>3, <2>4 DEF revoke_all_sessions, TypeOK, redisVars, historyVars
<1> QED
  BY <1>1, <1>2, <1>3, <1>4, <1>5, <1>6, <1>7, <1>8, <1>9, <1>10, <1>11, <1>12,
     <1>13, <1>14, <1>15 DEF Step

\* Starting a request keeps every variable in its type.
LEMMA StartType ==
    ASSUME TypeOK, NEW r \in Requests, Start(r)
    PROVE  TypeOK'
<1> DEFINE both == {"access", "refresh"}
<1>0. /\ Held \subseteq tokens
      /\ \A t \in tokens : t.jti \in Jtis /\ t.chain \in Chains /\ t.exp \in Nat
      /\ \A i \in DOMAIN rows : i \in Nat /\ rows[i].chain_id \in Chains
  <2>1. \A i \in DOMAIN rows : i \in Nat /\ rows[i] \in Row
    BY DEF TypeOK
  <2> QED BY <2>1 DEF Held, TypeOK, Token, Row
<1>1. CASE login(r)
  <2>1. PICK c \in Chains :
          /\ Begin(r, "login", "mint", c, NoJti, 0, 0, both)
          /\ auth' = [auth EXCEPT ![c] = accountVer]
          /\ UNCHANGED <<clock, redisVars, tokens, rows, ended, racers,
                         redeemed, loggedOut>>
    BY <1>1 DEF login
  <2>2. \A new \in Jtis, seen \in Nat :
          [op |-> "login", pc |-> "mint", chain |-> c, jti |-> NoJti, exp |-> 0,
           new |-> new, row |-> 0, need |-> both, seen |-> seen] \in Request
    BY DEF Request, ChainRequest
  <2>3. started' \in 0 .. MaxRequests /\ req' \in [Requests -> Request]
    BY <2>1, <2>2, BeginType
  <2>4. auth' \in [Chains -> Nat \cup {NotYet}]
    BY <2>1 DEF TypeOK
  <2> QED
    BY <2>1, <2>3, <2>4 DEF TypeOK, redisVars
<1>2. ASSUME NEW t \in Held, refresh_tokens(r, t) PROVE TypeOK'
  <2>1. \A new \in Jtis, seen \in Nat :
          [op |-> "refresh", pc |-> "claim", chain |-> t.chain, jti |-> t.jti,
           exp |-> t.exp, new |-> new, row |-> 0, need |-> both, seen |-> seen] \in Request
    BY <1>0 DEF Request, TokenRequest
  <2>2. started' \in 0 .. MaxRequests /\ req' \in [Requests -> Request]
    BY <1>2, <2>1, BeginType DEF refresh_tokens
  <2> QED
    BY <1>2, <2>2 DEF refresh_tokens, TypeOK, redisVars, historyVars
<1>3. ASSUME NEW t \in Held, logout(r, t) PROVE TypeOK'
  <2>1. PICK i \in HoldingJti(t.jti) :
          Begin(r, "logout", "bumpChain", rows[i].chain_id, t.jti, t.exp, i, {})
    BY <1>3 DEF logout
  <2>2. \A new \in Jtis, seen \in Nat :
          [op |-> "logout", pc |-> "bumpChain", chain |-> rows[i].chain_id, jti |-> t.jti,
           exp |-> t.exp, new |-> new, row |-> i, need |-> {}, seen |-> seen] \in Request
    BY <1>0 DEF HoldingJti, Request, TokenRequest
  <2>3. started' \in 0 .. MaxRequests /\ req' \in [Requests -> Request]
    BY <2>1, <2>2, BeginType
  <2> QED
    BY <1>3, <2>3 DEF logout, TypeOK, redisVars, historyVars
<1>4. ASSUME NEW t \in Held, logout_without_row(r, t) PROVE TypeOK'
  BY <1>0, <1>4 DEF logout_without_row, TypeOK, redisVars
<1>5. ASSUME NEW t \in Held, logout_all(r, t) \/ change_password_expired(r, t)
      PROVE  TypeOK'
  <2>1. \A new \in Jtis, seen \in Nat :
          [op |-> "logout_all", pc |-> "count", chain |-> NoChain, jti |-> NoJti,
           exp |-> 0, new |-> new, row |-> 0, need |-> {}, seen |-> seen] \in Request
    BY DEF Request, AccountRequest
  <2>2. started' \in 0 .. MaxRequests /\ req' \in [Requests -> Request]
    BY <1>5, <2>1, BeginType DEF logout_all, change_password_expired
  <2> QED
    BY <1>5, <2>2 DEF logout_all, change_password_expired, TypeOK, redisVars, historyVars
<1>6. ASSUME NEW t \in Held, change_password(r, t) PROVE TypeOK'
  <2>1. \A new \in Jtis, seen \in Nat :
          [op |-> "change_password", pc |-> "count", chain |-> t.chain, jti |-> NoJti,
           exp |-> 0, new |-> new, row |-> 0, need |-> both, seen |-> seen] \in Request
    BY <1>0 DEF Request, ChainRequest
  <2>2. started' \in 0 .. MaxRequests /\ req' \in [Requests -> Request]
    BY <1>6, <2>1, BeginType DEF change_password
  <2> QED
    BY <1>6, <2>2 DEF change_password, TypeOK, redisVars, historyVars
<1>7. ASSUME NEW a \in Held, NEW i \in DOMAIN rows, NEW own, revoke_session(r, a, own, i)
      PROVE  TypeOK'
  <2>1. \A new \in Jtis, seen \in Nat :
          [op |-> "revoke_one", pc |-> "revokeRow", chain |-> rows[i].chain_id,
           jti |-> NoJti, exp |-> 0, new |-> new, row |-> i, need |-> {},
           seen |-> seen] \in Request
    BY <1>0 DEF Request, ChainRequest
  <2>2. started' \in 0 .. MaxRequests /\ req' \in [Requests -> Request]
    BY <1>7, <2>1, BeginType DEF revoke_session
  <2> QED
    BY <1>7, <2>2 DEF revoke_session, TypeOK, redisVars, historyVars
<1> QED
  BY <1>1, <1>2, <1>3, <1>4, <1>5, <1>6, <1>7 DEF Start

\* So do the clock, a crash and a Redis restart.
LEMMA NextType ==
    ASSUME TypeOK, [Next]_vars
    PROVE  TypeOK'
<1>1. ASSUME NEW r \in Requests, Crash(r) PROVE TypeOK'
  BY <1>1, FinishType DEF Crash, TypeOK, redisVars, historyVars
<1>2. CASE Tick
  BY <1>2 DEF Tick, TypeOK, redisVars, historyVars
<1>3. CASE FlushRedis
  BY <1>3 DEF FlushRedis, TypeOK, historyVars
<1>4. CASE UNCHANGED vars
  BY <1>4 DEF vars, TypeOK, redisVars, historyVars
<1> QED
  BY <1>1, <1>2, <1>3, <1>4, StepType, StartType DEF Next

\* Every variable keeps its type in every behaviour, whatever faults occur.
THEOREM TypeCorrect == Spec => []TypeOK
<1>1. Init => TypeOK
  BY ConstantsAssumption
     DEF Init, TypeOK, Request, NoTTL, NotClaimed, NotYet, ConstantsAssumption
<1>2. TypeOK /\ [Next]_vars => TypeOK'
  BY NextType
<1> QED
  BY <1>1, <1>2, PTL DEF Spec

-----------------------------------------------------------------------------
(* Revocation.  Redis is assumed to answer and to keep its data; requests   *)
(* may still crash and the database may still fail.                         *)

RedisReliable == "redis" \notin Faults /\ "flush" \notin Faults

\* How the ways of changing a request look to the invariant.
LEMMA GotoFacts ==
    ASSUME TypeOK, NEW r \in Requests, NEW p, Goto(r, p)
    PROVE  /\ \A q \in Requests : q # r => req'[q] = req[q]
           /\ req'[r].pc = p /\ req'[r].op = req[r].op /\ req'[r].chain = req[r].chain
<1>1. req[r] \in Request
  BY DEF TypeOK
<1>2. /\ [req[r] EXCEPT !.pc = p].pc = p
      /\ [req[r] EXCEPT !.pc = p].op = req[r].op
      /\ [req[r] EXCEPT !.pc = p].chain = req[r].chain
  BY <1>1 DEF Request, Idle, TokenRequest, ChainRequest, AccountRequest
<1>3. req' = [req EXCEPT ![r] = [req[r] EXCEPT !.pc = p]]
  BY DEF Goto
<1> QED
  BY <1>2, <1>3 DEF TypeOK

LEMMA FinishFacts ==
    ASSUME TypeOK, NEW r \in Requests, Finish(r)
    PROVE  /\ \A q \in Requests : q # r => req'[q] = req[q]
           /\ req'[r].pc = "idle" /\ req'[r].op = "none" /\ req'[r].chain = NoChain
  BY DEF TypeOK, Finish, Idle

LEMMA BeginFacts ==
    ASSUME TypeOK, NEW r \in Requests, NEW op, NEW pc, NEW chain, NEW jti,
           NEW exp, NEW row, NEW need, Begin(r, op, pc, chain, jti, exp, row, need)
    PROVE  /\ \A q \in Requests : q # r => req'[q] = req[q]
           /\ req'[r].pc = pc /\ req'[r].op = op /\ req'[r].chain = chain
  BY DEF TypeOK, Begin

LEMMA NeedFacts ==
    ASSUME TypeOK, NEW r \in Requests, NEW k, req' = [req EXCEPT ![r].need = @ \ {k}]
    PROVE  /\ \A q \in Requests : q # r => req'[q] = req[q]
           /\ req'[r].pc = req[r].pc /\ req'[r].op = req[r].op
           /\ req'[r].chain = req[r].chain
<1> DEFINE w == [req[r] EXCEPT !.need = @ \ {k}]
<1>1. req[r] \in Request
  BY DEF TypeOK
<1>2. w.pc = req[r].pc /\ w.op = req[r].op /\ w.chain = req[r].chain
  BY <1>1 DEF Request, Idle, TokenRequest, ChainRequest, AccountRequest
<1>3. req' = [req EXCEPT ![r] = w]
  OBVIOUS
<1> HIDE DEF w
<1> QED
  BY <1>2, <1>3 DEF TypeOK

\* A retired token is not valid.
LEMMA RetiredIsDead ==
    ASSUME TypeOK, NEW t \in tokens, Retired(t) PROVE ~Live(t)
<1>1. t \in Token /\ t.chain \in Chains /\ t.exp \in Nat /\ clock \in Nat
      /\ t.account_ver \in Nat /\ t.chain_ver \in Nat /\ accountVer \in Nat
  BY DEF TypeOK, Token
<1>2. chainVer[t.chain].ver \in Nat /\ chainVer[t.chain].expireAt \in Nat \cup {NoTTL}
  BY <1>1 DEF TypeOK
<1> QED
  BY <1>1, <1>2 DEF Retired, Live, Decodes, get_chain_version, KeyLives, NoTTL

\* With Redis answering, the checks of the code are exact.
LEMMA CheckIsExact ==
    ASSUME RedisReliable, NEW t, Decodes(t), is_current_version(t) PROVE Live(t)
  BY DEF RedisReliable, is_current_version, Reads, Live

\* Every handler only goes to steps of its own.
LEMMA StepsMatchNext ==
    ASSUME TypeOK, StepsMatchHandlers, [Next]_vars
    PROVE  StepsMatchHandlers'
<1> USE DEF StepsMatchHandlers, WillMint
<1>1. ASSUME NEW r \in Requests, Step(r) PROVE StepsMatchHandlers'
  <2>1. CASE create_access_token(r) \/ create_refresh_token(r)
    BY <2>1, NeedFacts DEF create_access_token, create_refresh_token
  <2>2. CASE create_session(r) \/ rotate_session(r) \/ rotate_session_by_chain(r)
    BY <2>2, FinishFacts
       DEF create_session, rotate_session, rotate_session_by_chain, RecordStep
  <2>3. CASE claim_jti_for_rotation(r)
    BY <2>3, GotoFacts DEF claim_jti_for_rotation
  <2>4. CASE handle_reuse_detected(r)
    <3> DEFINE w == [req[r] EXCEPT !.op = "reuse", !.pc = "bumpChain"]
    <3>1. req[r] \in TokenRequest
      BY <2>4, RequestShape DEF handle_reuse_detected
    <3>2. w.op = "reuse" /\ w.pc = "bumpChain"
      BY <3>1 DEF TokenRequest
    <3>3. req' = [req EXCEPT ![r] = w]
      BY <2>4 DEF handle_reuse_detected
    <3> HIDE DEF w
    <3> QED BY <3>2, <3>3 DEF TypeOK
  <2>5. CASE bump_chain_version(r)
    BY <2>5, GotoFacts DEF bump_chain_version
  <2>6. CASE expire_chain_version(r)
    BY <2>6, GotoFacts, FinishFacts DEF expire_chain_version, AfterBump
  <2>7. CASE bump_chain_version_fails(r)
    BY <2>7, GotoFacts, FinishFacts DEF bump_chain_version_fails, AfterBump
  <2>8. CASE revoke_by_jti(r) \/ revoke_chain(r)
    BY <2>8, FinishFacts DEF revoke_by_jti, revoke_chain
  <2>9. CASE revoke_one_session(r)
    BY <2>9, GotoFacts, FinishFacts DEF revoke_one_session
  <2>10. CASE count_active_sessions(r)
    BY <2>10, GotoFacts, FinishFacts DEF count_active_sessions, AfterRevokeAll
  <2>11. CASE bump_account_version(r)
    BY <2>11, GotoFacts DEF bump_account_version
  <2>12. CASE bump_account_version_fails(r)
    BY <2>12, GotoFacts DEF bump_account_version_fails
  <2>13. CASE revoke_all_sessions(r)
    BY <2>13, GotoFacts, FinishFacts DEF revoke_all_sessions, AfterRevokeAll
  <2> QED
    BY <1>1, <2>1, <2>2, <2>3, <2>4, <2>5, <2>6, <2>7, <2>8, <2>9, <2>10, <2>11,
       <2>12, <2>13 DEF Step
<1>2. ASSUME NEW r \in Requests, Start(r) PROVE StepsMatchHandlers'
  <2>1. CASE login(r)
    BY <2>1, BeginFacts DEF login
  <2>2. ASSUME NEW t \in Held, refresh_tokens(r, t) PROVE StepsMatchHandlers'
    BY <2>2, BeginFacts DEF refresh_tokens
  <2>3. ASSUME NEW t \in Held, logout(r, t) PROVE StepsMatchHandlers'
    BY <2>3, BeginFacts DEF logout
  <2>4. ASSUME NEW t \in Held, logout_without_row(r, t) PROVE StepsMatchHandlers'
    BY <2>4 DEF logout_without_row
  <2>5. ASSUME NEW t \in Held, logout_all(r, t) \/ change_password_expired(r, t)
        PROVE  StepsMatchHandlers'
    BY <2>5, BeginFacts DEF logout_all, change_password_expired
  <2>6. ASSUME NEW t \in Held, change_password(r, t) PROVE StepsMatchHandlers'
    BY <2>6, BeginFacts DEF change_password
  <2>7. ASSUME NEW a \in Held, NEW i \in DOMAIN rows, NEW own, revoke_session(r, a, own, i)
        PROVE  StepsMatchHandlers'
    BY <2>7, BeginFacts DEF revoke_session
  <2> QED
    BY <1>2, <2>1, <2>2, <2>3, <2>4, <2>5, <2>6, <2>7 DEF Start
<1>3. ASSUME NEW r \in Requests, Crash(r) PROVE StepsMatchHandlers'
  BY <1>3, FinishFacts DEF Crash
<1>4. CASE Tick \/ FlushRedis \/ UNCHANGED vars
  BY <1>4 DEF Tick, FlushRedis, vars
<1> QED
  BY <1>1, <1>2, <1>3, <1>4 DEF Next

\* What a step does to the state that decides which tokens are valid: all
\* steps but these leave it alone.
Minting(r) ==
    /\ req[r].pc = "mint"
    /\ \E type \in {"access", "refresh"}, life \in {AccessLife, RefreshLife} :
         Mint(r, type, life)
    /\ UNCHANGED <<clock, accountVer, chainVer, auth, ended, racers>>

CoreUnchanged == UNCHANGED <<clock, accountVer, chainVer, tokens, auth, ended, racers>>

LEMMA StepKinds ==
    ASSUME RedisReliable, [Next]_vars
    PROVE  \/ CoreUnchanged
           \/ Tick
           \/ \E r \in Requests : \/ Minting(r)
                                  \/ login(r)
                                  \/ bump_chain_version(r)
                                  \/ expire_chain_version(r)
                                  \/ bump_account_version(r)
                                  \/ Crash(r)
<1>1. ASSUME NEW r \in Requests, Step(r)
      PROVE  CoreUnchanged \/ Minting(r) \/ bump_chain_version(r)
             \/ expire_chain_version(r) \/ bump_account_version(r)
  <2>1. CASE create_access_token(r) \/ create_refresh_token(r)
    BY <2>1 DEF create_access_token, create_refresh_token, Minting, redisVars, historyVars
  <2>2. CASE create_session(r) \/ rotate_session(r) \/ rotate_session_by_chain(r)
    BY <2>2 DEF create_session, rotate_session, rotate_session_by_chain, RecordStep,
                CoreUnchanged, redisVars, historyVars
  <2>3. CASE claim_jti_for_rotation(r) \/ handle_reuse_detected(r)
    BY <2>3 DEF claim_jti_for_rotation, handle_reuse_detected, CoreUnchanged,
                redisVars, historyVars
  <2>4. CASE revoke_by_jti(r) \/ revoke_chain(r) \/ revoke_one_session(r)
             \/ count_active_sessions(r) \/ revoke_all_sessions(r)
    BY <2>4 DEF revoke_by_jti, revoke_chain, revoke_one_session, count_active_sessions,
                revoke_all_sessions, CoreUnchanged, redisVars, historyVars
  <2>5. ~bump_chain_version_fails(r) /\ ~bump_account_version_fails(r)
    BY DEF RedisReliable, bump_chain_version_fails, bump_account_version_fails
  <2> QED
    BY <1>1, <2>1, <2>2, <2>3, <2>4, <2>5 DEF Step
<1>2. ASSUME NEW r \in Requests, Start(r) PROVE CoreUnchanged \/ login(r)
  <2>1. ASSUME NEW t \in Held,
               refresh_tokens(r, t) \/ logout(r, t) \/ logout_without_row(r, t)
               \/ logout_all(r, t) \/ change_password_expired(r, t) \/ change_password(r, t)
        PROVE  CoreUnchanged
    BY <2>1 DEF refresh_tokens, logout, logout_without_row, logout_all,
                change_password_expired, change_password,
                CoreUnchanged, redisVars, historyVars
  <2>2. ASSUME NEW a \in Held, NEW i \in DOMAIN rows, NEW own, revoke_session(r, a, own, i)
        PROVE  CoreUnchanged
    BY <2>2 DEF revoke_session, CoreUnchanged, redisVars, historyVars
  <2> QED
    BY <1>2, <2>1, <2>2 DEF Start
<1>3. ~FlushRedis
  BY DEF RedisReliable, FlushRedis
<1>4. UNCHANGED vars => CoreUnchanged
  BY DEF vars, CoreUnchanged, redisVars, historyVars
<1> QED
  BY <1>1, <1>2, <1>3, <1>4 DEF Next

\* Once retired, a token stays retired: nothing revives it.
LEMMA RetiredForever ==
    ASSUME RedisReliable, TypeOK, VersionsBound, [Next]_vars, NEW t \in tokens, Retired(t)
    PROVE  Retired(t)'
<1> DEFINE c == t.chain
<1>1. /\ t.exp \in Nat /\ clock \in Nat /\ t.chain \in Chains
      /\ t.account_ver \in Nat /\ t.chain_ver \in Nat /\ accountVer \in Nat
      /\ t.exp <= clock + RefreshLife * Second
  BY DEF TypeOK, Token, VersionsBound
<1>2. chainVer[c].ver \in Nat /\ chainVer[c].expireAt \in Nat \cup {NoTTL}
  BY <1>1 DEF TypeOK
<1>3. CASE CoreUnchanged
  BY <1>3 DEF CoreUnchanged, Retired
<1>4. CASE Tick
  BY <1>1, <1>4 DEF Tick, Retired, redisVars
<1>5. ASSUME NEW r \in Requests, Minting(r) \/ login(r) \/ Crash(r) PROVE Retired(t)'
  BY <1>5 DEF Minting, login, Crash, Retired, redisVars
<1>6. ASSUME NEW r \in Requests, bump_account_version(r) PROVE Retired(t)'
  BY <1>1, <1>6 DEF bump_account_version, Retired
<1>7. ASSUME NEW r \in Requests, bump_chain_version(r) PROVE Retired(t)'
  <2>1. CASE req[r].chain # c
    BY <1>1, <1>7, <2>1 DEF bump_chain_version, Retired, TypeOK
  <2>2. CASE req[r].chain = c
    <3>1. chainVer'[c] = [ver |-> get_chain_version(c) + 1,
                          expireAt |-> IF KeyLives(c) THEN chainVer[c].expireAt ELSE NoTTL]
      BY <1>1, <1>7, <2>2 DEF bump_chain_version, TypeOK
    <3>2. clock' = clock /\ accountVer' = accountVer
      BY <1>7 DEF bump_chain_version
    <3> QED
      BY <1>1, <1>2, <3>1, <3>2 DEF Retired, get_chain_version, KeyLives, NoTTL
  <2> QED
    BY <2>1, <2>2
<1>8. ASSUME NEW r \in Requests, expire_chain_version(r) PROVE Retired(t)'
  <2> DEFINE e == clock + RefreshLife * Second
  <2>1. clock' = clock /\ accountVer' = accountVer
    BY <1>8 DEF expire_chain_version
  <2>2. chainVer'[c].ver = chainVer[c].ver
        /\ chainVer'[c].expireAt \in {chainVer[c].expireAt, e}
    BY <1>1, <1>8 DEF expire_chain_version, TypeOK
  <2>3. t.exp <= e
    BY <1>1
  <2> HIDE DEF e
  <2> QED
    BY <1>1, <1>2, <2>1, <2>2, <2>3 DEF Retired
<1> QED
  BY <1>3, <1>4, <1>5, <1>6, <1>7, <1>8, StepKinds

\* How a step changes a request: it stays with its chain, it ends or starts
\* without a right to mint, it is a login, or it starts on a current token.
LEMMA RequestChanges ==
    ASSUME TypeOK, StepsMatchHandlers, [Next]_vars, NEW q \in Requests
    PROVE  \/ /\ req'[q].chain = req[q].chain
              /\ WillMint(q)' => WillMint(q)
              /\ req'[q].pc = "expireChain" =>
                   req[q].pc = "expireChain" \/ bump_chain_version(q)
           \/ /\ ~WillMint(q)'
              /\ req'[q].pc # "expireChain"
              /\ \/ req'[q].chain = NoChain
                 \/ \E i \in DOMAIN rows : req'[q].chain = rows[i].chain_id
           \/ login(q) /\ req'[q].pc = "mint"
           \/ \E t \in tokens : /\ req'[q].chain = t.chain
                                /\ Decodes(t) /\ is_current_version(t)
                                /\ req'[q].pc # "expireChain"
                                /\ CoreUnchanged
<1> DEFINE Goal == \/ /\ req'[q].chain = req[q].chain
                      /\ WillMint(q)' => WillMint(q)
                      /\ req'[q].pc = "expireChain" =>
                           req[q].pc = "expireChain" \/ bump_chain_version(q)
                   \/ /\ ~WillMint(q)'
                      /\ req'[q].pc # "expireChain"
                      /\ \/ req'[q].chain = NoChain
                         \/ \E i \in DOMAIN rows : req'[q].chain = rows[i].chain_id
                   \/ login(q) /\ req'[q].pc = "mint"
                   \/ \E t \in tokens : /\ req'[q].chain = t.chain
                                        /\ Decodes(t) /\ is_current_version(t)
                                        /\ req'[q].pc # "expireChain"
                                        /\ CoreUnchanged
<1>0. req'[q] = req[q] => Goal
  BY DEF WillMint
<1>a. ASSUME NEW p, Goto(q, p), p # "expireChain" PROVE Goal
  BY <1>a, GotoFacts DEF WillMint
<1>b. Finish(q) => Goal
  BY FinishFacts DEF WillMint
<1>1. ASSUME NEW r \in Requests, Step(r) PROVE Goal
  <2>1. CASE create_access_token(r) \/ create_refresh_token(r)
    BY <1>0, <2>1, NeedFacts DEF create_access_token, create_refresh_token, WillMint
  <2>2. CASE \/ create_session(r) \/ rotate_session(r) \/ rotate_session_by_chain(r)
             \/ revoke_by_jti(r) \/ revoke_chain(r)
    BY <1>0, <1>b, <2>2, FinishFacts
       DEF create_session, rotate_session, rotate_session_by_chain, RecordStep,
           revoke_by_jti, revoke_chain
  <2>3. CASE claim_jti_for_rotation(r)
    BY <1>0, <1>a, <2>3, GotoFacts DEF claim_jti_for_rotation
  <2>4. CASE handle_reuse_detected(r)
    <3> DEFINE w == [req[r] EXCEPT !.op = "reuse", !.pc = "bumpChain"]
    <3>1. req[r] \in TokenRequest
      BY <2>4, RequestShape DEF handle_reuse_detected
    <3>2. w.op = "reuse" /\ w.pc = "bumpChain" /\ w.chain = req[r].chain
      BY <3>1 DEF TokenRequest
    <3>3. req' = [req EXCEPT ![r] = w]
      BY <2>4 DEF handle_reuse_detected
    <3> HIDE DEF w
    <3> QED BY <1>0, <3>2, <3>3 DEF TypeOK, WillMint
  <2>5. CASE bump_chain_version(r)
    <3>1. Goto(r, "expireChain")
      BY <2>5 DEF bump_chain_version
    <3> QED BY <1>0, <2>5, <3>1, GotoFacts DEF WillMint
  <2>6. CASE expire_chain_version(r) \/ bump_chain_version_fails(r)
    BY <1>0, <1>a, <1>b, <2>6, GotoFacts, FinishFacts
       DEF expire_chain_version, bump_chain_version_fails, AfterBump
  <2>7. CASE revoke_one_session(r)
    BY <1>0, <1>a, <1>b, <2>7, GotoFacts, FinishFacts DEF revoke_one_session
  <2>8. CASE count_active_sessions(r) \/ revoke_all_sessions(r)
    BY <1>0, <1>a, <1>b, <2>8, GotoFacts, FinishFacts
       DEF count_active_sessions, revoke_all_sessions, AfterRevokeAll
  <2>9. CASE bump_account_version(r) \/ bump_account_version_fails(r)
    BY <1>0, <1>a, <2>9, GotoFacts DEF bump_account_version, bump_account_version_fails
  <2> QED
    BY <1>1, <2>1, <2>2, <2>3, <2>4, <2>5, <2>6, <2>7, <2>8, <2>9 DEF Step
<1>2. ASSUME NEW r \in Requests, Start(r) PROVE Goal
  <2>0. Held \subseteq tokens
    BY DEF Held
  <2>1. CASE login(r)
    <3>1. \E c : Begin(r, "login", "mint", c, NoJti, 0, 0, {"access", "refresh"})
      BY <2>1 DEF login
    <3>2. req'[r].pc = "mint" /\ \A p \in Requests : p # r => req'[p] = req[p]
      BY <3>1, BeginFacts
    <3> QED BY <1>0, <2>1, <3>2
  <2>2. ASSUME NEW t \in Held, refresh_tokens(r, t) PROVE Goal
    BY <1>0, <2>0, <2>2, BeginFacts
       DEF refresh_tokens, CoreUnchanged, redisVars, historyVars
  <2>3. ASSUME NEW t \in Held, logout(r, t) PROVE Goal
    BY <1>0, <2>3, BeginFacts DEF logout, HoldingJti, WillMint
  <2>4. ASSUME NEW t \in Held, logout_without_row(r, t) PROVE Goal
    BY <1>0, <2>4 DEF logout_without_row
  <2>5. ASSUME NEW t \in Held, logout_all(r, t) \/ change_password_expired(r, t)
        PROVE  Goal
    BY <1>0, <2>5, BeginFacts DEF logout_all, change_password_expired, WillMint
  <2>6. ASSUME NEW t \in Held, change_password(r, t) PROVE Goal
    BY <1>0, <2>0, <2>6, BeginFacts
       DEF change_password, verify_access, CoreUnchanged, redisVars, historyVars
  <2>7. ASSUME NEW a \in Held, NEW i \in DOMAIN rows, NEW own, revoke_session(r, a, own, i)
        PROVE  Goal
    BY <1>0, <2>7, BeginFacts DEF revoke_session, WillMint
  <2> QED
    BY <1>2, <2>1, <2>2, <2>3, <2>4, <2>5, <2>6, <2>7 DEF Start
<1>3. ASSUME NEW r \in Requests, Crash(r) PROVE Goal
  BY <1>0, <1>3, FinishFacts DEF Crash, WillMint
<1>4. CASE Tick \/ FlushRedis \/ UNCHANGED vars
  BY <1>0, <1>4 DEF Tick, FlushRedis, vars
<1> QED
  BY <1>1, <1>2, <1>3, <1>4 DEF Next

\* A minted token carries the versions of the moment.
LEMMA MintedToken ==
    ASSUME RedisReliable, AccessLife <= RefreshLife, TypeOK, NEW r \in Requests, Minting(r)
    PROVE  \E t \in Token :
             /\ tokens' = tokens \cup {t}
             /\ t.chain = req[r].chain
             /\ t.account_ver = accountVer
             /\ t.chain_ver = get_chain_version(t.chain)
             /\ t.exp <= clock + RefreshLife * Second
<1>1. PICK type \in {"access", "refresh"}, life \in {AccessLife, RefreshLife} :
        Mint(r, type, life)
  BY DEF Minting
<1> DEFINE t == [type |-> type, jti |-> req[r].new, chain |-> req[r].chain,
                 account_ver |-> accountVer,
                 chain_ver |-> get_chain_version(req[r].chain), exp |-> Exp(life)]
<1>2. tokens' = tokens \cup {t}
  BY <1>1 DEF Mint, Reads, RedisReliable
<1>3. req[r].chain \in Chains /\ req[r].new \in Jtis
  BY RequestShape DEF Minting, TokenRequest, ChainRequest
<1>4. life \in Nat /\ life <= RefreshLife /\ RefreshLife \in Nat /\ Second \in Nat
      /\ clock \in Nat
  BY ConstantsAssumption DEF ConstantsAssumption, TypeOK
<1>5. Exp(life) \in Nat /\ Exp(life) <= clock + life * Second
  BY <1>4, ExpBound
<1>6. life * Second <= RefreshLife * Second /\ life * Second \in Nat
      /\ RefreshLife * Second \in Nat
  BY <1>4, ProductNat
<1>7. Exp(life) <= clock + RefreshLife * Second
  BY <1>4, <1>5, <1>6
<1>8. t \in Token
  BY <1>3, <1>5, VersionNat DEF Token, TypeOK
<1> QED
  BY <1>2, <1>7, <1>8

\* Tokens never run ahead of the versions, and only an ended chain has any.
LEMMA VersionsBoundNext ==
    ASSUME RedisReliable, AccessLife <= RefreshLife, TypeOK, BumpedChainsEnded,
           VersionsBound, [Next]_vars
    PROVE  VersionsBound'
<1>0. /\ \A t \in tokens : t.account_ver \in Nat /\ t.chain \in Chains /\ t.exp \in Nat
      /\ accountVer \in Nat /\ clock \in Nat
      /\ RefreshLife * Second \in Nat
  BY ConstantsAssumption, ProductNat DEF TypeOK, Token, ConstantsAssumption
<1>1. CASE CoreUnchanged
  BY <1>1 DEF CoreUnchanged, VersionsBound
<1>2. CASE Tick
  BY <1>0, <1>2 DEF Tick, VersionsBound, redisVars, historyVars
<1>3. ASSUME NEW r \in Requests, Minting(r) PROVE VersionsBound'
  <2>1. PICK t \in Token :
             /\ tokens' = tokens \cup {t}
             /\ t.chain = req[r].chain
             /\ t.account_ver = accountVer
             /\ t.chain_ver = get_chain_version(t.chain)
             /\ t.exp <= clock + RefreshLife * Second
    BY <1>3, MintedToken
  <2>2. t.chain \in Chains /\ t.account_ver <= accountVer
    BY <1>0, <2>1 DEF Token
  <2>3. t.chain \notin ended => t.chain_ver = 0
    BY <2>1, <2>2 DEF VersionsBound, get_chain_version
  <2> QED
    BY <1>3, <2>1, <2>2, <2>3 DEF Minting, VersionsBound
<1>4. ASSUME NEW r \in Requests, login(r) PROVE VersionsBound'
  BY <1>4 DEF login, VersionsBound, redisVars
<1>5. ASSUME NEW r \in Requests, Crash(r) PROVE VersionsBound'
  BY <1>5 DEF Crash, VersionsBound, redisVars, historyVars
<1>6. ASSUME NEW r \in Requests, bump_account_version(r) PROVE VersionsBound'
  BY <1>0, <1>6 DEF bump_account_version, VersionsBound
<1>7. ASSUME NEW r \in Requests, bump_chain_version(r) PROVE VersionsBound'
  BY <1>7 DEF bump_chain_version, VersionsBound, TypeOK
<1>8. ASSUME NEW r \in Requests, expire_chain_version(r) PROVE VersionsBound'
  BY <1>8 DEF expire_chain_version, BumpedChainsEnded, VersionsBound, TypeOK, historyVars
<1> QED
  BY <1>1, <1>2, <1>3, <1>4, <1>5, <1>6, <1>7, <1>8, StepKinds

\* A chain whose key awaits its EXPIRE has been ended.
LEMMA BumpedChainsNext ==
    ASSUME RedisReliable, TypeOK, StepsMatchHandlers, BumpedChainsEnded, [Next]_vars
    PROVE  BumpedChainsEnded'
<1>1. ended \subseteq ended'
  <2>1. CASE CoreUnchanged
    BY <2>1 DEF CoreUnchanged
  <2>2. CASE Tick
    BY <2>2 DEF Tick, historyVars
  <2>3. ASSUME NEW r \in Requests,
               \/ Minting(r) \/ login(r) \/ Crash(r) \/ bump_chain_version(r)
               \/ expire_chain_version(r) \/ bump_account_version(r)
        PROVE  ended \subseteq ended'
    BY <2>3 DEF Minting, login, Crash, bump_chain_version, expire_chain_version,
                bump_account_version, historyVars
  <2> QED BY <2>1, <2>2, <2>3, StepKinds
<1>2. ASSUME NEW q \in Requests, req'[q].pc = "expireChain" PROVE req'[q].chain \in ended'
  <2>1. /\ req'[q].chain = req[q].chain
        /\ req[q].pc = "expireChain" \/ bump_chain_version(q)
    BY <1>2, RequestChanges
  <2>2. bump_chain_version(q) => req[q].chain \in ended'
    BY DEF bump_chain_version
  <2> QED
    BY <1>1, <2>1, <2>2 DEF BumpedChainsEnded
<1> QED
  BY <1>2 DEF BumpedChainsEnded

\* Proven credentials are not forgotten.
LEMMA AuthKept ==
    ASSUME RedisReliable, TypeOK, [Next]_vars, NEW c \in Chains, auth[c] # NotYet
    PROVE  auth'[c] # NotYet
<1>0. accountVer \in Nat /\ NotYet \notin Nat
  BY DEF TypeOK, NotYet
<1>1. CASE CoreUnchanged
  BY <1>1 DEF CoreUnchanged
<1>2. CASE Tick
  BY <1>2 DEF Tick, historyVars
<1>3. ASSUME NEW r \in Requests,
             Minting(r) \/ Crash(r) \/ bump_chain_version(r) \/ expire_chain_version(r)
      PROVE  auth'[c] # NotYet
  BY <1>3 DEF Minting, Crash, bump_chain_version, expire_chain_version, historyVars
<1>4. ASSUME NEW r \in Requests, login(r) \/ bump_account_version(r) PROVE auth'[c] # NotYet
  BY <1>0, <1>4 DEF login, bump_account_version, TypeOK
<1> QED
  BY <1>1, <1>2, <1>3, <1>4, StepKinds

\* The chains that rows are about come from rows before or from a request.
LEMMA RowChains ==
    ASSUME TypeOK, [Next]_vars, NEW i \in DOMAIN rows'
    PROVE  \/ i \in DOMAIN rows /\ rows'[i].chain_id = rows[i].chain_id
           \/ \E r \in Requests : req[r].chain \in Chains /\ rows'[i].chain_id = req[r].chain
<1> DEFINE Goal == \/ i \in DOMAIN rows /\ rows'[i].chain_id = rows[i].chain_id
                   \/ \E r \in Requests : /\ req[r].chain \in Chains
                                           /\ rows'[i].chain_id = req[r].chain
<1>0. UNCHANGED rows => Goal
  OBVIOUS
<1>1. ASSUME NEW S, rows' = RevokeRowsIn(S) PROVE Goal
  <2>1. DOMAIN rows' = DOMAIN rows
    BY <1>1 DEF RevokeRowsIn
  <2>2. rows[i] \in Row
    BY <2>1 DEF TypeOK
  <2>3. [rows[i] EXCEPT !.revoked = TRUE].chain_id = rows[i].chain_id
    BY <2>2 DEF Row
  <2> QED
    BY <1>1, <2>1, <2>3 DEF RevokeRowsIn
<1>2. ASSUME NEW r \in Requests,
             create_session(r) \/ rotate_session(r) \/ rotate_session_by_chain(r)
      PROVE  Goal
  <2>1. req[r].pc = "mint"
    BY <1>2 DEF create_session, rotate_session, rotate_session_by_chain, RecordStep
  <2>2. req[r].chain \in Chains
    BY <2>1, RequestShape DEF TokenRequest, ChainRequest
  <2>3. \/ rows' = rows
        \/ rows' = Append(rows, RowFor(r))
        \/ \E j \in DOMAIN rows : rows' = MoveRow(r, j)
    BY <1>2 DEF create_session, rotate_session, rotate_session_by_chain, Mirror,
                HoldingJti, ActiveOf
  <2>4. CASE rows' = Append(rows, RowFor(r))
    <3>1. rows \in Seq(Row) /\ RowFor(r).chain_id = req[r].chain
      BY DEF TypeOK, RowFor
    <3>2. \/ i \in DOMAIN rows /\ rows'[i] = rows[i]
          \/ rows'[i] = RowFor(r)
      BY <2>4, <3>1
    <3> QED BY <2>2, <3>1, <3>2
  <2>5. ASSUME NEW j \in DOMAIN rows, rows' = MoveRow(r, j) PROVE Goal
    <3> DEFINE w == [rows[j] EXCEPT !.current_jti = req[r].new]
    <3>1. rows[j] \in Row
      BY DEF TypeOK
    <3>2. w.chain_id = rows[j].chain_id
      BY <3>1 DEF Row
    <3>3. rows' = [rows EXCEPT ![j] = w]
      BY <2>5 DEF MoveRow
    <3> HIDE DEF w
    <3> QED BY <3>2, <3>3
  <2> QED
    BY <1>0, <2>3, <2>4, <2>5
<1>3. ASSUME NEW r \in Requests, Step(r) PROVE Goal
  <2>1. CASE \/ create_access_token(r) \/ create_refresh_token(r)
             \/ claim_jti_for_rotation(r) \/ handle_reuse_detected(r)
             \/ bump_chain_version(r) \/ expire_chain_version(r)
             \/ bump_chain_version_fails(r) \/ count_active_sessions(r)
             \/ bump_account_version(r) \/ bump_account_version_fails(r)
    BY <1>0, <2>1
       DEF create_access_token, create_refresh_token, claim_jti_for_rotation,
           handle_reuse_detected, bump_chain_version, expire_chain_version,
           bump_chain_version_fails, count_active_sessions, bump_account_version,
           bump_account_version_fails
  <2>2. CASE revoke_by_jti(r) \/ revoke_chain(r) \/ revoke_one_session(r)
             \/ revoke_all_sessions(r)
    BY <1>0, <1>1, <2>2
       DEF revoke_by_jti, revoke_chain, revoke_one_session, revoke_all_sessions, Mirror
  <2> QED
    BY <1>2, <1>3, <2>1, <2>2 DEF Step
<1>4. ASSUME NEW r \in Requests, Start(r) \/ Crash(r) PROVE Goal
  BY <1>0, <1>4 DEF Start, Crash, login, refresh_tokens, logout, logout_without_row,
                    logout_all, change_password_expired, change_password, revoke_session
<1>5. CASE Tick \/ FlushRedis \/ UNCHANGED vars
  BY <1>0, <1>5 DEF Tick, FlushRedis, vars
<1> QED
  BY <1>3, <1>4, <1>5 DEF Next

\* Tokens, rows, requests and ended chains all stem from a login.
LEMMA ChainsWereLoggedInNext ==
    ASSUME RedisReliable, AccessLife <= RefreshLife, TypeOK, StepsMatchHandlers,
           ChainsWereLoggedIn, [Next]_vars
    PROVE  ChainsWereLoggedIn'
<1>0. TypeOK'
  BY NextType
<1>1. \A t \in tokens' : auth'[t.chain] # NotYet
  <2>1. \A t \in tokens : t.chain \in Chains /\ auth'[t.chain] # NotYet
    BY AuthKept DEF ChainsWereLoggedIn, TypeOK, Token
  <2>2. CASE tokens' \subseteq tokens
    BY <2>1, <2>2
  <2>3. ASSUME NEW r \in Requests, Minting(r) PROVE \A t \in tokens' : auth'[t.chain] # NotYet
    <3>1. PICK t \in Token : tokens' = tokens \cup {t} /\ t.chain = req[r].chain
      BY <2>3, MintedToken
    <3>2. t.chain \in Chains
      BY DEF Token
    <3> QED BY <2>1, <3>1, <3>2, AuthKept DEF ChainsWereLoggedIn
  <2>4. tokens' \subseteq tokens \/ \E r \in Requests : Minting(r)
    <3>1. CoreUnchanged \/ Tick => tokens' \subseteq tokens
      BY DEF CoreUnchanged, Tick
    <3>2. ASSUME NEW r \in Requests,
                 \/ login(r) \/ Crash(r) \/ bump_chain_version(r)
                 \/ expire_chain_version(r) \/ bump_account_version(r)
          PROVE  tokens' \subseteq tokens
      BY <3>2 DEF login, Crash, bump_chain_version, expire_chain_version,
                  bump_account_version
    <3> QED BY <3>1, <3>2, StepKinds
  <2> QED BY <2>2, <2>3, <2>4
<1>2. \A i \in DOMAIN rows : rows[i].chain_id \in Chains /\ auth'[rows[i].chain_id] # NotYet
  <2>1. \A i \in DOMAIN rows : rows[i] \in Row
    BY DEF TypeOK
  <2> QED BY <2>1, AuthKept DEF ChainsWereLoggedIn, Row
<1>3. \A i \in DOMAIN rows' : auth'[rows'[i].chain_id] # NotYet
  BY <1>2, AuthKept, RowChains DEF ChainsWereLoggedIn
<1>4. ASSUME NEW q \in Requests, req'[q].chain \in Chains PROVE auth'[req'[q].chain] # NotYet
  <2>1. CASE req'[q].chain = req[q].chain
    BY <1>4, <2>1, AuthKept DEF ChainsWereLoggedIn
  <2>2. CASE req'[q].chain = NoChain
    BY <1>4, <2>2, ConstantsAssumption DEF ConstantsAssumption
  <2>3. CASE \E i \in DOMAIN rows : req'[q].chain = rows[i].chain_id
    BY <1>2, <2>3
  <2>4. CASE login(q)
    <3>1. PICK c \in Chains : /\ auth' = [auth EXCEPT ![c] = accountVer]
                              /\ Begin(q, "login", "mint", c, NoJti, 0, 0,
                                       {"access", "refresh"})
      BY <2>4 DEF login
    <3>2. req'[q].chain = c
      BY <3>1, BeginFacts
    <3> QED BY <3>1, <3>2 DEF TypeOK, NotYet
  <2>5. CASE \E t \in tokens : req'[q].chain = t.chain
    BY <2>5, AuthKept DEF ChainsWereLoggedIn, TypeOK, Token
  <2> QED
    BY <2>1, <2>2, <2>3, <2>4, <2>5, RequestChanges
<1>5. \A c \in ended' : auth'[c] # NotYet
  <2>1. \A c \in ended : auth'[c] # NotYet
    BY AuthKept DEF ChainsWereLoggedIn, TypeOK
  <2>2. ended' \subseteq ended \/ \E r \in Requests : bump_chain_version(r)
    <3>1. CoreUnchanged \/ Tick => ended' \subseteq ended
      BY DEF CoreUnchanged, Tick, historyVars
    <3>2. ASSUME NEW r \in Requests,
                 \/ login(r) \/ Crash(r) \/ Minting(r)
                 \/ expire_chain_version(r) \/ bump_account_version(r)
          PROVE  ended' \subseteq ended
      BY <3>2 DEF login, Crash, Minting, expire_chain_version, bump_account_version,
                  historyVars
    <3> QED BY <3>1, <3>2, StepKinds
  <2>3. ASSUME NEW r \in Requests, bump_chain_version(r)
        PROVE  \A c \in ended' : auth'[c] # NotYet
    <3>1. req[r].chain \in Chains /\ ended' = ended \cup {req[r].chain}
      BY <2>3, RequestShape DEF bump_chain_version, TokenRequest, ChainRequest
    <3> QED BY <2>1, <3>1, AuthKept DEF ChainsWereLoggedIn
  <2> QED BY <2>1, <2>2, <2>3
<1> QED
  BY <1>1, <1>3, <1>4, <1>5 DEF ChainsWereLoggedIn

\* The steps that are not revokes leave a vouched chain vouched.
LEMMA VouchedKept ==
    ASSUME TypeOK, NEW c \in Chains, Vouched(c),
           \/ CoreUnchanged \/ Tick
           \/ \E r \in Requests :
                Minting(r) \/ login(r) \/ Crash(r) \/ expire_chain_version(r)
    PROVE  Vouched(c)'
<1>1. CASE CoreUnchanged \/ Tick
  BY <1>1 DEF CoreUnchanged, Tick, Vouched, redisVars, historyVars
<1>2. ASSUME NEW r \in Requests, Minting(r) \/ Crash(r) \/ expire_chain_version(r)
      PROVE  Vouched(c)'
  BY <1>2 DEF Minting, Crash, expire_chain_version, Vouched, redisVars, historyVars
<1>3. ASSUME NEW r \in Requests, login(r) PROVE Vouched(c)'
  BY <1>3 DEF login, Vouched, redisVars, TypeOK
<1> QED
  BY <1>1, <1>2, <1>3

\* A login vouches for its chain.
LEMMA LoginVouches ==
    ASSUME TypeOK, ChainsWereLoggedIn, NEW r \in Requests, login(r),
           NEW d, req'[r].chain = d
    PROVE  Vouched(d)'
<1>1. PICK c \in Chains : /\ auth[c] = NotYet
                          /\ auth' = [auth EXCEPT ![c] = accountVer]
                          /\ Begin(r, "login", "mint", c, NoJti, 0, 0,
                                   {"access", "refresh"})
  BY DEF login
<1>2. d = c
  BY <1>1, BeginFacts
<1>3. c \notin ended
  BY <1>1 DEF ChainsWereLoggedIn
<1>4. UNCHANGED <<ended, accountVer>>
  BY DEF login, redisVars
<1> QED
  BY <1>1, <1>2, <1>3, <1>4 DEF Vouched, TypeOK

LEMMA MinterChain ==
    ASSUME TypeOK, NEW r \in Requests, WillMint(r) PROVE req[r].chain \in Chains
  BY DEF TypeOK, WillMint, Request, Idle, TokenRequest, ChainRequest, AccountRequest

\* Whoever is about to mint does so for a chain whose credentials still stand,
\* or the chain is known to have raced a revoke.
LEMMA MintersVouchedNext ==
    ASSUME RedisReliable, SessionInv, [Next]_vars, NEW q \in Requests, WillMint(q)',
           NEW c, req'[q].chain = c
    PROVE  Vouched(c)'
<1> USE DEF SessionInv
<1>1. CASE login(q)
  BY <1>1, LoginVouches
<1>2. CASE \E t \in tokens : /\ req'[q].chain = t.chain /\ CoreUnchanged
                            /\ Decodes(t) /\ is_current_version(t)
  <2>1. PICK t \in tokens : /\ req'[q].chain = t.chain /\ CoreUnchanged
                            /\ Decodes(t) /\ is_current_version(t)
    BY <1>2
  <2>2. c \in Chains /\ Vouched(c)
    BY <2>1, CheckIsExact, RetiredIsDead DEF TokensVouched, TypeOK, Token
  <2> QED
    BY <2>1, <2>2, VouchedKept
<1>3. CASE req[q].chain = c /\ WillMint(q)
  <2>1. c \in Chains /\ Vouched(c)
    BY <1>3, MinterChain DEF MintersVouched
  <2>2. ASSUME NEW r \in Requests, bump_chain_version(r) PROVE Vouched(c)'
    <3>1. r # q
      BY <1>3, <2>2 DEF bump_chain_version, StepsMatchHandlers
    <3>2. c \in InFlight(r)
      BY <1>3, <3>1 DEF InFlight
    <3> QED
      BY <2>1, <2>2, <3>2 DEF bump_chain_version, Vouched
  <2>3. ASSUME NEW r \in Requests, bump_account_version(r) PROVE Vouched(c)'
    <3>1. CASE r # q
      <4>1. c \in InFlight(r)
        BY <1>3, <3>1 DEF InFlight
      <4> QED BY <2>3, <4>1 DEF bump_account_version, Vouched
    <3>2. CASE r = q
      <4>1. req[r].op = "change_password"
        BY <1>3, <2>3, <3>2 DEF bump_account_version, StepsMatchHandlers, WillMint
      <4>2. /\ racers' = InFlight(r) \cup (racers \cap {c})
            /\ auth' = [auth EXCEPT ![c] = accountVer + 1]
            /\ accountVer' = accountVer + 1 /\ ended' = ended
        BY <1>3, <2>3, <3>2, <4>1 DEF bump_account_version
      <4> QED
        BY <2>1, <4>2 DEF Vouched, TypeOK
    <3> QED BY <3>1, <3>2
  <2> QED
    BY <1>3, <2>1, <2>2, <2>3, StepKinds, VouchedKept
<1> QED
  BY <1>1, <1>2, <1>3, RequestChanges

\* Every token is retired or belongs to a chain that is vouched for.
LEMMA TokensVouchedNext ==
    ASSUME RedisReliable, AccessLife <= RefreshLife, SessionInv, [Next]_vars,
           NEW t \in tokens'
    PROVE  Retired(t)' \/ Vouched(t.chain)'
<1> USE DEF SessionInv
<1>1. CASE t \in tokens
  <2>0. /\ t.chain \in Chains /\ t.account_ver \in Nat /\ accountVer \in Nat
        /\ t.account_ver <= accountVer
    BY <1>1 DEF TypeOK, Token, VersionsBound
  <2>1. CASE Retired(t)
    BY <1>1, <2>1, RetiredForever
  <2>2. CASE Vouched(t.chain)
    <3>1. ASSUME NEW r \in Requests, bump_account_version(r) PROVE Retired(t)'
      BY <2>0, <3>1 DEF bump_account_version, Retired
    <3>2. ASSUME NEW r \in Requests, bump_chain_version(r), t.chain \notin racers
          PROVE  Retired(t)' \/ Vouched(t.chain)'
      <4>1. auth[t.chain] = accountVer /\ t.chain \notin ended
        BY <2>2, <3>2 DEF Vouched
      <4>2. CASE t.chain # req[r].chain
        BY <3>2, <4>1, <4>2 DEF bump_chain_version, Vouched
      <4>3. CASE t.chain = req[r].chain
        <5>1. chainVer[t.chain].ver = 0 /\ chainVer[t.chain].expireAt = NoTTL
              /\ t.chain_ver = 0
          BY <1>1, <2>0, <4>1 DEF VersionsBound
        <5>2. chainVer'[t.chain].ver = 1 /\ chainVer'[t.chain].expireAt = NoTTL
          BY <2>0, <3>2, <4>3, <5>1
             DEF bump_chain_version, get_chain_version, KeyLives, TypeOK
        <5> QED BY <5>1, <5>2 DEF Retired
      <4> QED BY <4>2, <4>3
    <3>3. ASSUME NEW r \in Requests, bump_chain_version(r), t.chain \in racers
          PROVE  Vouched(t.chain)'
      BY <3>3 DEF bump_chain_version, Vouched
    <3> QED
      BY <2>0, <2>2, <3>1, <3>2, <3>3, StepKinds, VouchedKept
  <2> QED
    BY <1>1, <2>1, <2>2 DEF TokensVouched
<1>2. CASE t \notin tokens
  <2>1. PICK r \in Requests : Minting(r)
    <3>1. CoreUnchanged \/ Tick => tokens' \subseteq tokens
      BY DEF CoreUnchanged, Tick
    <3>2. ASSUME NEW r \in Requests,
                 \/ login(r) \/ Crash(r) \/ bump_chain_version(r)
                 \/ expire_chain_version(r) \/ bump_account_version(r)
          PROVE  tokens' \subseteq tokens
      BY <3>2 DEF login, Crash, bump_chain_version, expire_chain_version,
                  bump_account_version
    <3> QED BY <1>2, <3>1, <3>2, StepKinds
  <2>2. t.chain = req[r].chain
    BY <1>2, <2>1, MintedToken
  <2>3. WillMint(r)
    BY <2>1 DEF Minting, StepsMatchHandlers
  <2>4. t.chain \in Chains /\ Vouched(t.chain)
    BY <2>2, <2>3, MinterChain DEF MintersVouched
  <2> QED
    BY <2>1, <2>4, VouchedKept
<1> QED
  BY <1>1, <1>2

\* The invariant is inductive.
LEMMA SessionInvNext ==
    ASSUME RedisReliable, AccessLife <= RefreshLife, SessionInv, [Next]_vars
    PROVE  SessionInv'
<1> USE DEF SessionInv
<1>1. TypeOK'
  BY NextType
<1>2. StepsMatchHandlers'
  BY StepsMatchNext
<1>3. BumpedChainsEnded'
  BY BumpedChainsNext
<1>4. ChainsWereLoggedIn'
  BY ChainsWereLoggedInNext
<1>5. VersionsBound'
  BY VersionsBoundNext
<1>6. MintersVouched'
  BY MintersVouchedNext DEF MintersVouched
<1>7. TokensVouched'
  BY TokensVouchedNext DEF TokensVouched
<1> QED
  BY <1>1, <1>2, <1>3, <1>4, <1>5, <1>6, <1>7

LEMMA SessionInvInit == Init => SessionInv
<1> SUFFICES ASSUME Init PROVE SessionInv
  OBVIOUS
<1>1. TypeOK
  BY ConstantsAssumption
     DEF Init, TypeOK, Request, NoTTL, NotClaimed, NotYet, ConstantsAssumption
<1>2. \A r \in Requests : req[r].pc = "idle" /\ req[r].op = "none" /\ req[r].chain = NoChain
  BY DEF Init, Idle
<1>3. StepsMatchHandlers /\ BumpedChainsEnded /\ MintersVouched
  BY <1>2 DEF StepsMatchHandlers, BumpedChainsEnded, MintersVouched, WillMint
<1>4. ChainsWereLoggedIn
  BY <1>2, ConstantsAssumption DEF Init, ChainsWereLoggedIn, ConstantsAssumption
<1>5. VersionsBound /\ TokensVouched
  BY DEF Init, VersionsBound, TokensVouched
<1> QED
  BY <1>1, <1>3, <1>4, <1>5 DEF SessionInv

\* Whenever Redis answers and keeps its data, a valid token belongs to a login
\* whose credentials still stand and whose session nobody ended, unless some
\* other request was already minting for that session when it was revoked:
\* refresh_tokens, login and the profile update check first and mint later.
THEOREM RevocationIsComplete ==
    ASSUME RedisReliable, AccessLife <= RefreshLife
    PROVE  Spec => []SurvivorsWereInFlight
<1>1. Init => SessionInv
  BY SessionInvInit
<1>2. SessionInv /\ [Next]_vars => SessionInv'
  BY SessionInvNext
<1>3. SessionInv => SurvivorsWereInFlight
  BY RetiredIsDead DEF SessionInv, TokensVouched, Vouched, SurvivorsWereInFlight
<1> QED
  BY <1>1, <1>2, <1>3, PTL DEF Spec

\* No step makes a token valid again, unless its chain raced a revoke.
LEMMA NoTokenRevives ==
    ASSUME RedisReliable, AccessLife <= RefreshLife, SessionInv, [Next]_vars,
           NEW t \in tokens, t.chain \notin racers, Live(t)'
    PROVE  Live(t)
<1> USE DEF SessionInv
<1>0. /\ TypeOK'
      /\ t.exp \in Nat /\ t.chain \in Chains /\ t.account_ver \in Nat
      /\ clock \in Nat /\ clock' \in Nat /\ accountVer \in Nat /\ accountVer' \in Nat
      /\ t.account_ver <= accountVer
  BY NextType DEF TypeOK, Token, VersionsBound
<1>1. ~Retired(t)
  <2>1. SUFFICES ASSUME Retired(t) PROVE FALSE
    OBVIOUS
  <2>2. Retired(t)'
    BY <2>1, RetiredForever
  <2>3. chainVer'[t.chain].ver \in Nat /\ chainVer'[t.chain].expireAt \in Nat \cup {NoTTL}
    BY <1>0 DEF TypeOK
  <2>4. ~Live(t)'
    BY <1>0, <2>2, <2>3 DEF Retired, Live, Decodes, get_chain_version, KeyLives, NoTTL
  <2> QED BY <2>4
<1>2. t.chain \notin ended
  BY <1>1 DEF TokensVouched, Vouched
<1>3. clock <= clock' /\ accountVer <= accountVer'
  <2>1. CoreUnchanged \/ Tick => clock <= clock' /\ accountVer <= accountVer'
    BY <1>0 DEF CoreUnchanged, Tick, redisVars
  <2>2. ASSUME NEW r \in Requests,
               \/ Minting(r) \/ login(r) \/ Crash(r) \/ bump_chain_version(r)
               \/ expire_chain_version(r) \/ bump_account_version(r)
        PROVE  clock <= clock' /\ accountVer <= accountVer'
    BY <1>0, <2>2 DEF Minting, login, Crash, bump_chain_version, expire_chain_version,
                      bump_account_version, redisVars
  <2> QED BY <2>1, <2>2, StepKinds
<1>4. get_chain_version(t.chain) = 0 /\ t.chain_ver = 0
  BY <1>0, <1>2 DEF VersionsBound, get_chain_version
<1>5. t.exp > clock' /\ t.account_ver = accountVer'
  BY DEF Live, Decodes
<1> QED
  BY <1>0, <1>3, <1>4, <1>5 DEF Live, Decodes

\* A revoked or expired token is never valid again, through any number of
\* bumps, expiries of chain keys and crashes: bump_chain_version's EXPIRE of
\* a refresh lifetime outlasts every token the INCR revokes.
THEOREM RevocationIsPermanent ==
    ASSUME RedisReliable, AccessLife <= RefreshLife
    PROVE  Spec => DeadStaysDead
<1>1. Init => SessionInv
  BY SessionInvInit
<1>2. SessionInv /\ [Next]_vars => SessionInv'
  BY SessionInvNext
<1>3. SessionInv /\ [Next]_vars =>
        [\A t \in tokens : Live(t)' => Live(t) \/ t.chain \in racers]_vars
  BY NoTokenRevives
<1> QED
  BY <1>1, <1>2, <1>3, PTL DEF Spec, DeadStaysDead
-----------------------------------------------------------------------------
(* Redemption of refresh tokens.  Redis is assumed to keep its data: a      *)
(* restart without it forgets every claim.  Every other fault may occur.    *)

\* A refresh token with jti j and expiry e was minted, is being presented, or
\* was redeemed.
Known(j, e) ==
    \/ \E t \in tokens : t.type = "refresh" /\ t.jti = j /\ t.exp = e
    \/ \E r \in Requests : req[r].pc = "claim" /\ req[r].jti = j /\ req[r].exp = e
    \/ \E a \in redeemed : a.jti = j /\ a.exp = e

\* uuid4 jtis: the one a request draws is its own, and new until it mints.
JtisAreFresh ==
    /\ \A r \in Requests : req[r].new <= started
    /\ \A r, q \in Requests : r # q /\ req[r].new = req[q].new => req[r].new = NoJti
    /\ \A j, e : Known(j, e) =>
         /\ j <= started
         /\ \A r \in Requests : "refresh" \in req[r].need => req[r].new # j
    /\ \A j, e, f : Known(j, e) /\ Known(j, f) => e = f

\* The claim on a redeemed jti lasts into the last second of the token.
ClaimsOutlive ==
    \A a \in redeemed :
        /\ a.at <= clock
        /\ claims[a.jti] # NotClaimed
        /\ claims[a.jti] > a.exp - Second

RedemptionInv == TypeOK /\ JtisAreFresh /\ ClaimsOutlive /\ ReplayOnlyInLastSecond

\* What the ways of changing a request do to its other fields.
LEMMA GotoFields ==
    ASSUME TypeOK, NEW r \in Requests, NEW p, Goto(r, p)
    PROVE  /\ req'[r].jti = req[r].jti /\ req'[r].exp = req[r].exp
           /\ req'[r].new = req[r].new /\ req'[r].row = req[r].row
           /\ req'[r].need = req[r].need /\ req'[r].seen = req[r].seen
<1> DEFINE w == [req[r] EXCEPT !.pc = p]
<1>1. req[r] \in Request
  BY DEF TypeOK
<1>2. /\ w.jti = req[r].jti /\ w.exp = req[r].exp
      /\ w.new = req[r].new /\ w.row = req[r].row
      /\ w.need = req[r].need /\ w.seen = req[r].seen
  BY <1>1 DEF Request, Idle, TokenRequest, ChainRequest, AccountRequest
<1>3. req' = [req EXCEPT ![r] = w]
  BY DEF Goto
<1> HIDE DEF w
<1> QED
  BY <1>2, <1>3 DEF TypeOK

LEMMA NeedFields ==
    ASSUME TypeOK, NEW r \in Requests, NEW k, req' = [req EXCEPT ![r].need = @ \ {k}]
    PROVE  /\ req'[r].jti = req[r].jti /\ req'[r].exp = req[r].exp
           /\ req'[r].new = req[r].new /\ req'[r].row = req[r].row
           /\ req'[r].need = req[r].need \ {k} /\ req'[r].seen = req[r].seen
<1> DEFINE w == [req[r] EXCEPT !.need = @ \ {k}]
<1>1. req[r] \in Request
  BY DEF TypeOK
<1>2. /\ w.jti = req[r].jti /\ w.exp = req[r].exp
      /\ w.new = req[r].new /\ w.row = req[r].row
      /\ w.need = req[r].need \ {k} /\ w.seen = req[r].seen
  BY <1>1 DEF Request, Idle, TokenRequest, ChainRequest, AccountRequest
<1>3. req' = [req EXCEPT ![r] = w]
  OBVIOUS
<1> HIDE DEF w
<1> QED
  BY <1>2, <1>3 DEF TypeOK

\* A request whose token turns out to be claimed keeps all else.
LEMMA ReuseFields ==
    ASSUME TypeOK, NEW r \in Requests, handle_reuse_detected(r)
    PROVE  /\ \A q \in Requests : q # r => req'[q] = req[q]
           /\ req'[r].op = "reuse" /\ req'[r].pc = "bumpChain"
           /\ req'[r].chain = req[r].chain
           /\ req'[r].jti = req[r].jti /\ req'[r].exp = req[r].exp
           /\ req'[r].new = req[r].new /\ req'[r].row = req[r].row
           /\ req'[r].need = req[r].need /\ req'[r].seen = req[r].seen
<1> DEFINE w == [req[r] EXCEPT !.op = "reuse", !.pc = "bumpChain"]
<1>1. req[r] \in TokenRequest
  BY RequestShape DEF handle_reuse_detected
<1>2. /\ w.op = "reuse" /\ w.pc = "bumpChain" /\ w.chain = req[r].chain
      /\ w.jti = req[r].jti /\ w.exp = req[r].exp
      /\ w.new = req[r].new /\ w.row = req[r].row
      /\ w.need = req[r].need /\ w.seen = req[r].seen
  BY <1>1 DEF TokenRequest
<1>3. req' = [req EXCEPT ![r] = w]
  BY DEF handle_reuse_detected
<1> HIDE DEF w
<1> QED
  BY <1>2, <1>3 DEF TypeOK

LEMMA BeginFields ==
    ASSUME TypeOK, NEW r \in Requests, NEW op, NEW pc, NEW chain, NEW jti,
           NEW exp, NEW row, NEW need, Begin(r, op, pc, chain, jti, exp, row, need)
    PROVE  /\ req[r] = Idle /\ started' = started + 1
           /\ req'[r].jti = jti /\ req'[r].exp = exp
           /\ req'[r].new = started + 1 /\ req'[r].row = row
           /\ req'[r].need = need /\ req'[r].seen = accountVer
  BY DEF TypeOK, Begin

LEMMA FinishFields ==
    ASSUME TypeOK, NEW r \in Requests, Finish(r)
    PROVE  /\ \A q \in Requests : q # r => req'[q] = req[q]
           /\ req'[r] = Idle
  BY DEF TypeOK, Finish

\* r starts: it draws a jti, and may present a token that was minted.
Started(r) ==
    /\ req[r] = Idle
    /\ started' = started + 1
    /\ \A q \in Requests : q # r => req'[q] = req[q]
    /\ req'[r].new = started + 1
    /\ req'[r].seen = accountVer
    /\ req'[r].pc = "claim" => Known(req'[r].jti, req'[r].exp)
    /\ req'[r].op \in {"logout_all", "change_password"} => req'[r].pc = "count"
    /\ UNCHANGED <<clock, accountVer, claims, tokens, redeemed>>

LEMMA StartFacts ==
    ASSUME TypeOK, NEW r \in Requests, Start(r)
    PROVE  Started(r) \/ UNCHANGED <<clock, accountVer, claims, tokens, redeemed, started, req>>
<1>0. Held \subseteq tokens
  BY DEF Held
<1>1. CASE login(r)
  <2>1. PICK c \in Chains : Begin(r, "login", "mint", c, NoJti, 0, 0, {"access", "refresh"})
    BY <1>1 DEF login
  <2> QED BY <1>1, <2>1, BeginFacts, BeginFields DEF login, Started, redisVars
<1>2. ASSUME NEW t \in Held, refresh_tokens(r, t) PROVE Started(r)
  <2>1. Begin(r, "refresh", "claim", t.chain, t.jti, t.exp, 0, {"access", "refresh"})
    BY <1>2 DEF refresh_tokens
  <2>2. Known(t.jti, t.exp)
    BY <1>0, <1>2 DEF refresh_tokens, Known
  <2> QED
    BY <1>2, <2>1, <2>2, BeginFacts, BeginFields
       DEF refresh_tokens, Started, redisVars, historyVars
<1>3. ASSUME NEW t \in Held, logout(r, t) PROVE Started(r)
  BY <1>3, BeginFacts, BeginFields DEF logout, Started, redisVars, historyVars
<1>4. ASSUME NEW t \in Held, logout_without_row(r, t)
      PROVE  UNCHANGED <<clock, accountVer, claims, tokens, redeemed, started, req>>
  BY <1>4 DEF logout_without_row, redisVars
<1>5. ASSUME NEW t \in Held,
             logout_all(r, t) \/ change_password_expired(r, t) \/ change_password(r, t)
      PROVE  Started(r)
  BY <1>5, BeginFacts, BeginFields
     DEF logout_all, change_password_expired, change_password, Started, redisVars, historyVars
<1>6. ASSUME NEW a \in Held, NEW i \in DOMAIN rows, NEW own, revoke_session(r, a, own, i)
      PROVE  Started(r)
  BY <1>6, BeginFacts, BeginFields DEF revoke_session, Started, redisVars, historyVars
<1> QED
  BY <1>1, <1>2, <1>3, <1>4, <1>5, <1>6 DEF Start

\* What a step of r leaves as it was: the other requests, the clock, and, but
\* for the claim and the mints, what is known of jtis.
LEMMA StepFacts ==
    ASSUME TypeOK, NEW r \in Requests, Step(r)
    PROVE  /\ UNCHANGED <<clock, started>>
           /\ \A q \in Requests : q # r => req'[q] = req[q]
           /\ \/ req'[r] = Idle
              \/ /\ req'[r].pc # "claim"
                 /\ req'[r].op = req[r].op \/ handle_reuse_detected(r)
                 /\ req'[r].chain = req[r].chain
                 /\ req'[r].jti = req[r].jti /\ req'[r].row = req[r].row
                 /\ req'[r].new = req[r].new /\ req'[r].seen = req[r].seen
                 /\ req'[r].need \subseteq req[r].need
           /\ \/ UNCHANGED <<tokens, claims, redeemed>>
              \/ create_access_token(r)
              \/ create_refresh_token(r)
              \/ claim_jti_for_rotation(r)
<1>1. CASE create_access_token(r) \/ create_refresh_token(r)
  BY <1>1, NeedFacts, NeedFields
     DEF create_access_token, create_refresh_token, redisVars, historyVars
<1>2. CASE create_session(r) \/ rotate_session(r) \/ rotate_session_by_chain(r)
  BY <1>2, FinishFields
     DEF create_session, rotate_session, rotate_session_by_chain, RecordStep,
         redisVars, historyVars
<1>3. CASE claim_jti_for_rotation(r)
  BY <1>3, GotoFacts, GotoFields DEF claim_jti_for_rotation
<1>4. CASE handle_reuse_detected(r)
  BY <1>4, ReuseFields DEF handle_reuse_detected, redisVars, historyVars
<1>5. CASE bump_chain_version(r)
  BY <1>5, GotoFacts, GotoFields DEF bump_chain_version
<1>6. CASE expire_chain_version(r) \/ bump_chain_version_fails(r)
  <2>1. Finish(r) \/ Goto(r, "revokeRow")
    BY <1>6 DEF expire_chain_version, bump_chain_version_fails, AfterBump
  <2>2. UNCHANGED <<clock, started, tokens, claims, redeemed>>
    BY <1>6 DEF expire_chain_version, bump_chain_version_fails, redisVars, historyVars
  <2> QED
    BY <2>1, <2>2, GotoFacts, GotoFields, FinishFields
<1>7. CASE revoke_by_jti(r) \/ revoke_chain(r) \/ revoke_one_session(r)
  <2>1. Finish(r) \/ Goto(r, "bumpChain")
    BY <1>7 DEF revoke_by_jti, revoke_chain, revoke_one_session
  <2>2. UNCHANGED <<clock, started, tokens, claims, redeemed>>
    BY <1>7 DEF revoke_by_jti, revoke_chain, revoke_one_session, redisVars, historyVars
  <2> QED
    BY <2>1, <2>2, GotoFacts, GotoFields, FinishFields
<1>8. CASE \/ count_active_sessions(r) \/ bump_account_version(r)
           \/ bump_account_version_fails(r) \/ revoke_all_sessions(r)
  <2>1. Finish(r) \/ \E p \in {"mint", "bumpAccount", "revokeRows"} : Goto(r, p)
    BY <1>8 DEF count_active_sessions, bump_account_version, bump_account_version_fails,
                revoke_all_sessions, AfterRevokeAll
  <2>2. UNCHANGED <<clock, started, tokens, claims, redeemed>>
    BY <1>8 DEF count_active_sessions, bump_account_version, bump_account_version_fails,
                revoke_all_sessions, redisVars, historyVars
  <2> QED
    BY <2>1, <2>2, GotoFacts, GotoFields, FinishFields
<1> QED
  BY <1>1, <1>2, <1>3, <1>4, <1>5, <1>6, <1>7, <1>8 DEF Step

\* What a refresh-token mint adds, whatever versions Redis returns.
LEMMA RefreshMint ==
    ASSUME TypeOK, NEW r \in Requests, create_refresh_token(r)
    PROVE  /\ "refresh" \in req[r].need /\ req'[r].need = req[r].need \ {"refresh"}
           /\ \E t \in Token : /\ tokens' = tokens \cup {t}
                               /\ t.type = "refresh" /\ t.jti = req[r].new
                               /\ t.exp = Exp(RefreshLife) /\ t.chain = req[r].chain
           /\ UNCHANGED <<clock, claims, redeemed>>
<1>1. req[r].pc = "mint" /\ Mint(r, "refresh", RefreshLife)
  BY DEF create_refresh_token
<1>2. PICK a \in Reads(accountVer), v \in Reads(get_chain_version(req[r].chain)) :
        tokens' = tokens \cup
            {[type |-> "refresh", jti |-> req[r].new, chain |-> req[r].chain,
              account_ver |-> a, chain_ver |-> v, exp |-> Exp(RefreshLife)]}
  BY <1>1 DEF Mint
<1>3. req[r].chain \in Chains /\ req[r].new \in Jtis
  BY <1>1, RequestShape DEF TokenRequest, ChainRequest
<1>4. Exp(RefreshLife) \in Nat
  BY ExpBound, ConstantsAssumption DEF ConstantsAssumption
<1>5. a \in Nat /\ v \in Nat
  BY <1>3, VersionNat, ReadsNat DEF TypeOK
<1> DEFINE t == [type |-> "refresh", jti |-> req[r].new, chain |-> req[r].chain,
                 account_ver |-> a, chain_ver |-> v, exp |-> Exp(RefreshLife)]
<1>6. t \in Token
  BY <1>3, <1>4, <1>5 DEF Token
<1>7. /\ tokens' = tokens \cup {t} /\ t.type = "refresh" /\ t.jti = req[r].new
      /\ t.exp = Exp(RefreshLife) /\ t.chain = req[r].chain
  BY <1>2
<1>8. /\ "refresh" \in req[r].need /\ req'[r].need = req[r].need \ {"refresh"}
      /\ UNCHANGED <<clock, claims, redeemed>>
  BY NeedFields DEF create_refresh_token, redisVars, historyVars
<1> QED
  BY <1>6, <1>7, <1>8

\* An access token is known by no jti.
LEMMA AccessMint ==
    ASSUME TypeOK, NEW r \in Requests, create_access_token(r)
    PROVE  /\ \A t \in tokens' \ tokens : t.type = "access"
           /\ UNCHANGED <<clock, claims, redeemed>>
<1>1. Mint(r, "access", AccessLife) /\ UNCHANGED <<clock, claims, redeemed>>
  BY DEF create_access_token, redisVars, historyVars
<1> QED
  BY <1>1 DEF Mint

\* The environment's steps forget requests and tokens and add none.
LEMMA EnvironmentFacts ==
    ASSUME TypeOK, \/ \E r \in Requests : Crash(r)
                   \/ Tick \/ FlushRedis \/ UNCHANGED vars
    PROVE  /\ tokens' \subseteq tokens /\ UNCHANGED <<redeemed, started>>
           /\ \A q \in Requests : req'[q] = req[q] \/ req'[q] = Idle
<1>1. ASSUME NEW r \in Requests, Crash(r)
      PROVE  /\ tokens' \subseteq tokens /\ UNCHANGED <<redeemed, started>>
             /\ \A q \in Requests : req'[q] = req[q] \/ req'[q] = Idle
  BY <1>1 DEF Crash, Finish, TypeOK, historyVars
<1> QED
  BY <1>1 DEF Tick, FlushRedis, vars, historyVars

\* Only the mint of a refresh token makes a jti and expiry known.
LEMMA KnownNext ==
    ASSUME TypeOK, [Next]_vars, NEW j, NEW e, Known(j, e)'
    PROVE  \/ Known(j, e)
           \/ \E r \in Requests : /\ create_refresh_token(r)
                                  /\ j = req[r].new /\ e = Exp(RefreshLife)
<1>1. ASSUME NEW r \in Requests, Step(r)
      PROVE  Known(j, e) \/ (create_refresh_token(r) /\ j = req[r].new /\ e = Exp(RefreshLife))
  <2>0. \A q \in Requests : req'[q].pc = "claim" => req'[q] = req[q]
    BY <1>1, StepFacts DEF Idle
  <2>1. CASE UNCHANGED <<tokens, claims, redeemed>>
    BY <2>0, <2>1 DEF Known
  <2>2. CASE create_access_token(r)
    BY <2>0, <2>2, AccessMint DEF Known
  <2>3. CASE create_refresh_token(r)
    BY <2>0, <2>3, RefreshMint DEF Known
  <2>4. CASE claim_jti_for_rotation(r)
    BY <2>0, <2>4 DEF claim_jti_for_rotation, Known
  <2> QED
    BY <1>1, <2>1, <2>2, <2>3, <2>4, StepFacts
<1>2. ASSUME NEW r \in Requests, Start(r) PROVE Known(j, e)
  <2>1. CASE Started(r)
    <3>1. \A q \in Requests : q # r => req'[q] = req[q]
      BY <2>1 DEF Started
    <3>2. tokens' = tokens /\ redeemed' = redeemed
      BY <2>1 DEF Started
    <3>3. req'[r].pc = "claim" => Known(req'[r].jti, req'[r].exp)
      BY <2>1 DEF Started
    <3> QED
      BY <3>1, <3>2, <3>3 DEF Known
  <2>2. CASE UNCHANGED <<tokens, redeemed, req>>
    BY <2>2 DEF Known
  <2> QED
    BY <1>2, <2>1, <2>2, StartFacts
<1>3. CASE (\E r \in Requests : Crash(r)) \/ Tick \/ FlushRedis \/ UNCHANGED vars
  <2>1. /\ tokens' \subseteq tokens /\ redeemed' = redeemed
        /\ \A q \in Requests : req'[q] = req[q] \/ req'[q] = Idle
    BY <1>3, EnvironmentFacts
  <2> QED
    BY <2>1 DEF Known, Idle
<1> QED
  BY <1>1, <1>2, <1>3 DEF Next

\* Jtis stay fresh: no step makes two requests share one, or knows one that
\* its request has still to mint.
LEMMA JtisAreFreshNext ==
    ASSUME TypeOK, JtisAreFresh, [Next]_vars
    PROVE  JtisAreFresh'
<1>0. /\ started \in Nat /\ started' \in Nat
      /\ \A q \in Requests : req[q].new \in Nat
      /\ Exp(RefreshLife) \in Nat
  <2>1. \A q \in Requests : req[q].new \in Nat
    BY RequestShape DEF Request, Idle, TokenRequest, ChainRequest, AccountRequest,
                        Jtis, NoJti
  <2>2. started \in Nat /\ started' \in Nat
    BY NextType, ConstantsAssumption DEF TypeOK, ConstantsAssumption
  <2> QED
    BY <2>1, <2>2, ExpBound, ConstantsAssumption DEF ConstantsAssumption
\* Each request is as it was, over, or just started under a jti of its own.
<1>1. /\ started <= started'
      /\ \A q \in Requests :
           \/ req'[q].new = req[q].new /\ req'[q].need \subseteq req[q].need
           \/ req'[q].new = NoJti /\ req'[q].need = {}
           \/ /\ req'[q].new = started + 1 /\ started' = started + 1
              /\ \A p \in Requests : p # q => req'[p] = req[p]
              /\ UNCHANGED <<tokens, redeemed>>
  <2>1. ASSUME NEW r \in Requests, Step(r)
        PROVE  /\ started' = started
               /\ \A q \in Requests :
                    \/ req'[q].new = req[q].new /\ req'[q].need \subseteq req[q].need
                    \/ req'[q].new = NoJti /\ req'[q].need = {}
    BY <2>1, StepFacts DEF Idle
  <2>2. ASSUME NEW r \in Requests, Start(r)
        PROVE  /\ started <= started'
               /\ \A q \in Requests :
                    \/ req'[q].new = req[q].new /\ req'[q].need \subseteq req[q].need
                    \/ /\ req'[q].new = started + 1 /\ started' = started + 1
                       /\ \A p \in Requests : p # q => req'[p] = req[p]
                       /\ UNCHANGED <<tokens, redeemed>>
    BY <1>0, <2>2, StartFacts DEF Started
  <2>3. CASE (\E r \in Requests : Crash(r)) \/ Tick \/ FlushRedis \/ UNCHANGED vars
    BY <1>0, <2>3, EnvironmentFacts DEF Idle
  <2> QED
    BY <1>0, <2>1, <2>2, <2>3 DEF Next
<1>2. \A q \in Requests : req'[q].new <= started'
  BY <1>0, <1>1 DEF JtisAreFresh, NoJti
<1>3. ASSUME NEW p \in Requests, NEW q \in Requests, p # q, req'[p].new = req'[q].new
      PROVE  req'[p].new = NoJti
  BY <1>0, <1>1, <1>3 DEF JtisAreFresh, NoJti
<1>4. ASSUME NEW j, NEW e, Known(j, e)' PROVE j <= started'
  <2>1. CASE Known(j, e)
    <3>1. j <= started
      BY <2>1 DEF JtisAreFresh
    <3>2. j \in Nat
      <4>1. CASE \E t \in tokens : t.jti = j
        BY <4>1 DEF TypeOK, Token, Jtis
      <4>2. CASE \E r \in Requests : req[r].pc = "claim" /\ req[r].jti = j
        BY <4>2, RequestShape DEF TokenRequest, Jtis
      <4>3. CASE \E a \in redeemed : a.jti = j
        BY <4>3 DEF TypeOK, Jtis
      <4> QED
        BY <2>1, <4>1, <4>2, <4>3 DEF Known
    <3> QED BY <1>0, <1>1, <3>1, <3>2
  <2>2. ASSUME NEW r \in Requests, j = req[r].new PROVE j <= started'
    BY <1>0, <1>1, <2>2 DEF JtisAreFresh
  <2> QED
    BY <1>4, <2>1, <2>2, KnownNext
<1>5. ASSUME NEW j, NEW e, Known(j, e)', NEW q \in Requests, "refresh" \in req'[q].need
      PROVE  req'[q].new # j
  <2>1. CASE req'[q].new = req[q].new /\ req'[q].need \subseteq req[q].need
    <3>1. "refresh" \in req[q].need
      BY <1>5, <2>1
    <3>2. Known(j, e) => req[q].new # j
      BY <3>1 DEF JtisAreFresh
    <3>3. ASSUME NEW r \in Requests, create_refresh_token(r) PROVE req[q].new # req[r].new
      <4>1. r # q
        BY <1>5, <3>3, RefreshMint
      <4>2. req[r].new # NoJti
        BY <3>3, RequestShape
           DEF create_refresh_token, TokenRequest, ChainRequest, Jtis, NoJti
      <4> QED
        BY <4>1, <4>2 DEF JtisAreFresh
    <3> QED
      BY <1>5, <2>1, <3>2, <3>3, KnownNext
  <2>2. CASE /\ req'[q].new = started + 1
             /\ UNCHANGED <<tokens, redeemed>>
    <3>1. Known(j, e) => j # started + 1
      BY <1>0 DEF JtisAreFresh
    <3>2. ASSUME NEW r \in Requests, create_refresh_token(r) PROVE req[r].new # started + 1
      BY <1>0 DEF JtisAreFresh
    <3> QED
      BY <1>5, <2>2, <3>1, <3>2, KnownNext
  <2>3. CASE req'[q].need = {}
    BY <1>5, <2>3
  <2> QED
    BY <1>1, <2>1, <2>2, <2>3
<1>6. ASSUME NEW j, NEW e, NEW f, Known(j, e)', Known(j, f)' PROVE e = f
  <2>1. ASSUME NEW r \in Requests, create_refresh_token(r), NEW g, Known(req[r].new, g)
        PROVE  FALSE
    <3>1. "refresh" \in req[r].need
      BY <2>1, RefreshMint
    <3> QED
      BY <2>1, <3>1 DEF JtisAreFresh
  <2>2. /\ Known(j, e) \/ (e = Exp(RefreshLife) /\ ~Known(j, f))
        /\ Known(j, f) \/ (f = Exp(RefreshLife) /\ ~Known(j, e))
    BY <1>6, <2>1, KnownNext
  <2> QED
    BY <2>2 DEF JtisAreFresh
<1> QED
  BY <1>2, <1>3, <1>4, <1>5, <1>6 DEF JtisAreFresh

\* A claim's TTL brings it into the last second of the token it claims.
LEMMA ClaimReachesLastSecond ==
    ASSUME TypeOK, NEW exp \in Nat
    PROVE  clock + ClaimTTL(exp) > exp - Second
<1>1. clock \in Nat /\ Second \in Nat /\ Second > 0
  BY ConstantsAssumption DEF TypeOK, ConstantsAssumption
<1>2. CASE exp - clock < Second
  BY <1>1, <1>2 DEF ClaimTTL
<1>3. CASE ~(exp - clock < Second)
  <2> DEFINE n == exp - clock
             w == n \div Second
  <2>1. n \in Nat /\ w \in Nat /\ ClaimTTL(exp) = w * Second
    BY <1>1, <1>3, WholeSeconds DEF ClaimTTL
  <2>2. n = w * Second + (n % Second) /\ n % Second < Second
    BY <1>1, <2>1, Z3
  <2>3. w * Second \in Nat
    BY <1>1, <2>1, ProductNat
  <2>4. n % Second \in Nat
    BY <1>1, <2>1, Z3
  <2> HIDE DEF w
  <2> QED
    BY <1>1, <2>1, <2>2, <2>3, <2>4
<1> QED
  BY <1>2, <1>3

\* Claims are kept until the last second, and nobody redeems a jti before its
\* claim has run out.
LEMMA RedemptionNext ==
    ASSUME "flush" \notin Faults, RedemptionInv, [Next]_vars
    PROVE  ClaimsOutlive' /\ ReplayOnlyInLastSecond'
<1> USE DEF RedemptionInv
<1>0. /\ TypeOK' /\ clock \in Nat /\ Second \in Nat
      /\ \A a \in redeemed : a.jti \in Jtis /\ a.at \in Nat /\ a.exp \in Nat
  BY NextType, ConstantsAssumption DEF TypeOK, ConstantsAssumption
<1>1. CASE UNCHANGED <<claims, redeemed>> /\ clock' \in {clock, clock + 1}
  BY <1>0, <1>1 DEF ClaimsOutlive, ReplayOnlyInLastSecond
<1>2. ASSUME NEW r \in Requests, claim_jti_for_rotation(r)
      PROVE  ClaimsOutlive' /\ ReplayOnlyInLastSecond'
  <2> DEFINE j == req[r].jti
             exp == req[r].exp
             b == [jti |-> j, by |-> req[r].new, at |-> clock, exp |-> exp]
             until == clock + ClaimTTL(exp)
  <2>1. j \in Jtis /\ exp \in Nat
    BY <1>2, RequestShape DEF claim_jti_for_rotation, TokenRequest
  <2>2. until \in Nat /\ until > exp - Second
    BY <2>1, ClaimTTLNat, ClaimReachesLastSecond
  <2>3. /\ redeemed' = redeemed \cup {b}
        /\ claims' = [claims EXCEPT ![j] = until]
        /\ clock' = clock
    BY <1>2 DEF claim_jti_for_rotation
  \* An earlier redemption of the jti was of the same token, and its claim
  \* has run out.
  <2>4. ASSUME NEW a \in redeemed, a.jti = j
        PROVE  a.exp = exp /\ clock > exp - Second
    <3>1. Known(j, exp) /\ Known(j, a.exp)
      BY <1>2, <2>4 DEF Known, claim_jti_for_rotation
    <3>2. a.exp = exp
      BY <3>1 DEF JtisAreFresh
    <3>3. /\ claims[j] # NotClaimed /\ claims[j] > exp - Second
          /\ claims[j] \in Nat \cup {NotClaimed}
      BY <2>1, <2>4, <3>2 DEF ClaimsOutlive, TypeOK
    <3>4. claims[j] <= clock
      BY <1>0, <1>2, <3>3 DEF claim_jti_for_rotation, Claimed
    <3> QED
      BY <1>0, <2>1, <3>2, <3>3, <3>4
  <2>5. b.jti = j /\ b.at = clock /\ b.exp = exp
    OBVIOUS
  <2> HIDE DEF b, until, j, exp
  <2>6. NotClaimed \notin Nat
    BY DEF NotClaimed
  <2>7. ClaimsOutlive'
    <3>1. ASSUME NEW a \in redeemed
          PROVE  a.at <= clock /\ claims'[a.jti] # NotClaimed /\ claims'[a.jti] > a.exp - Second
      BY <1>0, <2>1, <2>2, <2>3, <2>4, <2>6, <3>1 DEF ClaimsOutlive, TypeOK
    <3>2. claims'[j] = until
      BY <2>1, <2>3 DEF TypeOK
    <3> QED
      BY <1>0, <2>2, <2>3, <2>5, <2>6, <3>1, <3>2 DEF ClaimsOutlive
  <2>8. ReplayOnlyInLastSecond'
    BY <1>0, <2>1, <2>3, <2>4, <2>5 DEF ReplayOnlyInLastSecond
  <2> QED
    BY <2>7, <2>8
<1>3. ASSUME NEW r \in Requests, Step(r), ~claim_jti_for_rotation(r)
      PROVE  UNCHANGED <<claims, redeemed, clock>>
  BY <1>3, StepFacts, AccessMint, RefreshMint
<1>4. ASSUME NEW r \in Requests, Start(r) PROVE UNCHANGED <<claims, redeemed, clock>>
  BY <1>4, StartFacts DEF Started
<1>5. ASSUME NEW r \in Requests, Crash(r) PROVE UNCHANGED <<claims, redeemed, clock>>
  BY <1>5 DEF Crash, redisVars, historyVars
<1>6. CASE Tick
  BY <1>1, <1>6 DEF Tick, redisVars, historyVars
<1>7. CASE UNCHANGED vars
  BY <1>1, <1>7 DEF vars, redisVars, historyVars
<1>8. ~FlushRedis
  BY DEF FlushRedis
<1> QED
  BY <1>1, <1>2, <1>3, <1>4, <1>5, <1>6, <1>7, <1>8 DEF Next

LEMMA RedemptionInvInit == Init => RedemptionInv
<1> SUFFICES ASSUME Init PROVE RedemptionInv
  OBVIOUS
<1>1. TypeOK
  BY SessionInvInit DEF SessionInv
<1>2. started = 0 /\ tokens = {} /\ redeemed = {} /\ \A r \in Requests : req[r] = Idle
  BY DEF Init
<1>3. \A j, e : ~Known(j, e)
  BY <1>2 DEF Known, Idle
<1>4. \A r \in Requests : req[r].new = NoJti
  BY <1>2 DEF Idle
<1> QED
  BY <1>1, <1>2, <1>3, <1>4
     DEF RedemptionInv, JtisAreFresh, ClaimsOutlive, ReplayOnlyInLastSecond, NoJti

\* However many requests present it at once, whatever dies or fails meanwhile
\* and whatever the database does, a refresh token is redeemed once, or the
\* later redemption falls in the last second of its life: SET NX is one step,
\* and the claim's TTL is cut to whole seconds.
THEOREM TokensAreRedeemedOnce ==
    ASSUME "flush" \notin Faults
    PROVE  Spec => []ReplayOnlyInLastSecond
<1>1. Init => RedemptionInv
  BY RedemptionInvInit
<1>2. RedemptionInv /\ [Next]_vars => RedemptionInv'
  BY NextType, JtisAreFreshNext, RedemptionNext DEF RedemptionInv
<1>3. RedemptionInv => ReplayOnlyInLastSecond
  BY DEF RedemptionInv
<1> QED
  BY <1>1, <1>2, <1>3, PTL DEF Spec

-----------------------------------------------------------------------------
(* A whole-account revoke.  The count of active sessions has no way out but *)
(* a database error, and the INCR none but a Redis error.                   *)

\* A whole-account revoke that is past its INCR has moved the version.
RevokesBumped ==
    \A r \in Requests :
        /\ req[r].seen <= accountVer
        /\ /\ req[r].op \in {"logout_all", "change_password"}
           /\ req[r].pc \in {"revokeRows", "mint"}
           => accountVer > req[r].seen

LEMMA RevokesBumpedNext ==
    ASSUME RedisReliable, "db" \notin Faults, TypeOK, RevokesBumped, [Next]_vars
    PROVE  RevokesBumped'
<1>0. /\ accountVer \in Nat
      /\ \A q \in Requests : req[q].seen \in Nat
      /\ Idle.seen = 0 /\ Idle.op = "none"
  BY RequestShape DEF TypeOK, Request, Idle, TokenRequest, ChainRequest, AccountRequest
<1> USE DEF RevokesBumped
<1>1. ASSUME NEW r \in Requests, Step(r) PROVE RevokesBumped'
  <2>0. /\ \A q \in Requests : q # r => req'[q] = req[q]
        /\ req'[r] = Idle \/ req'[r].seen = req[r].seen
    BY <1>1, StepFacts
  <2>1. CASE bump_account_version(r)
    <3>1. accountVer' = accountVer + 1
      BY <2>1 DEF bump_account_version
    <3> QED
      BY <1>0, <2>0, <3>1
  <2>2. CASE create_access_token(r) \/ create_refresh_token(r)
    <3>1. accountVer' = accountVer
      BY <2>2 DEF create_access_token, create_refresh_token, redisVars
    <3>2. req'[r].pc = req[r].pc /\ req'[r].op = req[r].op /\ req'[r].seen = req[r].seen
      BY <2>2, NeedFacts, NeedFields DEF create_access_token, create_refresh_token
    <3> QED
      BY <2>0, <3>1, <3>2
  <2>3. CASE claim_jti_for_rotation(r)
    <3>1. accountVer' = accountVer /\ req[r].pc = "claim" /\ Goto(r, "mint")
      BY <2>3 DEF claim_jti_for_rotation
    <3>2. req[r].op \notin {"logout_all", "change_password"}
      BY <3>1, RequestShape DEF TokenRequest
    <3> QED
      BY <1>0, <2>0, <3>1, <3>2, GotoFacts
  <2>4. CASE /\ accountVer' = accountVer
             /\ \/ Finish(r) \/ handle_reuse_detected(r)
                \/ \E p \in {"expireChain", "revokeRow", "bumpChain", "bumpAccount"} :
                     Goto(r, p)
    <3>1. CASE Finish(r)
      <4>1. req'[r] = Idle
        BY <3>1 DEF Finish, TypeOK
      <4> QED
        BY <1>0, <2>0, <2>4, <4>1
    <3>2. CASE handle_reuse_detected(r)
      BY <1>0, <2>0, <2>4, <3>2, ReuseFields
    <3>3. ASSUME NEW p \in {"expireChain", "revokeRow", "bumpChain", "bumpAccount"},
                 Goto(r, p)
          PROVE  RevokesBumped'
      BY <1>0, <2>0, <2>4, <3>3, GotoFacts, GotoFields
    <3> QED
      BY <2>4, <3>1, <3>2, <3>3
  <2>5. CASE revoke_all_sessions(r)
    <3>1. accountVer' = accountVer /\ req[r].pc = "revokeRows"
          /\ (Finish(r) \/ Goto(r, "mint"))
      BY <2>5 DEF revoke_all_sessions, AfterRevokeAll, redisVars
    <3>2. Finish(r) => req'[r] = Idle
      BY DEF Finish, TypeOK
    <3> QED
      BY <1>0, <2>0, <3>1, <3>2, GotoFacts, GotoFields
  <2>6. CASE \/ create_session(r) \/ rotate_session(r) \/ rotate_session_by_chain(r)
             \/ handle_reuse_detected(r) \/ bump_chain_version(r)
             \/ expire_chain_version(r) \/ revoke_by_jti(r) \/ revoke_chain(r)
             \/ revoke_one_session(r) \/ count_active_sessions(r)
    <3>1. accountVer' = accountVer
      BY <2>6 DEF create_session, rotate_session, rotate_session_by_chain, RecordStep,
         handle_reuse_detected, bump_chain_version, expire_chain_version, revoke_by_jti,
         revoke_chain, revoke_one_session, count_active_sessions, redisVars
    <3>2. \/ Finish(r) \/ handle_reuse_detected(r)
          \/ \E p \in {"expireChain", "revokeRow", "bumpChain", "bumpAccount"} : Goto(r, p)
      BY <2>6 DEF create_session, rotate_session, rotate_session_by_chain, RecordStep,
         bump_chain_version, expire_chain_version, AfterBump, revoke_by_jti,
         revoke_chain, revoke_one_session, count_active_sessions
    <3> QED
      BY <2>4, <3>1, <3>2
  <2>7. ~bump_chain_version_fails(r) /\ ~bump_account_version_fails(r)
    BY DEF RedisReliable, bump_chain_version_fails, bump_account_version_fails
  <2> QED
    BY <1>1, <2>1, <2>2, <2>3, <2>5, <2>6, <2>7 DEF Step
<1>2. ASSUME NEW r \in Requests, Start(r) PROVE RevokesBumped'
  BY <1>0, <1>2, StartFacts DEF Started
<1>3. ASSUME NEW r \in Requests, Crash(r) PROVE RevokesBumped'
  <2>1. accountVer' = accountVer /\ \A q \in Requests : req'[q] = req[q] \/ req'[q] = Idle
    BY <1>3, EnvironmentFacts DEF Crash, redisVars
  <2> QED
    BY <1>0, <2>1
<1>4. CASE Tick \/ UNCHANGED vars
  BY <1>4 DEF Tick, vars, redisVars
<1>5. ~FlushRedis
  BY DEF FlushRedis, RedisReliable
<1> QED
  BY <1>1, <1>2, <1>3, <1>4, <1>5 DEF Next

\* A request only ends a whole-account revoke past its INCR.
LEMMA RevokeAllStep ==
    ASSUME RedisReliable, "db" \notin Faults, "crash" \notin Faults, TypeOK,
           StepsMatchHandlers, RevokesBumped, [Next]_vars, NEW q \in Requests,
           req[q].op \in {"logout_all", "change_password"}, req'[q] = Idle
    PROVE  accountVer > req[q].seen
<1>0. req[q] # Idle /\ req'[q].pc = "idle"
  BY DEF Idle
<1>1. SUFFICES req[q].pc \in {"revokeRows", "mint"}
  BY DEF RevokesBumped
<1>2. ASSUME NEW r \in Requests, Step(r) PROVE req[q].pc \in {"revokeRows", "mint"}
  <2>1. r = q
    BY <1>0, <1>2, StepFacts
  <2>2. CASE create_access_token(q) \/ create_refresh_token(q)
    BY <2>2 DEF create_access_token, create_refresh_token
  <2>3. CASE create_session(q) \/ rotate_session(q) \/ rotate_session_by_chain(q)
    BY <2>3 DEF create_session, rotate_session, rotate_session_by_chain, RecordStep
  <2>4. CASE revoke_all_sessions(q)
    BY <2>4 DEF revoke_all_sessions
  <2>5. CASE \/ claim_jti_for_rotation(q) \/ bump_chain_version(q)
             \/ count_active_sessions(q) \/ bump_account_version(q)
    <3>1. \E p \in {"mint", "expireChain", "bumpAccount", "revokeRows"} : Goto(q, p)
      BY <2>5 DEF claim_jti_for_rotation, bump_chain_version, count_active_sessions,
                  bump_account_version
    <3> QED
      BY <1>0, <3>1, GotoFacts
  <2>6. ~handle_reuse_detected(q)
    BY <1>0, ReuseFields
  <2>7. ~expire_chain_version(q)
    <3>1. req[q].pc # "expireChain"
      BY RequestShape DEF StepsMatchHandlers, WillMint, TokenRequest, ChainRequest
    <3> QED
      BY <3>1 DEF expire_chain_version
  <2>8. ~revoke_by_jti(q) /\ ~revoke_chain(q) /\ ~revoke_one_session(q)
    BY DEF revoke_by_jti, revoke_chain, revoke_one_session
  <2>9. ~bump_chain_version_fails(q) /\ ~bump_account_version_fails(q)
    BY DEF RedisReliable, bump_chain_version_fails, bump_account_version_fails
  <2> QED
    BY <1>2, <2>1, <2>2, <2>3, <2>4, <2>5, <2>6, <2>7, <2>8, <2>9 DEF Step
<1>3. ASSUME NEW r \in Requests, Start(r) PROVE FALSE
  <2>1. Started(r) \/ req' = req
    BY <1>3, StartFacts
  <2>2. CASE Started(r)
    BY <1>0, <2>2 DEF Started, Idle
  <2> QED
    BY <1>0, <2>1, <2>2
<1>4. ~(\E r \in Requests : Crash(r)) /\ ~Tick /\ ~FlushRedis /\ ~UNCHANGED vars
  BY <1>0 DEF Crash, Tick, FlushRedis, vars, RedisReliable
<1> QED
  BY <1>2, <1>3, <1>4 DEF Next

\* A logout-all or a password change that is answered has moved the account
\* version past the one it started from, for any number of them at once: while
\* Redis and the database answer, revoke_all_tokens_for_user has no return
\* before its INCR.
THEOREM RevokeAllIsEffective ==
    ASSUME RedisReliable, "db" \notin Faults, "crash" \notin Faults
    PROVE  Spec => RevokeAllTakesEffect
<1> DEFINE Inv == TypeOK /\ StepsMatchHandlers /\ RevokesBumped
<1>1. Init => Inv
  <2> SUFFICES ASSUME Init PROVE Inv
    OBVIOUS
  <2>1. \A r \in Requests : req[r].seen = 0 /\ req[r].op = "none"
    BY DEF Init, Idle
  <2> QED
    BY <2>1, SessionInvInit DEF SessionInv, RevokesBumped, Init
<1>2. Inv /\ [Next]_vars => Inv'
  BY NextType, StepsMatchNext, RevokesBumpedNext
<1>3. Inv /\ [Next]_vars =>
        [\A r \in Requests :
           req[r].op \in {"logout_all", "change_password"} /\ req[r]' = Idle
              => accountVer > req[r].seen]_vars
  BY RevokeAllStep
<1> QED
  BY <1>1, <1>2, <1>3, PTL DEF Spec, RevokeAllTakesEffect
-----------------------------------------------------------------------------
(* The tokens and the rows of one session, with any number of requests at   *)
(* once that may die at any await.  (A mirror that fails, or a Redis that   *)
(* does, takes the count or the version from a revoke: Faults is taken to   *)
(* be a subset of {"crash"}.)                                               *)

OnlyCrashes == Faults \subseteq {"crash"}

\* r has used up or outdated what its session had, and brings it a new pair.
Replaces(r) == WillMint(r) /\ req[r].pc \in {"revokeRows", "mint"}

\* Its tokens are minted, and r records them and answers.
Recording(r) == create_session(r) \/ rotate_session(r) \/ rotate_session_by_chain(r)

\* A refresh token that neither a revoke of the account nor a redemption has
\* touched.
Unspent(t) ==
    /\ t.type = "refresh"
    /\ t.account_ver = accountVer
    /\ \A a \in redeemed : a.jti # t.jti

\* A session that lives, and that no revoke has raced.
Settled(c) == Alive(c) /\ c \notin racers

\* A jti is that of one refresh token, which one request mints for its chain;
\* a request redeems but one.
JtiFacts ==
    /\ \A t \in tokens : t.jti <= started
    /\ \A t, u \in tokens :
         t.type = "refresh" /\ u.type = "refresh" /\ t.jti = u.jti => t = u
    /\ \A r \in Requests, t \in tokens :
         t.jti = req[r].new => t.chain = req[r].chain /\ req[r].pc = "mint"
    /\ \A a \in redeemed : /\ a.by <= started
                           /\ \A r \in Requests : req[r].pc = "claim" => a.by # req[r].new

\* A rotation presents a token whose session was answered, and which is
\* current unless a revoke has raced it.
Presented ==
    \A r \in Requests : req[r].op = "refresh" =>
        \E t \in Held : /\ t.type = "refresh" /\ t.jti = req[r].jti
                        /\ t.chain = req[r].chain
                        /\ t.chain \notin racers => t.account_ver = accountVer

\* A settled session has one unspent token, or one request that brings it one,
\* and never more.
OneLine(c) ==
    /\ \A r, q \in Requests :
         /\ Replaces(r) /\ req[r].chain = c
         /\ Replaces(q) /\ req[q].chain = c
         => r = q
    /\ \A t \in Held, r \in Requests :
         Unspent(t) /\ t.chain = c /\ Replaces(r) => req[r].chain # c
    /\ \A t, u \in Held :
         Unspent(t) /\ t.chain = c /\ Unspent(u) /\ u.chain = c => t = u

ActiveRow(i, c) == i \in DOMAIN rows /\ rows[i].chain_id = c /\ ~rows[i].revoked

\* Rows are told apart by their jtis, whose tokens are of their chain; the jti
\* a request is to record is in no row yet.
RowsApart ==
    /\ \A i, k \in DOMAIN rows : rows[i].current_jti = rows[k].current_jti => i = k
    /\ \A i \in DOMAIN rows :
         /\ rows[i].current_jti <= started
         /\ \A r \in Requests : rows[i].current_jti # req[r].new
         /\ \A t \in tokens : t.jti = rows[i].current_jti => t.chain = rows[i].chain_id

\* The active row of a settled session, if there is one, holds its unspent
\* token, or the one that the rotation which redeemed it presented; a login has
\* yet to add it.
OneRow(c) ==
    /\ \A i, k : ActiveRow(i, c) /\ ActiveRow(k, c) => i = k
    /\ \A i : ActiveRow(i, c) =>
         /\ \A t \in Held : Unspent(t) /\ t.chain = c => rows[i].current_jti = t.jti
         /\ \A r \in Requests :
              /\ req[r].chain = c
              /\ req[r].op = "refresh" /\ req[r].pc = "mint"
              => rows[i].current_jti = req[r].jti
         /\ \A r \in Requests : req[r].chain = c => req[r].op # "login"

LineInv ==
    /\ SessionInv
    /\ RedemptionInv
    /\ JtiFacts
    /\ \A c \in Chains : auth[c] <= accountVer
    /\ Presented
    /\ RowsApart
    /\ RedeemedOnce => \A c \in Chains : Settled(c) => OneLine(c) /\ OneRow(c)

\* A request that mints mints or records.
LEMMA MintSteps ==
    ASSUME NEW r \in Requests, Step(r), req[r].pc = "mint"
    PROVE  create_access_token(r) \/ create_refresh_token(r) \/ Recording(r)
BY DEF Step, claim_jti_for_rotation, handle_reuse_detected, bump_chain_version,
       expire_chain_version, bump_chain_version_fails, revoke_by_jti, revoke_chain,
       revoke_one_session, count_active_sessions, bump_account_version,
       bump_account_version_fails, revoke_all_sessions, Recording

LEMMA RecordingFacts ==
    ASSUME TypeOK, NEW r \in Requests, Recording(r)
    PROVE  /\ req[r].pc = "mint" /\ req'[r] = Idle
           /\ \A q \in Requests : q # r => req'[q] = req[q]
           /\ UNCHANGED <<clock, accountVer, chainVer, claims, tokens, started, auth, ended,
                          racers, redeemed>>
BY FinishFields DEF Recording, create_session, rotate_session, rotate_session_by_chain,
                    RecordStep, redisVars, historyVars

\* A minted token is of the request that mints it.
LEMMA MintAdds ==
    ASSUME TypeOK, NEW r \in Requests, create_access_token(r) \/ create_refresh_token(r)
    PROVE  /\ req[r].pc = "mint" /\ req[r].new \in Jtis
           /\ tokens \subseteq tokens'
           /\ \A t \in tokens' \ tokens : /\ t.jti = req[r].new /\ t.chain = req[r].chain
           /\ req'[r].op = req[r].op /\ req'[r].pc = "mint"
           /\ req'[r].chain = req[r].chain /\ req'[r].jti = req[r].jti
           /\ req'[r].new = req[r].new
           /\ \A q \in Requests : q # r => req'[q] = req[q]
           /\ UNCHANGED <<clock, accountVer, chainVer, claims, started, rows, auth, ended,
                          racers, redeemed>>
<1>1. req[r].pc = "mint" /\ \E type, life : Mint(r, type, life)
  BY DEF create_access_token, create_refresh_token
<1>2. req[r].new \in Jtis
  BY <1>1, RequestShape DEF TokenRequest, ChainRequest
<1>3. /\ tokens \subseteq tokens'
      /\ \A t \in tokens' \ tokens : /\ t.jti = req[r].new /\ t.chain = req[r].chain
  BY <1>1 DEF Mint
<1>4. \E k : req' = [req EXCEPT ![r].need = @ \ {k}]
  BY DEF create_access_token, create_refresh_token
<1>5. UNCHANGED <<clock, accountVer, chainVer, claims, started, rows, auth, ended,
                  racers, redeemed>>
  BY DEF create_access_token, create_refresh_token, redisVars, historyVars
<1> QED
  BY <1>1, <1>2, <1>3, <1>4, <1>5, NeedFacts, NeedFields

LEMMA JtiFactsNext ==
    ASSUME TypeOK, JtisAreFresh, JtiFacts, [Next]_vars
    PROVE  JtiFacts'
<1>0. /\ started \in Nat /\ started' \in Nat /\ NoJti \notin Jtis
      /\ \A t \in tokens : t.jti \in Jtis /\ t.jti \in Nat
      /\ \A a \in redeemed : a.by \in Nat
      /\ Idle.new = NoJti /\ Idle.pc = "idle"
  <2>1. TypeOK'
    BY NextType
  <2>2. started \in Nat /\ started' \in Nat
    BY <2>1, ConstantsAssumption DEF TypeOK, ConstantsAssumption
  <2>3. /\ NoJti \notin Jtis /\ Idle.new = NoJti /\ Idle.pc = "idle"
        /\ Jtis \subseteq Nat
    BY ConstantsAssumption DEF Jtis, NoJti, Idle, ConstantsAssumption
  <2>4. /\ \A t \in tokens : t.jti \in Jtis
        /\ \A a \in redeemed : a.by \in Jtis
    BY DEF TypeOK, Token
  <2> QED
    BY <2>2, <2>3, <2>4
<1> USE DEF JtiFacts
\* Requests that go on, end, or start anew.
<1>1. ASSUME tokens' \subseteq tokens, redeemed' = redeemed, started <= started',
             \A q \in Requests :
               \/ req'[q] = Idle
               \/ req'[q].new = started + 1 /\ started' = started + 1
               \/ /\ req'[q].new = req[q].new /\ req'[q].chain = req[q].chain
                  /\ req[q].pc = "mint" => req'[q].pc = "mint"
                  /\ req'[q].pc = "claim" => req[q].pc = "claim"
      PROVE  JtiFacts'
  <2>1. ASSUME NEW q \in Requests, NEW t \in tokens, t.jti = req'[q].new
        PROVE  t.chain = req'[q].chain /\ req'[q].pc = "mint"
    BY <1>0, <1>1, <2>1
  <2>2. ASSUME NEW a \in redeemed, NEW q \in Requests, req'[q].pc = "claim"
        PROVE  a.by # req'[q].new
    BY <1>0, <1>1, <2>2
  <2>3. \A t \in tokens : t.jti <= started'
    BY <1>0, <1>1
  <2>4. \A a \in redeemed : a.by <= started'
    BY <1>0, <1>1
  <2> QED
    BY <1>1, <2>1, <2>2, <2>3, <2>4
<1>2. ASSUME NEW r \in Requests, Step(r) PROVE JtiFacts'
  <2>1. /\ started' = started
        /\ \A q \in Requests : q # r => req'[q] = req[q]
        /\ \/ req'[r] = Idle
           \/ /\ req'[r].pc # "claim"
              /\ req'[r].chain = req[r].chain
              /\ req'[r].new = req[r].new
    BY <1>2, StepFacts
  <2>2. CASE create_access_token(r) \/ create_refresh_token(r)
    <3>1. \A t, u \in tokens' :
            t.type = "refresh" /\ u.type = "refresh" /\ t.jti = u.jti => t = u
      <4>1. \A t \in tokens : t.type = "refresh" =>
              \A q \in Requests : "refresh" \in req[q].need => req[q].new # t.jti
        BY DEF JtisAreFresh, Known
      <4>2. \A t \in tokens' : t.type = "refresh" =>
              \/ t \in tokens
              \/ t.jti = req[r].new /\ "refresh" \in req[r].need /\ tokens' = tokens \cup {t}
        BY <2>2, AccessMint, RefreshMint
      <4> QED
        BY <4>1, <4>2
    <3>2. \A t \in tokens' : t.jti <= started'
      BY <2>1, <2>2, MintAdds DEF JtisAreFresh
    <3>3. \A q \in Requests, t \in tokens' :
            t.jti = req'[q].new => t.chain = req'[q].chain /\ req'[q].pc = "mint"
      BY <1>0, <2>2, MintAdds DEF JtisAreFresh
    <3>4. \A a \in redeemed' : /\ a.by <= started'
                               /\ \A q \in Requests : req'[q].pc = "claim" => a.by # req'[q].new
      BY <2>2, MintAdds
    <3> QED
      BY <3>1, <3>2, <3>3, <3>4
  <2>3. CASE claim_jti_for_rotation(r)
    <3> DEFINE b == [jti |-> req[r].jti, by |-> req[r].new, at |-> clock, exp |-> req[r].exp]
    <3>1. redeemed' = redeemed \cup {b} /\ b.by = req[r].new /\ UNCHANGED tokens
      BY <2>3 DEF claim_jti_for_rotation
    <3>2. req'[r].pc = "mint" /\ req'[r].chain = req[r].chain /\ req'[r].new = req[r].new
      BY <2>3, GotoFacts, GotoFields DEF claim_jti_for_rotation
    <3>3. req[r].new # NoJti /\ req[r].new <= started
      BY <2>3, RequestShape
         DEF claim_jti_for_rotation, TokenRequest, Jtis, NoJti, JtisAreFresh
    <3> HIDE DEF b
    <3>4. \A a \in redeemed' : /\ a.by <= started'
                               /\ \A q \in Requests : req'[q].pc = "claim" => a.by # req'[q].new
      BY <2>1, <3>1, <3>2, <3>3 DEF JtisAreFresh
    <3>5. \A q \in Requests, t \in tokens' :
            t.jti = req'[q].new => t.chain = req'[q].chain /\ req'[q].pc = "mint"
      BY <2>1, <3>1, <3>2
    <3> QED
      BY <2>1, <3>1, <3>4, <3>5
  <2>4. CASE UNCHANGED <<tokens, claims, redeemed>> /\ ~claim_jti_for_rotation(r)
             /\ ~create_access_token(r) /\ ~create_refresh_token(r)
    <3>1. req[r].pc = "mint" => req'[r] = Idle
      BY <1>2, <2>4, MintSteps, RecordingFacts
    <3> QED
      BY <1>0, <1>1, <2>1, <2>4, <3>1
  <2> QED
    BY <1>2, <2>2, <2>3, <2>4, StepFacts
<1>3. ASSUME NEW r \in Requests, Start(r) PROVE JtiFacts'
  <2>1. CASE Started(r)
    BY <1>0, <1>1, <2>1 DEF Started
  <2>2. CASE UNCHANGED <<clock, accountVer, claims, tokens, redeemed, started, req>>
    BY <1>0, <1>1, <2>2
  <2> QED
    BY <1>3, <2>1, <2>2, StartFacts
<1>4. CASE (\E r \in Requests : Crash(r)) \/ Tick \/ FlushRedis \/ UNCHANGED vars
  BY <1>0, <1>1, <1>4, EnvironmentFacts
<1> QED
  BY <1>2, <1>3, <1>4 DEF Next

\* A token that is answered stays so, and others are when they are recorded.
LEMMA HeldNext ==
    ASSUME TypeOK, JtiFacts, [Next]_vars
    PROVE  /\ \A t \in Held : t \in Held'
           /\ \A t \in Held' : \/ t \in Held
                               \/ /\ t \in tokens
                                  /\ \E r \in Requests : Recording(r) /\ t.jti = req[r].new
<1> DEFINE Goal == /\ \A t \in Held : t \in Held'
                   /\ \A t \in Held' :
                        \/ t \in Held
                        \/ /\ t \in tokens
                           /\ \E r \in Requests : Recording(r) /\ t.jti = req[r].new
<1>0. /\ started \in Nat /\ NoJti \notin Jtis
      /\ \A t \in tokens : t.jti \in Jtis /\ t.jti \in Nat /\ t.jti <= started
      /\ Idle.new = NoJti
  BY ConstantsAssumption DEF TypeOK, Token, Jtis, NoJti, Idle, ConstantsAssumption, JtiFacts
<1> USE DEF Held
<1>1. ASSUME tokens' = tokens, \A q \in Requests : req'[q].new = req[q].new PROVE Goal
  BY <1>1
<1>2. ASSUME NEW r \in Requests, Step(r) PROVE Goal
  <2>1. /\ \A q \in Requests : q # r => req'[q] = req[q]
        /\ req'[r] = Idle \/ req'[r].new = req[r].new
    BY <1>2, StepFacts
  <2>2. CASE create_access_token(r) \/ create_refresh_token(r)
    BY <2>2, MintAdds
  <2>3. CASE tokens' = tokens /\ Recording(r)
    BY <1>0, <2>1, <2>3
  <2>4. CASE tokens' = tokens /\ ~Recording(r)
    <3>1. CASE req'[r].new = req[r].new
      BY <1>1, <2>1, <2>4, <3>1
    <3>2. CASE req'[r] = Idle
      <4>1. req[r].pc = "mint" => create_access_token(r) \/ create_refresh_token(r)
        BY <1>2, <2>4, MintSteps
      <4>2. req[r].pc # "mint" => \A t \in tokens : t.jti # req[r].new
        BY DEF JtiFacts
      <4> QED
        BY <1>0, <2>1, <2>2, <2>4, <3>2, <4>1, <4>2
    <3> QED
      BY <2>1, <3>1, <3>2
  <2> QED
    BY <1>2, <2>2, <2>3, <2>4, StepFacts DEF claim_jti_for_rotation
<1>3. ASSUME NEW r \in Requests, Start(r) PROVE Goal
  <2>1. CASE Started(r)
    <3>1. /\ tokens' = tokens /\ req'[r].new = started + 1 /\ req[r].new = NoJti
          /\ \A q \in Requests : q # r => req'[q] = req[q]
      BY <1>0, <2>1 DEF Started
    <3> QED
      BY <1>0, <3>1
  <2> QED
    BY <1>1, <1>3, <2>1, StartFacts
<1>4. ASSUME NEW r \in Requests, Crash(r) PROVE Goal
  <2>1. /\ tokens' = {t \in tokens : t.jti # req[r].new} /\ req'[r] = Idle
        /\ \A q \in Requests : q # r => req'[q] = req[q]
    BY <1>4, FinishFields DEF Crash
  <2> QED
    BY <1>0, <2>1
<1>5. CASE Tick \/ FlushRedis \/ UNCHANGED vars
  BY <1>1, <1>5 DEF Tick, FlushRedis, vars
<1> QED
  BY <1>2, <1>3, <1>4, <1>5 DEF Next

\* Who replaces tokens did so before, or has just claimed, logged in, or left
\* all tokens of the account behind.
LEMMA ReplacesNext ==
    ASSUME OnlyCrashes, TypeOK, StepsMatchHandlers, [Next]_vars, NEW q \in Requests,
           Replaces(q)'
    PROVE  \/ /\ Replaces(q) /\ req'[q].chain = req[q].chain /\ req'[q].new = req[q].new
              /\ req'[q].op = req[q].op /\ req'[q].jti = req[q].jti
              /\ req'[q].pc = "mint" => req[q].pc = "mint" \/ req[q].op # "refresh"
           \/ claim_jti_for_rotation(q)
           \/ login(q)
           \/ bump_account_version(q)
<1> DEFINE Goal == \/ /\ Replaces(q) /\ req'[q].chain = req[q].chain
                      /\ req'[q].new = req[q].new
                      /\ req'[q].op = req[q].op /\ req'[q].jti = req[q].jti
                      /\ req'[q].pc = "mint" => req[q].pc = "mint" \/ req[q].op # "refresh"
                   \/ claim_jti_for_rotation(q)
                   \/ login(q)
                   \/ bump_account_version(q)
<1>0. req'[q] = req[q] => Goal
  BY DEF Replaces, WillMint
<1>a. ~Finish(q)
  BY FinishFacts DEF Replaces, WillMint
<1>b. "redis" \notin Faults /\ "db" \notin Faults /\ "flush" \notin Faults
  BY DEF OnlyCrashes
<1>1. ASSUME NEW r \in Requests, Step(r) PROVE Goal
  <2>0. q # r => Goal
    BY <1>0, <1>1, StepFacts
  <2>1. CASE create_access_token(r) \/ create_refresh_token(r)
    BY <2>0, <2>1, MintAdds DEF Replaces, WillMint
  <2>2. CASE Recording(r)
    BY <1>a, <2>0, <2>2
       DEF Recording, create_session, rotate_session, rotate_session_by_chain, RecordStep
  <2>3. CASE claim_jti_for_rotation(r) \/ bump_account_version(r)
    BY <2>0, <2>3
  <2>4. CASE handle_reuse_detected(r)
    BY <2>0, <2>4, ReuseFields DEF Replaces, WillMint
  <2>5. CASE bump_chain_version(r) \/ expire_chain_version(r)
    BY <1>a, <2>0, <2>5, GotoFacts
       DEF bump_chain_version, expire_chain_version, AfterBump, Replaces, WillMint
  <2>6. CASE revoke_by_jti(r) \/ revoke_chain(r) \/ revoke_one_session(r)
    BY <1>a, <2>0, <2>6, GotoFacts
       DEF revoke_by_jti, revoke_chain, revoke_one_session, Replaces, WillMint
  <2>7. CASE count_active_sessions(r)
    BY <1>b, <2>0, <2>7, GotoFacts DEF count_active_sessions, Replaces, WillMint
  <2>8. CASE revoke_all_sessions(r)
    <3>1. req[r].pc = "revokeRows" /\ (Goto(r, "mint") \/ Finish(r))
      BY <2>8 DEF revoke_all_sessions, AfterRevokeAll
    <3>2. req[r].op \in {"logout_all", "change_password"}
      BY <3>1 DEF StepsMatchHandlers
    <3> QED
      BY <1>a, <2>0, <3>1, <3>2, GotoFacts, GotoFields DEF Replaces, WillMint
  <2>9. ~bump_chain_version_fails(r) /\ ~bump_account_version_fails(r)
    BY <1>b DEF bump_chain_version_fails, bump_account_version_fails
  <2> QED
    BY <1>1, <2>1, <2>2, <2>3, <2>4, <2>5, <2>6, <2>7, <2>8, <2>9 DEF Step, Recording
<1>2. ASSUME NEW r \in Requests, Start(r) PROVE Goal
  <2>1. ASSUME NEW t \in Held, refresh_tokens(r, t) \/ change_password(r, t) PROVE Goal
    BY <1>0, <2>1, BeginFacts DEF refresh_tokens, change_password, Replaces
  <2>2. ASSUME NEW t \in Held,
               \/ logout(r, t) \/ logout_without_row(r, t)
               \/ logout_all(r, t) \/ change_password_expired(r, t)
        PROVE Goal
    BY <1>0, <2>2, BeginFacts
       DEF logout, logout_without_row, logout_all, change_password_expired, Replaces
  <2>3. ASSUME NEW a \in Held, NEW i \in DOMAIN rows, NEW own, revoke_session(r, a, own, i)
        PROVE  Goal
    BY <1>0, <2>3, BeginFacts DEF revoke_session, Replaces
  <2>4. CASE login(r)
    <3>1. \E c : Begin(r, "login", "mint", c, NoJti, 0, 0, {"access", "refresh"})
      BY <2>4 DEF login
    <3> QED
      BY <1>0, <2>4, <3>1, BeginFacts
  <2> QED
    BY <1>2, <2>1, <2>2, <2>3, <2>4 DEF Start
<1>3. CASE (\E r \in Requests : Crash(r)) \/ Tick \/ FlushRedis \/ UNCHANGED vars
  <2>1. req'[q] = req[q] \/ req'[q] = Idle
    BY <1>3, EnvironmentFacts
  <2> QED
    BY <1>0, <2>1 DEF Idle, Replaces, WillMint
<1> QED
  BY <1>1, <1>2, <1>3 DEF Next

\* But for a whole-account revoke, versions stay, and who raced one still has.
LEMMA VersionMoves ==
    ASSUME OnlyCrashes, [Next]_vars, \A p \in Requests : ~bump_account_version(p)
    PROVE  /\ accountVer' = accountVer /\ racers \subseteq racers' /\ ended \subseteq ended'
           /\ auth' = auth \/ \E p \in Requests : login(p)
<1>1. RedisReliable
  BY DEF OnlyCrashes, RedisReliable
<1>2. \/ CoreUnchanged \/ Tick
      \/ \E r \in Requests : Minting(r) \/ login(r) \/ bump_chain_version(r)
                             \/ expire_chain_version(r) \/ Crash(r)
  BY <1>1, StepKinds
<1>3. CASE CoreUnchanged \/ Tick
  BY <1>3 DEF CoreUnchanged, Tick, redisVars, historyVars
<1>4. ASSUME NEW r \in Requests, Minting(r) \/ login(r) \/ bump_chain_version(r)
                                 \/ expire_chain_version(r) \/ Crash(r)
      PROVE  /\ accountVer' = accountVer /\ racers \subseteq racers' /\ ended \subseteq ended'
             /\ auth' = auth \/ login(r)
  BY <1>4 DEF Minting, login, bump_chain_version, expire_chain_version, Crash, redisVars,
              historyVars
<1> QED
  BY <1>2, <1>3, <1>4

\* A revoke of the account leaves every token behind, and of its racers it is
\* the only one that mints.
LEMMA AccountBump ==
    ASSUME TypeOK, StepsMatchHandlers, VersionsBound, NEW p \in Requests,
           bump_account_version(p), \A c \in Chains : auth[c] <= accountVer
    PROVE  /\ accountVer' = accountVer + 1
           /\ \A t \in tokens' : t.account_ver # accountVer'
           /\ tokens' = tokens /\ rows' = rows /\ ended' = ended
           /\ \A q \in Requests : q # p => req'[q] = req[q]
           /\ req'[p].op = req[p].op /\ req[p].op \in {"logout_all", "change_password"}
           /\ \A q \in Requests : q # p /\ WillMint(q) => req[q].chain \in racers'
           /\ \A c \in Chains : Settled(c)' =>
                req[p].op = "change_password" /\ c = req[p].chain /\ c \notin racers
<1>1. /\ req[p].pc = "bumpAccount" /\ Goto(p, "revokeRows")
      /\ accountVer' = accountVer + 1
      /\ racers' = InFlight(p) \cup (racers \cap {req[p].chain})
      /\ auth' = IF req[p].op = "change_password"
                 THEN [auth EXCEPT ![req[p].chain] = accountVer + 1] ELSE auth
      /\ UNCHANGED <<tokens, rows, ended>>
  BY DEF bump_account_version
<1>2. /\ accountVer \in Nat /\ \A t \in tokens : t.account_ver \in Nat
      /\ \A c \in Chains : auth[c] \in Nat \cup {NotYet}
  BY DEF TypeOK, Token
<1>3. \A t \in tokens : t.account_ver # accountVer + 1
  BY <1>2 DEF VersionsBound
<1>4. \A q \in Requests : q # p /\ WillMint(q) => req[q].chain \in racers'
  BY <1>1 DEF InFlight
<1>5. \A c \in Chains : auth[c] # accountVer + 1
  BY <1>2 DEF NotYet
<1>6. \A c \in Chains : Settled(c)' =>
        req[p].op = "change_password" /\ c = req[p].chain /\ c \notin racers
  BY <1>1, <1>5 DEF Settled, Alive, TypeOK
<1> QED
  BY <1>1, <1>3, <1>4, <1>6, GotoFacts DEF StepsMatchHandlers

LEMMA AuthBoundNext ==
    ASSUME OnlyCrashes, TypeOK, StepsMatchHandlers, [Next]_vars,
           \A c \in Chains : auth[c] <= accountVer
    PROVE  \A c \in Chains : auth'[c] <= accountVer'
<1>0. accountVer \in Nat /\ \A c \in Chains : auth[c] \in Nat \cup {NotYet}
  BY DEF TypeOK
<1>1. ASSUME NEW p \in Requests, bump_account_version(p)
      PROVE  \A c \in Chains : auth'[c] <= accountVer'
  BY <1>0, <1>1 DEF bump_account_version, NotYet, TypeOK
<1>2. CASE \A p \in Requests : ~bump_account_version(p)
  <2>1. ASSUME NEW p \in Requests, login(p), NEW c \in Chains PROVE auth'[c] <= accountVer
    BY <1>0, <2>1 DEF login, TypeOK
  <2> QED
    BY <1>2, <2>1, VersionMoves
<1> QED
  BY <1>1, <1>2

\* A rotation starts on a token that is answered and current.
LEMMA RefreshStarts ==
    ASSUME OnlyCrashes, TypeOK, NEW r \in Requests, Start(r), req'[r].op = "refresh",
           req'[r] # req[r]
    PROVE  \E t \in Held : /\ t.type = "refresh" /\ t.jti = req'[r].jti
                           /\ t.chain = req'[r].chain /\ t.account_ver = accountVer
                           /\ UNCHANGED <<accountVer, racers>>
<1>1. ASSUME NEW t \in Held, refresh_tokens(r, t)
      PROVE  /\ t.type = "refresh" /\ t.jti = req'[r].jti
             /\ t.chain = req'[r].chain /\ t.account_ver = accountVer
             /\ UNCHANGED <<accountVer, racers>>
  <2>1. Live(t)
    BY <1>1, CheckIsExact DEF refresh_tokens, OnlyCrashes, RedisReliable
  <2> QED
    BY <1>1, <2>1, BeginFacts, BeginFields DEF refresh_tokens, Live, redisVars, historyVars
<1>2. ASSUME NEW t \in Held,
             \/ logout(r, t) \/ logout_all(r, t)
             \/ change_password_expired(r, t) \/ change_password(r, t)
      PROVE  FALSE
  BY <1>2, BeginFacts DEF logout, logout_all, change_password_expired, change_password
<1>3. \A t \in Held : ~logout_without_row(r, t)
  BY DEF logout_without_row
<1>4. ASSUME NEW a \in Held, NEW i \in DOMAIN rows, NEW own, revoke_session(r, a, own, i)
      PROVE  FALSE
  BY <1>4, BeginFacts DEF revoke_session
<1>5. ~login(r)
  BY BeginFacts DEF login
<1> QED
  BY <1>1, <1>2, <1>3, <1>4, <1>5 DEF Start

LEMMA PresentedNext ==
    ASSUME OnlyCrashes, TypeOK, StepsMatchHandlers, VersionsBound, JtiFacts, Presented,
           \A c \in Chains : auth[c] <= accountVer, [Next]_vars
    PROVE  Presented'
<1> SUFFICES ASSUME NEW q \in Requests, req'[q].op = "refresh"
             PROVE  \E t \in Held' : /\ t.type = "refresh" /\ t.jti = req'[q].jti
                                     /\ t.chain = req'[q].chain
                                     /\ t.chain \notin racers' => t.account_ver = accountVer'
  BY DEF Presented
<1>0. \A t \in Held : t \in Held'
  BY HeldNext
\* q presents what it presented before.
<1>1. ASSUME req[q].op = "refresh", req'[q].jti = req[q].jti, req'[q].chain = req[q].chain
      PROVE  \E t \in Held' : /\ t.type = "refresh" /\ t.jti = req'[q].jti
                              /\ t.chain = req'[q].chain
                              /\ t.chain \notin racers' => t.account_ver = accountVer'
  <2>1. PICK t \in Held : /\ t.type = "refresh" /\ t.jti = req[q].jti
                          /\ t.chain = req[q].chain
                          /\ t.chain \notin racers => t.account_ver = accountVer
    BY <1>1 DEF Presented
  <2>2. t.chain \notin racers' => t.account_ver = accountVer'
    <3>1. ASSUME NEW p \in Requests, bump_account_version(p) PROVE t.chain \in racers'
      <4>1. q # p
        BY <1>1, <3>1, AccountBump
      <4> QED
        BY <1>1, <2>1, <3>1, <4>1, AccountBump DEF WillMint
    <3> QED
      BY <2>1, <3>1, VersionMoves
  <2> QED
    BY <1>0, <1>1, <2>1, <2>2
<1>2. req'[q] = req[q] => req[q].op = "refresh"
  OBVIOUS
<1>3. ASSUME NEW r \in Requests, Step(r) PROVE req[q].op = "refresh" /\ req'[q].jti = req[q].jti
                                               /\ req'[q].chain = req[q].chain
  <2>1. ~handle_reuse_detected(r) \/ q # r
    BY ReuseFields
  <2> QED
    BY <1>2, <1>3, <2>1, StepFacts DEF Idle
<1>4. ASSUME NEW r \in Requests, Start(r), req'[q] # req[q]
      PROVE  \E t \in Held' : /\ t.type = "refresh" /\ t.jti = req'[q].jti
                              /\ t.chain = req'[q].chain
                              /\ t.chain \notin racers' => t.account_ver = accountVer'
  <2>1. q = r
    BY <1>4, StartFacts DEF Started
  <2> QED
    BY <1>0, <1>4, <2>1, RefreshStarts
<1>5. CASE (\E r \in Requests : Crash(r)) \/ Tick \/ FlushRedis \/ UNCHANGED vars
  BY <1>1, <1>5, EnvironmentFacts DEF Idle
<1> QED
  BY <1>1, <1>3, <1>4, <1>5 DEF Next

\* The ways a mirror write changes the rows.
LEMMA RowFacts ==
    ASSUME TypeOK
    PROVE  \A i \in DOMAIN rows : /\ rows[i] \in Row /\ rows[i].chain_id \in Chains
                                  /\ rows[i].current_jti \in Jtis
                                  /\ rows[i].revoked \in BOOLEAN
<1>1. \A i \in DOMAIN rows : rows[i] \in Row
  BY DEF TypeOK
<1> QED
  BY <1>1 DEF Row

LEMMA AddedRow ==
    ASSUME TypeOK, NEW r \in Requests, rows' = Append(rows, RowFor(r))
    PROVE  LET n == Len(rows) + 1 IN
           /\ n \notin DOMAIN rows
           /\ DOMAIN rows' = DOMAIN rows \cup {n}
           /\ \A i \in DOMAIN rows : rows'[i] = rows[i]
           /\ rows'[n].current_jti = req[r].new
           /\ rows'[n].chain_id = req[r].chain
           /\ ~rows'[n].revoked
<1>1. rows \in Seq(Row)
  BY DEF TypeOK
<1>2. /\ RowFor(r).current_jti = req[r].new /\ RowFor(r).chain_id = req[r].chain
      /\ RowFor(r).revoked = FALSE
  BY DEF RowFor
<1> QED
  BY <1>1, <1>2

LEMMA MovedRow ==
    ASSUME TypeOK, NEW r \in Requests, NEW i \in DOMAIN rows, rows' = MoveRow(r, i)
    PROVE  /\ DOMAIN rows' = DOMAIN rows
           /\ \A k \in DOMAIN rows : k # i => rows'[k] = rows[k]
           /\ rows'[i].current_jti = req[r].new
           /\ rows'[i].chain_id = rows[i].chain_id
           /\ rows'[i].revoked = rows[i].revoked
<1> DEFINE w == [rows[i] EXCEPT !.current_jti = req[r].new]
<1>1. rows[i] \in Row
  BY RowFacts
<1>2. /\ w.current_jti = req[r].new /\ w.chain_id = rows[i].chain_id
      /\ w.revoked = rows[i].revoked
  BY <1>1 DEF Row
<1>3. rows' = [rows EXCEPT ![i] = w]
  BY DEF MoveRow
<1> HIDE DEF w
<1> QED
  BY <1>2, <1>3 DEF TypeOK

LEMMA RevokedRows ==
    ASSUME TypeOK, NEW S, rows' = RevokeRowsIn(S)
    PROVE  /\ DOMAIN rows' = DOMAIN rows
           /\ \A i \in DOMAIN rows :
                /\ rows'[i].current_jti = rows[i].current_jti
                /\ rows'[i].chain_id = rows[i].chain_id
                /\ rows'[i].revoked <=> (rows[i].revoked \/ i \in S)
<1>1. ASSUME NEW i \in DOMAIN rows
      PROVE  /\ rows'[i].current_jti = rows[i].current_jti
             /\ rows'[i].chain_id = rows[i].chain_id
             /\ rows'[i].revoked <=> (rows[i].revoked \/ i \in S)
  <2> DEFINE w == [rows[i] EXCEPT !.revoked = TRUE]
  <2>1. rows[i] \in Row
    BY RowFacts
  <2>2. /\ w.current_jti = rows[i].current_jti /\ w.chain_id = rows[i].chain_id
        /\ w.revoked = TRUE
    BY <2>1 DEF Row
  <2>3. rows'[i] = IF i \in S THEN w ELSE rows[i]
    BY DEF RevokeRowsIn
  <2> HIDE DEF w
  <2> QED
    BY <2>2, <2>3
<1> QED
  BY <1>1 DEF RevokeRowsIn

LEMMA RowMoves ==
    ASSUME OnlyCrashes, [Next]_vars
    PROVE  \/ rows' = rows
           \/ \E S : rows' = RevokeRowsIn(S)
           \/ \E r \in Requests : Recording(r)
<1>1. ASSUME NEW r \in Requests, Step(r), ~Recording(r)
      PROVE  rows' = rows \/ \E S : rows' = RevokeRowsIn(S)
  <2>1. CASE revoke_by_jti(r) \/ revoke_chain(r) \/ revoke_one_session(r)
             \/ revoke_all_sessions(r)
    BY <2>1 DEF revoke_by_jti, revoke_chain, revoke_one_session, revoke_all_sessions, Mirror
  <2>2. CASE \/ create_access_token(r) \/ create_refresh_token(r)
             \/ claim_jti_for_rotation(r) \/ handle_reuse_detected(r)
             \/ bump_chain_version(r) \/ expire_chain_version(r)
             \/ bump_chain_version_fails(r) \/ count_active_sessions(r)
             \/ bump_account_version(r) \/ bump_account_version_fails(r)
    BY <2>2
       DEF create_access_token, create_refresh_token, claim_jti_for_rotation,
           handle_reuse_detected, bump_chain_version, expire_chain_version,
           bump_chain_version_fails, count_active_sessions, bump_account_version,
           bump_account_version_fails
  <2> QED
    BY <1>1, <2>1, <2>2 DEF Step, Recording
<1>2. ASSUME NEW r \in Requests, Start(r) \/ Crash(r) PROVE rows' = rows
  BY <1>2 DEF Start, Crash, login, refresh_tokens, logout, logout_without_row, logout_all,
              change_password_expired, change_password, revoke_session
<1>3. CASE Tick \/ FlushRedis \/ UNCHANGED vars
  BY <1>3 DEF Tick, FlushRedis, vars
<1> QED
  BY <1>1, <1>2, <1>3 DEF Next

\* Recording adds a row with the new jti, or gives it to a row of the session.
LEMMA RecordedRow ==
    ASSUME OnlyCrashes, TypeOK, StepsMatchHandlers, Presented, RowsApart,
           NEW r \in Requests, Recording(r)
    PROVE  \/ /\ rows' = rows
              /\ req[r].op = "change_password"
              /\ Cardinality(ActiveOf(req[r].chain)) \notin {0, 1}
           \/ /\ rows' = Append(rows, RowFor(r))
              /\ (req[r].op = "refresh" => HoldingJti(req[r].jti) = {})
              /\ (req[r].op = "change_password" => Cardinality(ActiveOf(req[r].chain)) = 0)
           \/ \E i \in DOMAIN rows :
                /\ rows' = MoveRow(r, i)
                /\ rows[i].chain_id = req[r].chain
                /\ \/ req[r].op = "refresh" /\ rows[i].current_jti = req[r].jti
                   \/ req[r].op = "change_password" /\ ~rows[i].revoked
<1>1. "db" \notin Faults
  BY DEF OnlyCrashes
<1>2. CASE create_session(r)
  BY <1>1, <1>2 DEF create_session, RecordStep, Mirror
<1>3. CASE rotate_session(r)
  <2>1. req[r].op = "refresh"
    BY <1>3 DEF rotate_session, RecordStep
  <2>2. PICK t \in Held : t.type = "refresh" /\ t.jti = req[r].jti /\ t.chain = req[r].chain
    BY <2>1 DEF Presented
  <2>3. ASSUME NEW i \in HoldingJti(req[r].jti)
        PROVE  i \in DOMAIN rows /\ rows[i].current_jti = req[r].jti
               /\ rows[i].chain_id = req[r].chain
    BY <2>2, <2>3 DEF HoldingJti, Held, RowsApart
  <2> QED
    BY <1>1, <1>3, <2>1, <2>3 DEF rotate_session, Mirror
<1>4. CASE rotate_session_by_chain(r)
  <2>1. req[r].op = "change_password"
    BY <1>4 DEF rotate_session_by_chain, RecordStep
  <2>2. \A i \in ActiveOf(req[r].chain) :
          i \in DOMAIN rows /\ rows[i].chain_id = req[r].chain /\ ~rows[i].revoked
    BY DEF ActiveOf
  <2> QED
    BY <1>1, <1>4, <2>1, <2>2 DEF rotate_session_by_chain, Mirror
<1> QED
  BY <1>2, <1>3, <1>4 DEF Recording

LEMMA RowsApartNext ==
    ASSUME OnlyCrashes, TypeOK, StepsMatchHandlers, JtisAreFresh, JtiFacts, Presented,
           RowsApart, [Next]_vars
    PROVE  RowsApart'
<1>0. /\ started \in Nat /\ started' \in Nat /\ started <= started' /\ NoJti \notin Jtis
      /\ Idle.new = NoJti
      /\ \A i \in DOMAIN rows : rows[i].current_jti \in Jtis /\ rows[i].current_jti \in Nat
  <2>1. started' = started \/ started' = started + 1
    BY StepFacts, StartFacts, EnvironmentFacts DEF Next, Started
  <2> QED
    BY <2>1, RowFacts, ConstantsAssumption DEF TypeOK, Jtis, NoJti, Idle, ConstantsAssumption
\* Where rows have kept their jtis, what matters is which jtis are drawn.
<1>1. \A q \in Requests : \/ req'[q] = Idle \/ req'[q].new = req[q].new
                          \/ req'[q].new = started + 1
  BY StepFacts, StartFacts, EnvironmentFacts DEF Next, Started
<1>2. \A t \in tokens' : \/ t \in tokens
                         \/ \E r \in Requests : t.jti = req[r].new /\ t.chain = req[r].chain
  <2>1. ASSUME NEW r \in Requests, Step(r)
        PROVE  \A t \in tokens' : t \in tokens \/ (t.jti = req[r].new /\ t.chain = req[r].chain)
    BY <2>1, StepFacts, MintAdds DEF claim_jti_for_rotation
  <2> QED
    BY <2>1, StartFacts, EnvironmentFacts DEF Next, Started
<1>3. ASSUME DOMAIN rows' = DOMAIN rows,
             \A i \in DOMAIN rows : /\ rows'[i].current_jti = rows[i].current_jti
                                    /\ rows'[i].chain_id = rows[i].chain_id
      PROVE  RowsApart'
  <2>1. \A i, k \in DOMAIN rows' : rows'[i].current_jti = rows'[k].current_jti => i = k
    BY <1>3 DEF RowsApart
  <2>2. ASSUME NEW i \in DOMAIN rows'
        PROVE  /\ rows'[i].current_jti <= started'
               /\ \A r \in Requests : rows'[i].current_jti # req'[r].new
               /\ \A t \in tokens' : t.jti = rows'[i].current_jti => t.chain = rows'[i].chain_id
    BY <1>0, <1>1, <1>2, <1>3 DEF RowsApart
  <2> QED
    BY <2>1, <2>2 DEF RowsApart
<1>4. ASSUME NEW S, rows' = RevokeRowsIn(S) PROVE RowsApart'
  BY <1>3, <1>4, RevokedRows
<1>5. ASSUME NEW r \in Requests, Recording(r) PROVE RowsApart'
  <2>1. /\ req[r].pc = "mint" /\ req'[r] = Idle
        /\ \A q \in Requests : q # r => req'[q] = req[q]
        /\ UNCHANGED <<tokens, started>>
    BY <1>5, RecordingFacts
  <2>2. req[r].new \in Jtis /\ req[r].new <= started
    BY <2>1, RequestShape DEF TokenRequest, ChainRequest, JtisAreFresh
  <2>3. \A q \in Requests : q # r => req[q].new # req[r].new
    BY <1>0, <2>2 DEF JtisAreFresh
  <2>4. ASSUME NEW n, n \in DOMAIN rows', DOMAIN rows' \ {n} \subseteq DOMAIN rows,
               rows'[n].current_jti = req[r].new, rows'[n].chain_id = req[r].chain,
               \A i \in DOMAIN rows' \ {n} : rows'[i] = rows[i]
        PROVE  RowsApart'
    <3>1. \A i, k \in DOMAIN rows' : rows'[i].current_jti = rows'[k].current_jti => i = k
      BY <2>4 DEF RowsApart
    <3>2. \A i \in DOMAIN rows' :
            /\ rows'[i].current_jti <= started'
            /\ \A q \in Requests : rows'[i].current_jti # req'[q].new
      BY <1>0, <2>1, <2>2, <2>3, <2>4 DEF RowsApart
    <3>3. \A i \in DOMAIN rows', t \in tokens' :
            t.jti = rows'[i].current_jti => t.chain = rows'[i].chain_id
      BY <2>1, <2>4 DEF RowsApart, JtiFacts
    <3> QED
      BY <3>1, <3>2, <3>3 DEF RowsApart
  <2>5. CASE rows' = rows
    BY <1>3, <2>5
  <2>6. CASE rows' = Append(rows, RowFor(r))
    BY <2>4, <2>6, AddedRow
  <2>7. ASSUME NEW i \in DOMAIN rows, rows' = MoveRow(r, i), rows[i].chain_id = req[r].chain
        PROVE  RowsApart'
    BY <2>4, <2>7, MovedRow
  <2> QED
    BY <1>5, <2>5, <2>6, <2>7, RecordedRow
<1> QED
  BY <1>3, <1>4, <1>5, RowMoves


LEMMA RedeemedGrows ==
    ASSUME TypeOK, [Next]_vars
    PROVE  /\ redeemed \subseteq redeemed'
           /\ (RedeemedOnce' => RedeemedOnce)
<1>1. ASSUME NEW r \in Requests, Step(r) PROVE redeemed \subseteq redeemed'
  BY <1>1, StepFacts, AccessMint, RefreshMint DEF claim_jti_for_rotation
<1>2. redeemed \subseteq redeemed'
  BY <1>1, StartFacts, EnvironmentFacts DEF Next, Started
<1> QED
  BY <1>2 DEF RedeemedOnce

\* A session is settled after a step other than a revoke of the account: it
\* logged in, or was settled before.
LEMMA SettledBefore ==
    ASSUME OnlyCrashes, TypeOK, [Next]_vars, \A p \in Requests : ~bump_account_version(p),
           NEW c \in Chains, Settled(c)'
    PROVE  auth[c] = NotYet \/ Settled(c)
<1>1. /\ accountVer' = accountVer /\ racers \subseteq racers' /\ ended \subseteq ended'
      /\ auth' = auth \/ \E p \in Requests : login(p)
  BY VersionMoves
<1>2. ASSUME NEW p \in Requests, login(p) PROVE auth[c] = NotYet \/ auth'[c] = auth[c]
  BY <1>2 DEF login, TypeOK
<1> QED
  BY <1>1, <1>2 DEF Settled, Alive

\* Who claims a token of a settled session had the unspent one.
LEMMA ClaimSpends ==
    ASSUME TypeOK, StepsMatchHandlers, JtiFacts, Presented, RedeemedOnce',
           NEW q \in Requests, claim_jti_for_rotation(q), req[q].chain \notin racers
    PROVE  \E t \in Held : /\ Unspent(t) /\ t.chain = req[q].chain /\ t.jti = req[q].jti
                           /\ \E a \in redeemed' : a.jti = t.jti
<1> DEFINE b == [jti |-> req[q].jti, by |-> req[q].new, at |-> clock, exp |-> req[q].exp]
<1>1. req[q].pc = "claim" /\ redeemed' = redeemed \cup {b}
  BY DEF claim_jti_for_rotation
<1>2. req[q].op = "refresh"
  BY <1>1, RequestShape DEF StepsMatchHandlers, WillMint, TokenRequest
<1>3. PICK t \in Held : /\ t.type = "refresh" /\ t.jti = req[q].jti
                        /\ t.chain = req[q].chain
                        /\ t.account_ver = accountVer
  BY <1>2 DEF Presented
<1>4. b.jti = req[q].jti /\ b.by = req[q].new
  OBVIOUS
<1> HIDE DEF b
<1>5. \A a \in redeemed : a.jti # t.jti
  BY <1>1, <1>3, <1>4 DEF RedeemedOnce, JtiFacts
<1> QED
  BY <1>1, <1>3, <1>4, <1>5 DEF Unspent

\* After a revoke of the account, only a password change brings tokens.
LEMMA OneLineBumped ==
    ASSUME TypeOK, StepsMatchHandlers, VersionsBound, \A d \in Chains : auth[d] <= accountVer,
           NEW p \in Requests, bump_account_version(p), NEW c \in Chains, Settled(c)'
    PROVE  OneLine(c)'
<1>1. \A t \in Held' : ~Unspent(t)'
  BY AccountBump DEF Held, Unspent
<1>2. ASSUME NEW q \in Requests, Replaces(q)', req'[q].chain = c PROVE q = p
  BY <1>2, AccountBump DEF Settled, Replaces, WillMint
<1> QED
  BY <1>1, <1>2 DEF OneLine

\* A session that has just logged in has no tokens yet.
LEMMA OneLineLogin ==
    ASSUME OnlyCrashes, TypeOK, StepsMatchHandlers, ChainsWereLoggedIn, JtiFacts, [Next]_vars,
           \A p \in Requests : ~bump_account_version(p), NEW c \in Chains, auth[c] = NotYet
    PROVE  OneLine(c)'
<1>1. \A t \in Held' : t.chain # c
  BY HeldNext DEF ChainsWereLoggedIn, Held
<1>2. ASSUME NEW q \in Requests, Replaces(q)', req'[q].chain = c PROVE login(q)
  <2>1. req[q].chain # c
    BY DEF ChainsWereLoggedIn
  <2>2. ~claim_jti_for_rotation(q)
    BY <1>2, <2>1, GotoFacts DEF claim_jti_for_rotation
  <2> QED
    BY <1>2, <2>1, <2>2, ReplacesNext
<1>3. ASSUME NEW q \in Requests, NEW r \in Requests, login(q), login(r), Replaces(r)'
      PROVE  q = r
  <2>1. req[r] = Idle
    BY <1>3 DEF login, Begin
  <2>2. q # r => req'[r] = req[r]
    BY <1>3, BeginFacts DEF login
  <2> QED
    BY <1>3, <2>1, <2>2 DEF Replaces, WillMint, Idle
<1> QED
  BY <1>1, <1>2, <1>3 DEF OneLine

\* A settled session keeps its one line.
LEMMA OneLineKept ==
    ASSUME OnlyCrashes, TypeOK, StepsMatchHandlers, JtiFacts, Presented, RedeemedOnce',
           [Next]_vars, \A p \in Requests : ~bump_account_version(p),
           NEW c \in Chains, auth[c] # NotYet, Settled(c), OneLine(c)
    PROVE  OneLine(c)'
<1>1. accountVer' = accountVer /\ redeemed \subseteq redeemed'
  BY VersionMoves, RedeemedGrows
<1>2. \A t : Unspent(t)' => Unspent(t)
  BY <1>1 DEF Unspent
\* Who replaces tokens of c did so before, or has claimed the unspent one.
<1>3. ASSUME NEW q \in Requests, Replaces(q)', req'[q].chain = c
      PROVE  /\ req[q].chain = c
             /\ \/ Replaces(q)
                \/ /\ claim_jti_for_rotation(q)
                   /\ \E t \in Held : /\ Unspent(t) /\ t.chain = c
                                      /\ \E a \in redeemed' : a.jti = t.jti
  <2>1. ~login(q)
    BY <1>3, BeginFacts DEF login
  <2>2. ASSUME claim_jti_for_rotation(q) PROVE req[q].chain = c
    BY <1>3, <2>2, GotoFacts DEF claim_jti_for_rotation
  <2>3. c \notin racers
    BY DEF Settled
  <2> QED
    BY <1>3, <2>1, <2>2, <2>3, ReplacesNext, ClaimSpends
\* A token that has come to be held is that of the one that recorded it.
<1>4. ASSUME NEW t \in Held', t.chain = c
      PROVE  \/ t \in Held
             \/ \E p \in Requests : /\ Recording(p) /\ t.jti = req[p].new /\ t \in tokens
                                    /\ Replaces(p) /\ req[p].chain = c
  <2>1. ASSUME NEW p \in Requests, Recording(p), t \in tokens, t.jti = req[p].new
        PROVE  Replaces(p) /\ req[p].chain = c
    BY <1>4, <2>1, RecordingFacts DEF JtiFacts, Replaces, StepsMatchHandlers
  <2> QED
    BY <1>4, <2>1, HeldNext
<1>5. ASSUME NEW p \in Requests, Recording(p), NEW q \in Requests, Replaces(q)'
      PROVE  q # p /\ Replaces(q) /\ req'[q].chain = req[q].chain
  BY <1>5, RecordingFacts DEF Replaces, WillMint, Idle
<1>6. ASSUME NEW r \in Requests, NEW q \in Requests, Replaces(r)', req'[r].chain = c,
             Replaces(q)', req'[q].chain = c
      PROVE  r = q
  <2>1. ASSUME claim_jti_for_rotation(r), claim_jti_for_rotation(q) PROVE r = q
    <3>1. req[q].pc = "claim" /\ (r # q => req'[q] = req[q])
      BY <2>1, GotoFacts DEF claim_jti_for_rotation
    <3> QED
      BY <1>6, <3>1 DEF Replaces
  <2> QED
    BY <1>3, <1>6, <2>1 DEF OneLine
<1>7. ASSUME NEW t \in Held', NEW r \in Requests, Unspent(t)', t.chain = c, Replaces(r)',
             req'[r].chain = c
      PROVE  FALSE
  <2>1. CASE t \in Held
    <3>1. ~Replaces(r)
      BY <1>2, <1>3, <1>7, <2>1 DEF OneLine
    <3>2. PICK u \in Held : /\ Unspent(u) /\ u.chain = c
                            /\ \E a \in redeemed' : a.jti = u.jti
      BY <1>3, <1>7, <3>1
    <3>3. u = t
      BY <1>2, <1>7, <2>1, <3>2 DEF OneLine
    <3> QED
      BY <1>7, <3>2, <3>3 DEF Unspent
  <2>2. ASSUME NEW p \in Requests, Recording(p), Replaces(p), req[p].chain = c PROVE FALSE
    BY <1>5, <1>7, <2>2 DEF OneLine
  <2> QED
    BY <1>4, <1>7, <2>1, <2>2
<1>8. ASSUME NEW t \in Held', NEW u \in Held', Unspent(t)', t.chain = c, Unspent(u)', u.chain = c
      PROVE  t = u
  <2>1. ASSUME t \in Held, NEW p \in Requests, Replaces(p), req[p].chain = c PROVE FALSE
    BY <1>2, <1>8, <2>1 DEF OneLine
  <2>2. ASSUME u \in Held, NEW p \in Requests, Replaces(p), req[p].chain = c PROVE FALSE
    BY <1>2, <1>8, <2>2 DEF OneLine
  <2>3. CASE t \in Held /\ u \in Held
    BY <1>2, <1>8, <2>3 DEF OneLine
  <2>4. ASSUME NEW p \in Requests, Recording(p), NEW q \in Requests, Recording(q),
               t \in tokens, u \in tokens, t.jti = req[p].new, u.jti = req[q].new
        PROVE  t = u
    <3>1. p = q
      <4>1. req'[q] = Idle /\ req[q].pc = "mint" /\ (p # q => req'[q] = req[q])
        BY <2>4, RecordingFacts
      <4> QED
        BY <4>1 DEF Idle
    <3> QED
      BY <1>8, <2>4, <3>1 DEF JtiFacts, Unspent
  <2> QED
    BY <1>4, <1>8, <2>1, <2>2, <2>3, <2>4
<1> QED
  BY <1>6, <1>7, <1>8 DEF OneLine

\* Only recording activates a row or gives it another jti.
LEMMA ActiveBefore ==
    ASSUME OnlyCrashes, TypeOK, StepsMatchHandlers, Presented, RowsApart, [Next]_vars,
           NEW c \in Chains, \A r \in Requests : Recording(r) => req[r].chain # c,
           NEW i, ActiveRow(i, c)'
    PROVE  ActiveRow(i, c) /\ rows'[i].current_jti = rows[i].current_jti
<1> USE DEF ActiveRow
<1>1. ASSUME NEW S, rows' = RevokeRowsIn(S)
      PROVE  ActiveRow(i, c) /\ rows'[i].current_jti = rows[i].current_jti
  BY <1>1, RevokedRows
<1>2. ASSUME NEW r \in Requests, Recording(r)
      PROVE  ActiveRow(i, c) /\ rows'[i].current_jti = rows[i].current_jti
  <2>1. CASE rows' = Append(rows, RowFor(r))
    BY <1>2, <2>1, AddedRow
  <2>2. ASSUME NEW k \in DOMAIN rows, rows' = MoveRow(r, k), rows[k].chain_id = req[r].chain
        PROVE  ActiveRow(i, c) /\ rows'[i].current_jti = rows[i].current_jti
    BY <1>2, <2>2, MovedRow
  <2> QED
    BY <1>2, <2>1, <2>2, RecordedRow
<1> QED
  BY <1>1, <1>2, RowMoves

\* A login that has begun mints.
LEMMA LoginMints ==
    ASSUME TypeOK, StepsMatchHandlers, NEW r \in Requests, req[r].op = "login"
    PROVE  Replaces(r)
<1>1. req[r] \in ChainRequest
  BY DEF TypeOK, Request, Idle, TokenRequest, AccountRequest
<1> QED
  BY <1>1 DEF ChainRequest, StepsMatchHandlers, Replaces, WillMint

LEMMA LoginMintsNext ==
    ASSUME TypeOK, StepsMatchHandlers, [Next]_vars, NEW r \in Requests, req'[r].op = "login"
    PROVE  Replaces(r)'
<1>1. TypeOK' /\ StepsMatchHandlers'
  BY NextType, StepsMatchNext
<1>2. req'[r] \in Request
  BY <1>1 DEF TypeOK
<1>3. req'[r] \in ChainRequest
  BY <1>2 DEF Request, Idle, TokenRequest, AccountRequest
<1> QED
  BY <1>1, <1>3 DEF ChainRequest, StepsMatchHandlers, Replaces, WillMint

\* A password change that revokes the account leaves its own row alone.
LEMMA OneRowBumped ==
    ASSUME TypeOK, StepsMatchHandlers, VersionsBound, MintersVouched,
           \A d \in Chains : auth[d] <= accountVer, NEW p \in Requests,
           bump_account_version(p), NEW c \in Chains, Settled(c)', Settled(c) => OneRow(c)
    PROVE  OneRow(c)'
<1>1. /\ rows' = rows /\ req'[p].op = "change_password" /\ c = req[p].chain
      /\ WillMint(p) /\ c \notin racers
  BY AccountBump DEF WillMint
<1>2. OneRow(c)
  BY <1>1 DEF MintersVouched, Vouched, Settled, Alive
<1>3. \A t \in Held' : ~Unspent(t)'
  BY AccountBump DEF Held, Unspent
<1>4. ASSUME NEW q \in Requests, req'[q].chain = c PROVE req'[q].op \notin {"refresh", "login"}
  <2>1. CASE q = p
    BY <1>1, <2>1
  <2>2. CASE q # p
    BY <1>4, <2>2, AccountBump DEF WillMint, Settled
  <2> QED
    BY <2>1, <2>2
<1>5. \A i : ActiveRow(i, c)' => ActiveRow(i, c)
  BY <1>1 DEF ActiveRow
<1> QED
  BY <1>2, <1>3, <1>4, <1>5 DEF OneRow

\* While nobody records it, a settled session keeps its one row.
LEMMA OneRowKept ==
    ASSUME OnlyCrashes, TypeOK, StepsMatchHandlers, JtiFacts, Presented, RowsApart,
           RedeemedOnce', [Next]_vars, \A p \in Requests : ~bump_account_version(p),
           NEW c \in Chains, auth[c] # NotYet, Settled(c), OneRow(c),
           \A r \in Requests : Recording(r) => req[r].chain # c
    PROVE  OneRow(c)'
<1>1. accountVer' = accountVer /\ redeemed \subseteq redeemed'
  BY VersionMoves, RedeemedGrows
<1>2. \A i : ActiveRow(i, c)' => ActiveRow(i, c) /\ rows'[i].current_jti = rows[i].current_jti
  BY ActiveBefore
<1>3. ASSUME NEW t \in Held', Unspent(t)', t.chain = c PROVE t \in Held /\ Unspent(t)
  <2>1. ASSUME NEW r \in Requests, Recording(r), t \in tokens, t.jti = req[r].new PROVE FALSE
    BY <1>3, <2>1 DEF JtiFacts
  <2> QED
    BY <1>1, <1>3, <2>1, HeldNext DEF Unspent
<1>4. ASSUME NEW r \in Requests, req'[r].chain = c PROVE ~login(r)
  BY <1>4, BeginFacts DEF login
<1>5. ASSUME NEW r \in Requests, req'[r].chain = c, req'[r].op = "refresh", req'[r].pc = "mint",
             NEW i, ActiveRow(i, c)
      PROVE  rows[i].current_jti = req'[r].jti
  <2>1. CASE claim_jti_for_rotation(r)
    <3>1. req[r].chain = c /\ req'[r].jti = req[r].jti
      BY <1>5, <2>1, GotoFacts, GotoFields DEF claim_jti_for_rotation
    <3>2. PICK t \in Held : Unspent(t) /\ t.chain = c /\ t.jti = req[r].jti
      BY <2>1, <3>1, ClaimSpends DEF Settled
    <3> QED
      BY <1>5, <3>1, <3>2 DEF OneRow
  <2>2. CASE ~claim_jti_for_rotation(r)
    <3>1. Replaces(r)'
      BY <1>5 DEF Replaces, WillMint
    <3>2. /\ req[r].chain = c /\ req[r].op = "refresh" /\ req[r].pc = "mint"
          /\ req'[r].jti = req[r].jti
      BY <1>4, <1>5, <2>2, <3>1, ReplacesNext
    <3> QED
      BY <1>5, <3>2 DEF OneRow
  <2> QED
    BY <2>1, <2>2
<1>6. ASSUME NEW r \in Requests, req'[r].chain = c, req'[r].op = "login"
      PROVE  req[r].chain = c /\ req[r].op = "login"
  <2>1. ~claim_jti_for_rotation(r)
    <3>1. claim_jti_for_rotation(r) => req[r].op = "refresh" /\ req'[r].op = req[r].op
      BY RequestShape, GotoFacts
         DEF claim_jti_for_rotation, StepsMatchHandlers, WillMint, TokenRequest
    <3> QED
      BY <1>6, <3>1
  <2> QED
    BY <1>4, <1>6, <2>1, LoginMintsNext, ReplacesNext
<1> QED
  BY <1>2, <1>3, <1>5, <1>6 DEF OneRow

\* A settled session has no active row, or one.
LEMMA ActiveRows ==
    ASSUME NEW c, OneRow(c)
    PROVE  \/ ActiveOf(c) = {} /\ Cardinality(ActiveOf(c)) = 0
           \/ \E i : ActiveOf(c) = {i} /\ Cardinality(ActiveOf(c)) = 1
<1>1. \A i : i \in ActiveOf(c) <=> ActiveRow(i, c)
  BY DEF ActiveOf, ActiveRow
<1>2. \A i, k \in ActiveOf(c) : i = k
  BY <1>1 DEF OneRow
<1>3. CASE ActiveOf(c) = {}
  BY <1>3, FS_EmptySet
<1>4. ASSUME NEW i \in ActiveOf(c)
      PROVE  ActiveOf(c) = {i} /\ Cardinality(ActiveOf(c)) = 1
  <2>1. ActiveOf(c) = {i}
    BY <1>2, <1>4
  <2> QED
    BY <2>1, FS_Singleton
<1> QED
  BY <1>3, <1>4

\* Whoever records a settled session leaves it one row, which holds its jti.
LEMMA RecordedIsActive ==
    ASSUME OnlyCrashes, TypeOK, StepsMatchHandlers, Presented, RowsApart,
           NEW r \in Requests, Recording(r), NEW c, c = req[r].chain, OneRow(c),
           NEW k, ActiveRow(k, c)'
    PROVE  rows'[k].current_jti = req[r].new
<1>1. req[r].pc = "mint" /\ req[r].op \in {"login", "refresh", "change_password"}
  BY RecordingFacts DEF StepsMatchHandlers, WillMint
<1>2. CASE rows' = rows /\ req[r].op = "change_password"
           /\ Cardinality(ActiveOf(req[r].chain)) \notin {0, 1}
  BY <1>2, ActiveRows
<1>3. CASE /\ rows' = Append(rows, RowFor(r))
           /\ (req[r].op = "refresh" => HoldingJti(req[r].jti) = {})
           /\ (req[r].op = "change_password" => Cardinality(ActiveOf(req[r].chain)) = 0)
  <2>1. ~ActiveRow(k, c)
    <3>1. CASE req[r].op = "login"
      BY <3>1 DEF OneRow
    <3>2. CASE req[r].op = "refresh"
      BY <1>1, <1>3, <3>2 DEF OneRow, HoldingJti, ActiveRow
    <3>3. CASE req[r].op = "change_password"
      <4>1. ActiveOf(c) = {}
        BY <1>3, <3>3, ActiveRows
      <4> QED
        BY <4>1 DEF ActiveOf, ActiveRow
    <3> QED
      BY <1>1, <3>1, <3>2, <3>3
  <2> QED
    BY <1>3, <2>1, AddedRow DEF ActiveRow
<1>4. ASSUME NEW i \in DOMAIN rows, rows' = MoveRow(r, i), rows[i].chain_id = req[r].chain,
             \/ req[r].op = "refresh" /\ rows[i].current_jti = req[r].jti
             \/ req[r].op = "change_password" /\ ~rows[i].revoked
      PROVE  rows'[k].current_jti = req[r].new
  <2>1. /\ DOMAIN rows' = DOMAIN rows
        /\ \A n \in DOMAIN rows : n # i => rows'[n] = rows[n]
        /\ rows'[i].current_jti = req[r].new
        /\ rows'[i].chain_id = rows[i].chain_id
        /\ rows'[i].revoked = rows[i].revoked
    BY <1>4, MovedRow
  <2>2. ActiveRow(k, c)
    BY <2>1 DEF ActiveRow
  <2>3. k = i
    <3>1. CASE req[r].op = "refresh" /\ rows[i].current_jti = req[r].jti
      BY <1>1, <2>2, <3>1 DEF OneRow, RowsApart, ActiveRow
    <3>2. CASE req[r].op = "change_password" /\ ~rows[i].revoked
      BY <1>4, <2>2, <3>2 DEF OneRow, ActiveRow
    <3> QED
      BY <1>4, <3>1, <3>2
  <2> QED
    BY <2>1, <2>3
<1> QED
  BY <1>2, <1>3, <1>4, RecordedRow

LEMMA OneRowRecorded ==
    ASSUME OnlyCrashes, TypeOK, StepsMatchHandlers, JtisAreFresh, JtiFacts, Presented,
           RowsApart, [Next]_vars, \A p \in Requests : ~bump_account_version(p),
           NEW r \in Requests, Recording(r), NEW c \in Chains, c = req[r].chain,
           OneLine(c), OneRow(c)
    PROVE  OneRow(c)'
<1>1. /\ req'[r] = Idle /\ Replaces(r)
      /\ \A q \in Requests : q # r => req'[q] = req[q]
      /\ accountVer' = accountVer /\ redeemed' = redeemed
  BY RecordingFacts DEF Replaces, StepsMatchHandlers
<1>2. \A i : ActiveRow(i, c)' => rows'[i].current_jti = req[r].new
  BY RecordedIsActive
<1>3. \A i, k : ActiveRow(i, c)' /\ ActiveRow(k, c)' => i = k
  BY <1>2, RowsApartNext DEF RowsApart, ActiveRow
<1>4. ASSUME NEW t \in Held', Unspent(t)', t.chain = c PROVE t.jti = req[r].new
  <2>1. ~(t \in Held)
    BY <1>1, <1>4 DEF OneLine, Unspent
  <2>2. PICK p \in Requests : Recording(p) /\ t.jti = req[p].new
    BY <2>1, HeldNext
  <2>3. p = r
    <3>1. p # r => req'[r] = req[r]
      BY <2>2, RecordingFacts
    <3> QED
      BY <1>1, <3>1 DEF Idle, Replaces, WillMint
  <2> QED
    BY <2>2, <2>3
<1>5. ASSUME NEW q \in Requests, req'[q].chain = c,
             req'[q].op = "login" \/ (req'[q].op = "refresh" /\ req'[q].pc = "mint")
      PROVE  FALSE
  <2>1. q # r /\ req'[q] = req[q]
    BY <1>1, <1>5 DEF Idle
  <2>2. Replaces(q)
    BY <1>5, <2>1, LoginMints DEF Replaces, WillMint
  <2> QED
    BY <1>1, <1>5, <2>1, <2>2 DEF OneLine
<1> QED
  BY <1>2, <1>3, <1>4, <1>5 DEF OneRow

LEMMA OneRowLogin ==
    ASSUME OnlyCrashes, TypeOK, StepsMatchHandlers, ChainsWereLoggedIn, Presented, RowsApart,
           [Next]_vars, NEW c \in Chains, auth[c] = NotYet
    PROVE  OneRow(c)'
<1>1. \A r \in Requests : req[r].chain # c
  BY DEF ChainsWereLoggedIn
<1>2. \A i : ~ActiveRow(i, c)
  BY DEF ChainsWereLoggedIn, ActiveRow
<1>3. \A i : ~ActiveRow(i, c)'
  BY <1>1, <1>2, ActiveBefore
<1> QED
  BY <1>3 DEF OneRow

\* One line and one row, whatever step is taken.
LEMMA OneLineNext ==
    ASSUME OnlyCrashes, LineInv, [Next]_vars, RedeemedOnce', NEW c \in Chains, Settled(c)'
    PROVE  OneLine(c)' /\ OneRow(c)'
<1> USE DEF LineInv, SessionInv, RedemptionInv
<1>1. Settled(c) => OneLine(c) /\ OneRow(c)
  BY RedeemedGrows
<1>2. ASSUME NEW p \in Requests, bump_account_version(p) PROVE OneLine(c)' /\ OneRow(c)'
  BY <1>1, <1>2, OneLineBumped, OneRowBumped
<1>3. CASE \A p \in Requests : ~bump_account_version(p)
  <2>1. CASE auth[c] = NotYet
    BY <1>3, <2>1, OneLineLogin, OneRowLogin
  <2>2. CASE auth[c] # NotYet
    <3>1. Settled(c) /\ OneLine(c) /\ OneRow(c)
      BY <1>1, <1>3, <2>2, SettledBefore
    <3>2. OneLine(c)'
      BY <1>3, <2>2, <3>1, OneLineKept
    <3>3. OneRow(c)'
      <4>1. CASE \A r \in Requests : Recording(r) => req[r].chain # c
        BY <1>3, <2>2, <3>1, <4>1, OneRowKept
      <4>2. ASSUME NEW r \in Requests, Recording(r), req[r].chain = c PROVE OneRow(c)'
        BY <1>3, <3>1, <4>2, OneRowRecorded
      <4> QED
        BY <4>1, <4>2
    <3> QED
      BY <3>2, <3>3
  <2> QED
    BY <2>1, <2>2
<1> QED
  BY <1>2, <1>3

LEMMA LineInvNext ==
    ASSUME OnlyCrashes, AccessLife <= RefreshLife, LineInv, [Next]_vars
    PROVE  LineInv'
<1>0. RedisReliable /\ "flush" \notin Faults
  BY DEF OnlyCrashes, RedisReliable
<1>1. /\ TypeOK /\ StepsMatchHandlers /\ VersionsBound /\ SessionInv /\ RedemptionInv
      /\ JtisAreFresh /\ JtiFacts /\ Presented /\ RowsApart
      /\ \A c \in Chains : auth[c] <= accountVer
  BY DEF LineInv, SessionInv, RedemptionInv
<1>2. SessionInv'
  BY <1>0, <1>1, SessionInvNext
<1>3. RedemptionInv'
  BY <1>0, <1>1, NextType, JtisAreFreshNext, RedemptionNext DEF RedemptionInv
<1>4. JtiFacts'
  BY <1>1, JtiFactsNext
<1>5. \A c \in Chains : auth'[c] <= accountVer'
  BY <1>1, AuthBoundNext
<1>6. Presented'
  BY <1>1, PresentedNext
<1>7. RowsApart'
  BY <1>1, RowsApartNext
<1>8. RedeemedOnce' => \A c \in Chains : Settled(c)' => OneLine(c)' /\ OneRow(c)'
  BY OneLineNext
<1> QED
  BY <1>2, <1>3, <1>4, <1>5, <1>6, <1>7, <1>8 DEF LineInv

LEMMA LineInvInit == Init => LineInv
<1> SUFFICES ASSUME Init PROVE LineInv
  OBVIOUS
<1>1. SessionInv /\ RedemptionInv
  BY SessionInvInit, RedemptionInvInit
<1>2. /\ tokens = {} /\ redeemed = {} /\ DOMAIN rows = {}
      /\ \A r \in Requests : req[r].op = "none" /\ req[r].pc = "idle"
  BY DEF Init, Idle
<1>3. JtiFacts /\ Presented /\ RowsApart
  BY <1>2 DEF JtiFacts, Presented, RowsApart
<1>4. \A c \in Chains : auth[c] <= accountVer
  BY DEF Init, NotYet
<1>5. \A c \in Chains : OneLine(c) /\ OneRow(c)
  BY <1>2 DEF OneLine, OneRow, ActiveRow, Held, Replaces, WillMint
<1> QED
  BY <1>1, <1>3, <1>4, <1>5 DEF LineInv

\* The claim of a redeemed token lasts into its last second.
LEMMA UnclaimedIsUnspent ==
    ASSUME RedemptionInv, NEW t \in tokens, t.type = "refresh", Live(t), ~Claimed(t.jti),
           ~LastSecond(t)
    PROVE  Unspent(t)
<1>1. /\ t.jti \in Jtis /\ t.exp \in Nat /\ clock \in Nat /\ Second \in Nat
      /\ claims[t.jti] \in Nat \cup {NotClaimed}
  BY ConstantsAssumption DEF RedemptionInv, TypeOK, Token, ConstantsAssumption
<1>2. ASSUME NEW a \in redeemed, a.jti = t.jti PROVE FALSE
  <2>1. Known(t.jti, a.exp) /\ Known(t.jti, t.exp)
    BY <1>2 DEF Known
  <2>2. a.exp = t.exp
    BY <2>1 DEF RedemptionInv, JtisAreFresh
  <2>3. claims[t.jti] # NotClaimed /\ claims[t.jti] > t.exp - Second
    BY <1>2, <2>2 DEF RedemptionInv, ClaimsOutlive
  <2> QED
    BY <1>1, <2>3 DEF LastSecond, Claimed
<1> QED
  BY <1>2 DEF Live, Unspent

LEMMA NobodyRedeemsTwice ==
    ASSUME RedemptionInv, NoLateReplay PROVE RedeemedOnce
<1> SUFFICES ASSUME NEW a \in redeemed, NEW b \in redeemed, a.jti = b.jti, a # b
             PROVE  FALSE
  BY DEF RedeemedOnce
<1>1. a.exp - a.at \in Int /\ a.exp - b.at \in Int /\ Second \in Int
  BY ConstantsAssumption DEF RedemptionInv, TypeOK, ConstantsAssumption
<1>2. a.exp - a.at < Second \/ a.exp - b.at < Second
  BY DEF RedemptionInv, ReplayOnlyInLastSecond
<1>3. a.exp - a.at >= Second /\ a.exp - b.at >= Second
  BY DEF NoLateReplay
<1> QED
  BY <1>1, <1>2, <1>3

\* A session that no revoke has raced has one row that shows it as active,
\* however many requests rotate it, change its password, end other sessions or
\* die between two awaits: rotate and rotate_by_chain_id move the row they
\* find, and the claim lets one rotation at a time look for it.
THEOREM SessionsHaveOneRow ==
    ASSUME OnlyCrashes, AccessLife <= RefreshLife
    PROVE  Spec => []OneActiveRowPerChain
<1>1. Init => LineInv
  BY LineInvInit
<1>2. LineInv /\ [Next]_vars => LineInv'
  BY LineInvNext
<1>3. LineInv => OneActiveRowPerChain
  <2> SUFFICES ASSUME LineInv, NoLateReplay, NEW c \in Chains, Alive(c), c \notin racers
               PROVE  Cardinality(ActiveOf(c)) <= 1
    BY DEF OneActiveRowPerChain
  <2>1. RedeemedOnce
    BY NobodyRedeemsTwice DEF LineInv
  <2>2. OneRow(c)
    BY <2>1 DEF LineInv, Settled
  <2> QED
    BY <2>2, ActiveRows
<1> QED
  BY <1>1, <1>2, <1>3, PTL DEF Spec

\* A session that no revoke has raced has one refresh token that can still be
\* redeemed, its last second aside, however many requests present its tokens at
\* once and wherever they die: SET NX lets one of them pass, and a password
\* change bumps the account version before it mints.
THEOREM SessionsHaveOneToken ==
    ASSUME OnlyCrashes, AccessLife <= RefreshLife
    PROVE  Spec => []OneUsableTokenPerChain
<1>1. Init => LineInv
  BY LineInvInit
<1>2. LineInv /\ [Next]_vars => LineInv'
  BY LineInvNext
<1>3. LineInv => OneUsableTokenPerChain
  <2> SUFFICES ASSUME LineInv, NoLateReplay, NEW t \in tokens, NEW u \in tokens,
                      t.type = "refresh", Live(t), ~Claimed(t.jti), ~LastSecond(t),
                      u.type = "refresh", Live(u), ~Claimed(u.jti), ~LastSecond(u),
                      t.chain = u.chain, t.chain \notin racers
               PROVE  t = u
    BY DEF OneUsableTokenPerChain
  <2>1. RedeemedOnce
    BY NobodyRedeemsTwice DEF LineInv
  <2>2. Unspent(t) /\ Unspent(u)
    BY UnclaimedIsUnspent DEF LineInv
  <2>3. t.chain \in Chains /\ Settled(t.chain)
    BY RetiredIsDead
       DEF LineInv, SessionInv, TokensVouched, Vouched, Settled, Alive, TypeOK, Token
  <2>4. OneLine(t.chain) /\ JtiFacts
    BY <2>1, <2>3 DEF LineInv
  \* Whoever is not answered yet is the one that replaces the session's tokens.
  <2>5. ASSUME NEW w \in tokens, w \notin Held
        PROVE  \E r \in Requests : Replaces(r) /\ req[r].chain = w.chain /\ req[r].new = w.jti
    BY <2>4, <2>5 DEF Held, JtiFacts, LineInv, SessionInv, StepsMatchHandlers, Replaces
  <2> QED
    BY <2>2, <2>4, <2>5 DEF OneLine, JtiFacts, Unspent
<1> QED
  BY <1>1, <1>2, <1>3, PTL DEF Spec
=============================================================================
