---------------------------- MODULE TokenSessions ----------------------------
(***************************************************************************)
(* One account's tokens, the Redis keys that decide whether they are       *)
(* valid, and the Postgres rows that mirror its sessions.                  *)
(*                                                                         *)
(* A login mints a chain id; every token it leads to carries that id, the  *)
(* account version and the chain version read when it was minted.  A token *)
(* is current while both numbers equal the ones in Redis.  Each request is *)
(* a process: one action per await that reads or writes shared state, so   *)
(* requests interleave exactly where the event loop lets them.             *)
(*                                                                         *)
(* The two version reads of one check, and of one mint, are a single step: *)
(* versions only grow, so reading them apart yields the same tokens up to  *)
(* ones that are already stale.  The SELECT and the UPDATE of one          *)
(* repository method are also a single step.                               *)
(***************************************************************************)
EXTENDS Integers, FiniteSets, Sequences

CONSTANTS
    Requests,     \* requests that can be in flight at the same time
    Chains,       \* chain ids (uuid4 values) a login can draw
    NoChain,      \* stands for "no chain id"
    MaxRequests,  \* bound: requests started in all
    Second,       \* clock ticks in a second: a tick is a fraction of one
    AccessLife,   \* ACCESS_TOKEN_EXPIRE_MINUTES, in seconds
    RefreshLife,  \* REFRESH_TOKEN_EXPIRE_MINUTES, in seconds
    MaxClock,     \* bound: last tick of the clock
    Faults        \* which faults occur: a subset of FaultKinds

FaultKinds == {"redis", "db", "crash", "flush"}

ASSUME ConstantsAssumption ==
    /\ NoChain \notin Chains
    /\ MaxRequests \in Nat
    /\ Second \in Nat \ {0}
    /\ AccessLife \in Nat \ {0}
    /\ RefreshLife \in Nat \ {0}
    /\ MaxClock \in Nat
    /\ Faults \subseteq FaultKinds

VARIABLES
    clock,        \* the time, in ticks
    accountVer,   \* account_ver:{email}
    chainVer,     \* chain_ver:{email}:{chain}: its value and when it expires
    claims,       \* revoked:{jti}: when the claim expires, NotClaimed if unset
    tokens,       \* every token minted whose response was not lost
    started,      \* how many requests were started
    rows,         \* user_sessions: a row's id is its index
    req,          \* the requests in flight
    auth,         \* history: the account version each chain last proved
                  \*          its credentials under, NotYet before its login
    ended,        \* history: chains a targeted revoke has ended
    racers,       \* history: chains another request was already minting for
                  \*          when a revoke of them took effect
    redeemed,     \* history: every successful claim, and who made it when
    loggedOut     \* history: jtis a completed logout presented

redisVars   == <<accountVer, chainVer, claims>>
historyVars == <<auth, ended, racers, redeemed, loggedOut>>
vars == <<clock, redisVars, tokens, started, rows, req, historyVars>>

\* A jti is the number of the request that mints it.  (The access token of
\* a pair has a jti of its own, which is never claimed or stored.)
Jtis       == 1 .. MaxRequests
NoJti      == 0
NoTTL      == -1    \* a Redis key without an expiry
NotClaimed == -1
NotYet     == -1

Token == [type : {"access", "refresh"}, jti : Jtis, chain : Chains,
          account_ver : Nat, chain_ver : Nat, exp : Nat]

\* user_sessions, less the columns that are only displayed.
Row == [current_jti : Jtis, chain_id : Chains, revoked : BOOLEAN]

Idle == [op |-> "none", pc |-> "idle", chain |-> NoChain, jti |-> NoJti, exp |-> 0,
         new |-> NoJti, row |-> 0, need |-> {}, seen |-> 0]

\* A request: its handler, its next step, the chain it works on, the jti and
\* the expiry of the refresh token it presented, the jti it may mint, the row
\* it ends, the tokens it has still to mint, and the account version when it
\* started.  The handlers differ in what they start from.
TokenRequest ==
    [op : {"refresh", "reuse", "logout"},
     pc : {"claim", "mint", "bumpChain", "expireChain", "revokeRow"},
     chain : Chains, jti : Jtis, exp : Nat, new : Jtis, row : Nat,
     need : SUBSET {"access", "refresh"}, seen : Nat]

ChainRequest ==
    [op : {"login", "change_password", "revoke_one"},
     pc : {"mint", "count", "bumpAccount", "revokeRows",
           "revokeRow", "bumpChain", "expireChain"},
     chain : Chains, jti : {NoJti}, exp : {0}, new : Jtis, row : Nat,
     need : SUBSET {"access", "refresh"}, seen : Nat]

AccountRequest ==
    [op : {"logout_all"}, pc : {"count", "bumpAccount", "revokeRows"},
     chain : {NoChain}, jti : {NoJti}, exp : {0}, new : Jtis, row : {0},
     need : {{}}, seen : Nat]

Request == {Idle} \cup TokenRequest \cup ChainRequest \cup AccountRequest

TypeOK ==
    /\ clock \in Nat
    /\ accountVer \in Nat
    /\ chainVer \in [Chains -> [ver : Nat, expireAt : Nat \cup {NoTTL}]]
    /\ claims \in [Jtis -> Nat \cup {NotClaimed}]
    /\ tokens \subseteq Token
    /\ started \in 0 .. MaxRequests
    /\ rows \in Seq(Row)
    /\ req \in [Requests -> Request]
    /\ auth \in [Chains -> Nat \cup {NotYet}]
    /\ ended \subseteq Chains
    /\ racers \subseteq Chains
    /\ redeemed \subseteq [jti : Jtis, by : Jtis, at : Nat, exp : Nat]
    /\ loggedOut \subseteq Jtis

Init ==
    /\ clock = 0
    /\ accountVer = 0
    /\ chainVer = [c \in Chains |-> [ver |-> 0, expireAt |-> NoTTL]]
    /\ claims = [j \in Jtis |-> NotClaimed]
    /\ tokens = {}
    /\ started = 0
    /\ rows = <<>>
    /\ req = [r \in Requests |-> Idle]
    /\ auth = [c \in Chains |-> NotYet]
    /\ ended = {}
    /\ racers = {}
    /\ redeemed = {}
    /\ loggedOut = {}

-----------------------------------------------------------------------------
(* Reading Redis and judging tokens.                                       *)

\* PyJWT stores exp in whole seconds, rounding the fraction away.
Exp(life) == (clock \div Second + life) * Second

\* The signature and expiry check of jwt.decode.
Decodes(t) == t.exp > clock

\* The key holds a value: a key that was never set holds 0 in this model.
KeyLives(c) == chainVer[c].expireAt = NoTTL \/ chainVer[c].expireAt > clock

get_chain_version(c) == IF KeyLives(c) THEN chainVer[c].ver ELSE 0

\* What a version read may return: 0 when the read raises.
Reads(v) == {v} \cup (IF "redis" \in Faults THEN {0} ELSE {})

\* Mutant: the account version is not compared.
chain_version_only(t) == t.chain_ver \in Reads(get_chain_version(t.chain))

is_current_version(t) ==
    /\ t.account_ver \in Reads(accountVer)
    /\ t.chain_ver \in Reads(get_chain_version(t.chain))

Claimed(j) == claims[j] # NotClaimed /\ claims[j] > clock

\* What the numbers in Redis say of a token, faults aside.
Live(t) == /\ Decodes(t)
           /\ t.account_ver = accountVer
           /\ t.chain_ver = get_chain_version(t.chain)

verify_access(t) == t.type = "access" /\ Decodes(t) /\ is_current_version(t)

\* Tokens whose response was sent: whoever holds one may present it.
Held == {t \in tokens : \A r \in Requests : req[r].new # t.jti}

\* A request past its own check of credentials or token: it will mint.
WillMint(r) == req[r].op \in {"login", "refresh", "change_password"}

\* Chains for which some request other than r has yet to mint.
InFlight(r) == {req[q].chain : q \in {p \in Requests : p # r /\ WillMint(p)}}

Goto(r, pc) == req' = [req EXCEPT ![r].pc = pc]
Finish(r)   == req' = [req EXCEPT ![r] = Idle]
Begin(r, op, pc, chain, jti, exp, row, need) ==
    /\ req[r] = Idle
    /\ started < MaxRequests
    /\ started' = started + 1
    /\ req' = [req EXCEPT ![r] =
                 [op |-> op, pc |-> pc, chain |-> chain, jti |-> jti, exp |-> exp,
                  new |-> started + 1, row |-> row, need |-> need,
                  seen |-> accountVer]]

-----------------------------------------------------------------------------
(* Minting.                                                                *)

Mint(r, type, life) ==
    \E a \in Reads(accountVer), v \in Reads(get_chain_version(req[r].chain)) :
        tokens' = tokens \cup
            {[type |-> type, jti |-> req[r].new, chain |-> req[r].chain,
              account_ver |-> a, chain_ver |-> v, exp |-> Exp(life)]}

create_access_token(r) ==
    /\ req[r].pc = "mint"
    /\ "access" \in req[r].need
    /\ Mint(r, "access", AccessLife)
    /\ req' = [req EXCEPT ![r].need = @ \ {"access"}]
    /\ UNCHANGED <<clock, redisVars, started, rows, historyVars>>

\* A login mints both tokens concurrently; a rotation and a password change
\* mint the access token first.
create_refresh_token(r) ==
    /\ req[r].pc = "mint"
    /\ "refresh" \in req[r].need
    /\ req[r].op = "login" \/ "access" \notin req[r].need
    /\ Mint(r, "refresh", RefreshLife)
    /\ req' = [req EXCEPT ![r].need = @ \ {"refresh"}]
    /\ UNCHANGED <<clock, redisVars, started, rows, historyVars>>

-----------------------------------------------------------------------------
(* The mirror: session_repository, and the except clauses around it.       *)

ActiveOf(c) == {i \in DOMAIN rows : rows[i].chain_id = c /\ ~rows[i].revoked}
HoldingJti(j) == {i \in DOMAIN rows : rows[i].current_jti = j}

\* Mutant: the session is recorded without its chain id.
RowWithoutChain(r) ==
    [current_jti |-> req[r].new, chain_id |-> NoChain, revoked |-> FALSE]

RowFor(r) == [current_jti |-> req[r].new, chain_id |-> req[r].chain, revoked |-> FALSE]

\* Mutant: a rotation finds the row and forgets to store the new jti.
MoveRowKeepingJti(r, i) == rows

\* rotate and rotate_by_chain_id move a row to the new jti and leave its
\* revoked_at alone.
MoveRow(r, i) == [rows EXCEPT ![i].current_jti = req[r].new]
RevokeRowsIn(S) == [i \in DOMAIN rows |->
                      IF i \in S THEN [rows[i] EXCEPT !.revoked = TRUE] ELSE rows[i]]

\* A mirror write that raises is logged and the handler goes on.
Mirror(write) == write \/ ("db" \in Faults /\ UNCHANGED rows)

\* The tokens are minted; the handler records them and answers.
RecordStep(r, op) ==
    /\ req[r].op = op
    /\ req[r].pc = "mint"
    /\ req[r].need = {}
    /\ Finish(r)
    /\ UNCHANGED <<clock, redisVars, tokens, started, historyVars>>

create_session(r) ==
    /\ RecordStep(r, "login")
    /\ Mirror(rows' = Append(rows, RowFor(r)))

\* Mutant: a rotation always adds a row.
rotate_session_appends(r) ==
    /\ RecordStep(r, "refresh")
    /\ Mirror(rows' = Append(rows, RowFor(r)))

\* No row holds the presented jti: a row for the session is added.
rotate_session(r) ==
    /\ RecordStep(r, "refresh")
    /\ Mirror(IF HoldingJti(req[r].jti) = {}
              THEN rows' = Append(rows, RowFor(r))
              ELSE \E i \in HoldingJti(req[r].jti) : rows' = MoveRow(r, i))

\* scalar_one_or_none raises on two active rows: nothing is then written.
rotate_session_by_chain(r) ==
    /\ RecordStep(r, "change_password")
    /\ Mirror(CASE Cardinality(ActiveOf(req[r].chain)) = 0 ->
                     rows' = Append(rows, RowFor(r))
                [] Cardinality(ActiveOf(req[r].chain)) = 1 ->
                     \E i \in ActiveOf(req[r].chain) : rows' = MoveRow(r, i)
                [] OTHER -> UNCHANGED rows)

-----------------------------------------------------------------------------
(* Login and rotation.                                                     *)

\* The credentials were accepted; the chain id is a fresh uuid.
login(r) ==
    \E c \in Chains :
        /\ auth[c] = NotYet
        /\ Begin(r, "login", "mint", c, NoJti, 0, 0, {"access", "refresh"})
        /\ auth' = [auth EXCEPT ![c] = accountVer]
        /\ UNCHANGED <<clock, redisVars, tokens, rows, ended, racers,
                       redeemed, loggedOut>>

\* A token that is not a current refresh token is turned away without effect.
refresh_tokens(r, t) ==
    /\ t.type = "refresh"
    /\ Decodes(t)
    /\ is_current_version(t)
    /\ Begin(r, "refresh", "claim", t.chain, t.jti, t.exp, 0, {"access", "refresh"})
    /\ UNCHANGED <<clock, redisVars, tokens, rows, historyVars>>

\* Mutant: the claim is kept for one second only.
OneSecondClaim(exp) == Second

\* Whole seconds left to the token, at least one: the claim's expiry.
ClaimTTL(exp) == IF exp - clock < Second THEN Second
                 ELSE ((exp - clock) \div Second) * Second

\* Mutant: SET without NX: a claim always succeeds.
claim_without_nx(r) ==
    /\ req[r].pc = "claim"
    /\ claims' = [claims EXCEPT ![req[r].jti] = clock + ClaimTTL(req[r].exp)]
    /\ redeemed' = redeemed \cup
         {[jti |-> req[r].jti, by |-> req[r].new, at |-> clock,
           exp |-> req[r].exp]}
    /\ Goto(r, "mint")
    /\ UNCHANGED <<clock, accountVer, chainVer, tokens, started, rows, auth, ended,
                   racers, loggedOut>>

\* SET revoked:{jti} NX EX ttl.
claim_jti_for_rotation(r) ==
    /\ req[r].pc = "claim"
    /\ ~Claimed(req[r].jti)
    /\ claims' = [claims EXCEPT ![req[r].jti] = clock + ClaimTTL(req[r].exp)]
    /\ redeemed' = redeemed \cup
         {[jti |-> req[r].jti, by |-> req[r].new, at |-> clock,
           exp |-> req[r].exp]}
    /\ Goto(r, "mint")
    /\ UNCHANGED <<clock, accountVer, chainVer, tokens, started, rows, auth, ended,
                   racers, loggedOut>>

\* The claim was taken, or the command raised: both are treated as reuse.
handle_reuse_detected(r) ==
    /\ req[r].pc = "claim"
    /\ Claimed(req[r].jti) \/ "redis" \in Faults
    /\ req' = [req EXCEPT ![r].op = "reuse", ![r].pc = "bumpChain"]
    /\ UNCHANGED <<clock, redisVars, tokens, started, rows, historyVars>>

-----------------------------------------------------------------------------
(* Ending one session.                                                     *)

\* Only an unrevoked row that holds the presented jti leads to a revoke; the
\* answer is the same either way.
logout(r, t) ==
    /\ t.type = "refresh"
    /\ Decodes(t)
    /\ \E i \in HoldingJti(t.jti) :
         /\ ~rows[i].revoked
         /\ Begin(r, "logout", "bumpChain", rows[i].chain_id, t.jti, t.exp, i, {})
    /\ UNCHANGED <<clock, redisVars, tokens, rows, historyVars>>

logout_without_row(r, t) ==
    /\ req[r] = Idle
    /\ t.type = "refresh"
    /\ Decodes(t)
    /\ "db" \in Faults \/ \A i \in HoldingJti(t.jti) : rows[i].revoked
    /\ loggedOut' = loggedOut \cup {t.jti}
    /\ UNCHANGED <<clock, redisVars, tokens, started, rows, req, auth, ended,
                   racers, redeemed>>

\* own is the chain in the caller's refresh-token cookie, NoChain without one:
\* ending one's own session here is refused.
revoke_session(r, a, own, i) ==
    /\ verify_access(a)
    /\ ~rows[i].revoked
    /\ rows[i].chain_id # own
    /\ Begin(r, "revoke_one", "revokeRow", rows[i].chain_id, NoJti, 0, i, {})
    /\ UNCHANGED <<clock, redisVars, tokens, rows, historyVars>>

\* INCR chain_ver:{email}:{chain}; an expired key counts from zero again.
bump_chain_version(r) ==
    LET c == req[r].chain IN
    /\ req[r].pc = "bumpChain"
    /\ chainVer' = [chainVer EXCEPT ![c] =
         [ver |-> get_chain_version(c) + 1,
          expireAt |-> IF KeyLives(c) THEN chainVer[c].expireAt ELSE NoTTL]]
    /\ ended' = ended \cup {c}
    /\ racers' = racers \cup ({c} \cap InFlight(r))
    /\ Goto(r, "expireChain")
    /\ UNCHANGED <<clock, accountVer, claims, tokens, started, rows, auth, redeemed,
                   loggedOut>>

\* The step after the chain's key is written.
AfterBump(r) == IF req[r].op = "revoke_one" THEN Finish(r) ELSE Goto(r, "revokeRow")

\* Mutant: the chain's key lives as long as an access token.
expire_with_access_life(r) ==
    /\ req[r].pc = "expireChain"
    /\ chainVer' = [chainVer EXCEPT ![req[r].chain].expireAt =
                      IF KeyLives(req[r].chain) THEN clock + AccessLife * Second ELSE @]
    /\ AfterBump(r)
    /\ UNCHANGED <<clock, accountVer, claims, tokens, started, rows, historyVars>>

\* EXPIRE; it does nothing to a key that expired since the INCR.
expire_chain_version(r) ==
    /\ req[r].pc = "expireChain"
    /\ chainVer' = [chainVer EXCEPT ![req[r].chain].expireAt =
                      IF KeyLives(req[r].chain) THEN clock + RefreshLife * Second ELSE @]
    /\ AfterBump(r)
    /\ UNCHANGED <<clock, accountVer, claims, tokens, started, rows, historyVars>>

\* INCR or EXPIRE raised: logged, and the handler goes on.
bump_chain_version_fails(r) ==
    /\ "redis" \in Faults
    /\ req[r].pc \in {"bumpChain", "expireChain"}
    /\ AfterBump(r)
    /\ UNCHANGED <<clock, redisVars, tokens, started, rows, historyVars>>

\* Mutant: the row is left active by a logout.
logout_leaves_row(r) ==
    /\ req[r].op = "logout"
    /\ req[r].pc = "revokeRow"
    /\ Finish(r)
    /\ loggedOut' = loggedOut \cup {req[r].jti}
    /\ UNCHANGED <<clock, redisVars, tokens, started, rows, auth, ended, racers, redeemed>>

\* revoke_by_jti after a logout: the row may have moved to another jti.
revoke_by_jti(r) ==
    /\ req[r].op = "logout"
    /\ req[r].pc = "revokeRow"
    /\ Mirror(rows' = RevokeRowsIn(HoldingJti(req[r].jti)))
    /\ Finish(r)
    /\ loggedOut' = loggedOut \cup {req[r].jti}
    /\ UNCHANGED <<clock, redisVars, tokens, started, auth, ended, racers, redeemed>>

\* revoke_by_chain_id after reuse: two active rows raise, and neither is revoked.
revoke_chain(r) ==
    /\ req[r].op = "reuse"
    /\ req[r].pc = "revokeRow"
    /\ Mirror(rows' = RevokeRowsIn(IF Cardinality(ActiveOf(req[r].chain)) = 1
                                   THEN ActiveOf(req[r].chain) ELSE {}))
    /\ Finish(r)
    /\ UNCHANGED <<clock, redisVars, tokens, started, historyVars>>

\* revoke_by_id reads the row through the session's identity map, which holds
\* the copy the handler loaded: a revoke made meanwhile goes unnoticed.  A
\* database error ends the request with a 500 before the version is bumped.
revoke_one_session(r) ==
    /\ req[r].op = "revoke_one"
    /\ req[r].pc = "revokeRow"
    /\ \/ rows' = RevokeRowsIn({req[r].row}) /\ Goto(r, "bumpChain")
       \/ "db" \in Faults /\ UNCHANGED rows /\ Finish(r)
    /\ UNCHANGED <<clock, redisVars, tokens, started, historyVars>>

-----------------------------------------------------------------------------
(* Ending every session.                                                   *)

logout_all(r, t) ==
    /\ t.type = "refresh"
    /\ Decodes(t)
    /\ Begin(r, "logout_all", "count", NoChain, NoJti, 0, 0, {})
    /\ UNCHANGED <<clock, redisVars, tokens, rows, historyVars>>

\* The new password is stored; every session but the caller's is to end, and
\* the caller's is given fresh tokens.
change_password(r, a) ==
    /\ verify_access(a)
    /\ Begin(r, "change_password", "count", a.chain, NoJti, 0, 0, {"access", "refresh"})
    /\ UNCHANGED <<clock, redisVars, tokens, rows, historyVars>>

\* The access token was checked, and has run out when its chain is read: every
\* session is to end, the caller's with them, and nothing is minted.
change_password_expired(r, a) ==
    /\ a.type = "access"
    /\ a.exp = clock
    /\ is_current_version(a)
    /\ Begin(r, "logout_all", "count", NoChain, NoJti, 0, 0, {})
    /\ UNCHANGED <<clock, redisVars, tokens, rows, historyVars>>

\* revoke_all_tokens_for_user returns; a password change still has to mint.
AfterRevokeAll(r) == IF req[r].op = "change_password" THEN Goto(r, "mint")
                     ELSE Finish(r)

\* Mutant: nothing to revoke when the mirror shows no active session.
count_returns_early(r) ==
    /\ req[r].pc = "count"
    /\ IF \A i \in DOMAIN rows : rows[i].revoked THEN AfterRevokeAll(r)
       ELSE Goto(r, "bumpAccount")
    /\ UNCHANGED <<clock, redisVars, tokens, started, rows, historyVars>>

\* Mutant: a whole-account revoke waits until it is alone.
count_waits_for_others(r) ==
    /\ req[r].pc = "count"
    /\ \A q \in Requests : q = r \/ req[q] = Idle
    /\ Goto(r, "bumpAccount")
    /\ UNCHANGED <<clock, redisVars, tokens, started, rows, historyVars>>

\* A database error while counting leaves the method through its except
\* clause: nothing is bumped.
count_active_sessions(r) ==
    /\ req[r].pc = "count"
    /\ Goto(r, "bumpAccount") \/ ("db" \in Faults /\ AfterRevokeAll(r))
    /\ UNCHANGED <<clock, redisVars, tokens, started, rows, historyVars>>

\* Mutant: SET account_ver 1 in place of INCR.
set_account_version(r) ==
    /\ req[r].pc = "bumpAccount"
    /\ accountVer' = 1
    /\ racers' = InFlight(r) \cup (racers \cap {req[r].chain})
    /\ auth' = IF req[r].op = "change_password"
               THEN [auth EXCEPT ![req[r].chain] = accountVer + 1] ELSE auth
    /\ Goto(r, "revokeRows")
    /\ UNCHANGED <<clock, chainVer, claims, tokens, started, rows, ended, redeemed,
                   loggedOut>>

\* INCR account_ver:{email}.
bump_account_version(r) ==
    /\ req[r].pc = "bumpAccount"
    /\ accountVer' = accountVer + 1
    /\ racers' = InFlight(r) \cup (racers \cap {req[r].chain})
    /\ auth' = IF req[r].op = "change_password"
               THEN [auth EXCEPT ![req[r].chain] = accountVer + 1] ELSE auth
    /\ Goto(r, "revokeRows")
    /\ UNCHANGED <<clock, chainVer, claims, tokens, started, rows, ended, redeemed,
                   loggedOut>>

bump_account_version_fails(r) ==
    /\ "redis" \in Faults
    /\ req[r].pc = "bumpAccount"
    /\ Goto(r, "revokeRows")
    /\ UNCHANGED <<clock, redisVars, tokens, started, rows, historyVars>>

\* A logout-all revokes every row; a password change spares its own chain.
revoke_all_sessions(r) ==
    /\ req[r].pc = "revokeRows"
    /\ Mirror(rows' = RevokeRowsIn({i \in DOMAIN rows :
                        rows[i].chain_id # req[r].chain}))
    /\ AfterRevokeAll(r)
    /\ UNCHANGED <<clock, redisVars, tokens, started, historyVars>>

-----------------------------------------------------------------------------
(* The environment.                                                        *)

Tick ==
    /\ clock < MaxClock
    /\ clock' = clock + 1
    /\ UNCHANGED <<redisVars, tokens, started, rows, req, historyVars>>

\* The process serving a request dies: what it minted reaches nobody.
Crash(r) ==
    /\ "crash" \in Faults
    /\ req[r] # Idle
    /\ Finish(r)
    /\ tokens' = {t \in tokens : t.jti # req[r].new}
    /\ UNCHANGED <<clock, redisVars, started, rows, historyVars>>

\* Redis restarts without its data.
FlushRedis ==
    /\ "flush" \in Faults
    /\ accountVer' = 0
    /\ chainVer' = [c \in Chains |-> [ver |-> 0, expireAt |-> NoTTL]]
    /\ claims' = [j \in Jtis |-> NotClaimed]
    /\ UNCHANGED <<clock, tokens, started, rows, req, historyVars>>

Step(r) ==
    \/ create_access_token(r) \/ create_refresh_token(r)
    \/ create_session(r) \/ rotate_session(r) \/ rotate_session_by_chain(r)
    \/ claim_jti_for_rotation(r) \/ handle_reuse_detected(r)
    \/ bump_chain_version(r) \/ expire_chain_version(r)
    \/ bump_chain_version_fails(r)
    \/ revoke_by_jti(r) \/ revoke_chain(r) \/ revoke_one_session(r)
    \/ count_active_sessions(r)
    \/ bump_account_version(r) \/ bump_account_version_fails(r)
    \/ revoke_all_sessions(r)

Start(r) ==
    \/ login(r)
    \/ \E t \in Held : \/ refresh_tokens(r, t)
                       \/ logout(r, t)
                       \/ logout_without_row(r, t)
                       \/ logout_all(r, t)
                       \/ change_password(r, t)
                       \/ change_password_expired(r, t)
    \/ \E a \in Held, i \in DOMAIN rows :
         \E own \in {a.chain, NoChain} : revoke_session(r, a, own, i)

Next ==
    \/ \E r \in Requests : Start(r) \/ Step(r) \/ Crash(r)
    \/ Tick
    \/ FlushRedis

Spec == Init /\ [][Next]_vars

\* Requests run to completion: the event loop resumes every coroutine whose
\* await has completed.
FairSpec == Spec /\ \A r \in Requests : WF_vars(Step(r))

-----------------------------------------------------------------------------
(* Properties.                                                             *)

Quiet == \A r \in Requests : req[r] = Idle

\* The only sessions that outlive a revoke (logout-all, password change,
\* logout, targeted revoke, reuse detection) are ones a request was already
\* past its own check for when the version was bumped.
SurvivorsWereInFlight ==
    \A t \in tokens : Live(t) =>
        \/ t.chain \in racers
        \/ auth[t.chain] = accountVer /\ t.chain \notin ended

\* The two properties above and below rest on this inductive invariant.  A
\* token is retired when nothing but a fault of Redis can make it valid again:
\* it expired, or a version it carries was left behind by a key that outlives
\* the token.
Retired(t) ==
    \/ t.exp <= clock
    \/ t.account_ver < accountVer
    \/ /\ t.chain_ver < chainVer[t.chain].ver
       /\ chainVer[t.chain].expireAt = NoTTL \/ t.exp <= chainVer[t.chain].expireAt

Vouched(c) == c \in racers \/ (auth[c] = accountVer /\ c \notin ended)

StepsMatchHandlers ==
    \A r \in Requests :
        /\ req[r].pc \in {"claim", "mint"} => WillMint(r)
        /\ req[r].pc \in {"bumpChain", "expireChain", "revokeRow"} => ~WillMint(r)
        /\ req[r].pc \in {"count", "bumpAccount", "revokeRows"} =>
             req[r].op \in {"logout_all", "change_password"}

ChainsWereLoggedIn ==
    /\ \A t \in tokens : auth[t.chain] # NotYet
    /\ \A i \in DOMAIN rows : auth[rows[i].chain_id] # NotYet
    /\ \A r \in Requests : req[r].chain \in Chains => auth[req[r].chain] # NotYet
    /\ \A c \in ended : auth[c] # NotYet

VersionsBound ==
    /\ \A t \in tokens : /\ t.account_ver <= accountVer
                         /\ t.exp <= clock + RefreshLife * Second
                         /\ t.chain \notin ended => t.chain_ver = 0
    /\ \A c \in Chains \ ended : chainVer[c].ver = 0 /\ chainVer[c].expireAt = NoTTL

MintersVouched == \A r \in Requests : WillMint(r) => Vouched(req[r].chain)

TokensVouched == \A t \in tokens : Retired(t) \/ Vouched(t.chain)

BumpedChainsEnded ==
    \A r \in Requests : req[r].pc = "expireChain" => req[r].chain \in ended

SessionInv ==
    /\ TypeOK
    /\ StepsMatchHandlers
    /\ BumpedChainsEnded
    /\ ChainsWereLoggedIn
    /\ VersionsBound
    /\ MintersVouched
    /\ TokensVouched

\* No session outlives a revoke: "One INCR ends every session on the account
\* at once", and a targeted revoke "ends exactly that one session".  It holds
\* only while requests are served one at a time; what holds always is
\* SurvivorsWereInFlight.
RevokeEndsSessions ==
    \A t \in tokens : Live(t) =>
        auth[t.chain] = accountVer /\ t.chain \notin ended

\* A refresh token is redeemed once; a second redemption can only come in the
\* last second of its life: the claim outlives the token but for the fraction
\* its TTL rounds away.
ReplayOnlyInLastSecond ==
    \A a, b \in redeemed : a.jti = b.jti /\ a # b =>
        a.exp - a.at < Second \/ a.exp - b.at < Second

\* A token that stopped being valid never becomes valid again, whatever
\* expires or is bumped afterwards: the chain's key outlives the tokens it
\* revokes.  A chain that raced a revoke is excepted: a token minted after the
\* EXPIRE outlives the key, and an INCR that then counts from zero matches it.
DeadStaysDead ==
    [][\A t \in tokens : Live(t)' => Live(t) \/ t.chain \in racers]_vars

\* No token has been redeemed again in its last second, as
\* ReplayOnlyInLastSecond lets one be.
NoLateReplay ==
    \A a, b \in redeemed : a.jti = b.jti /\ a # b =>
        a.exp - a.at >= Second /\ a.exp - b.at >= Second

\* A session no revoke has ended.
Alive(c) == auth[c] = accountVer /\ c \notin ended

\* No token has been redeemed twice.
RedeemedOnce == \A a, b \in redeemed : a.jti = b.jti => a = b

\* A token that has less than a second left: its claim may have run out.
LastSecond(t) == t.exp - clock < Second

\* Of requests served one at a time: when nothing is in flight, the Manage
\* Sessions rows and the versions in Redis agree on which sessions are alive.
MirrorAgrees ==
    Quiet /\ RedeemedOnce =>
        /\ \A t \in tokens : Live(t) => ActiveOf(t.chain) # {}
        /\ \A i \in DOMAIN rows : ~rows[i].revoked =>
             auth[rows[i].chain_id] = accountVer /\ rows[i].chain_id \notin ended

\* One active row per living session, whatever overlaps: rotations of other
\* tokens, logins, password changes and revokes of any session move, add and
\* revoke rows in between.  A session that raced a revoke is excepted: its
\* rotation and the password change that overtook it both record a row.
OneActiveRowPerChain ==
    NoLateReplay => \A c \in Chains :
        Alive(c) /\ c \notin racers => Cardinality(ActiveOf(c)) <= 1

\* A session has at most one refresh token left to redeem, tokens in their last
\* second aside, however many requests present its tokens at once: a rotation
\* retires the token it consumes, and a password change the ones it replaces.
\* A session that raced a revoke is excepted: what was being minted is current too.
OneUsableTokenPerChain ==
    NoLateReplay =>
        \A t, u \in tokens :
            /\ t.type = "refresh" /\ Live(t) /\ ~Claimed(t.jti) /\ ~LastSecond(t)
            /\ u.type = "refresh" /\ Live(u) /\ ~Claimed(u.jti) /\ ~LastSecond(u)
            /\ t.chain = u.chain
            /\ t.chain \notin racers
            => t = u

\* Of requests served one at a time: a refresh token presented to a completed
\* logout cannot be redeemed, unless a rotation had consumed it and its claim
\* ran out in its last second.
LoggedOutTokenIsDead ==
    RedeemedOnce =>
        \A t \in tokens : t.type = "refresh" /\ t.jti \in loggedOut =>
            ~Live(t) \/ Claimed(t.jti) \/ LastSecond(t)

\* A whole-account revoke that answers has moved the account version: every
\* token minted before it started is stale.
RevokeAllTakesEffect ==
    [][\A r \in Requests :
         req[r].op \in {"logout_all", "change_password"} /\ req[r]' = Idle
            => accountVer > req[r].seen]_vars

\* Every request is answered: none waits for another.
RequestsAnswered == \A r \in Requests : req[r] # Idle ~> req[r] = Idle
=============================================================================
