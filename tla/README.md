# A TLA+ verification of the balance sheet application

The repository is a FastAPI backend and a React frontend: an application for
companies and their balance sheets (`src/backend/app`) on top of an
authentication and authorization template (`src/backend/mystic_auth`). State
lives in Postgres (users, sessions, policies, companies, balance sheets, audit
logs) and in Redis (token versions, single-use claims and links, failure
counters, a policy cache). Handlers are coroutines of one event loop, or of
several worker processes: between two awaits of one handler any other handler
may run, the code takes no locks, and Postgres runs at READ COMMITTED. Almost
every hard question about this program is therefore the same one: what another
request can do between a handler's check and the write that relies on it, and
what is left behind when a handler stops between two stores.

| Module | Models | Proofs |
|---|---|---|
| `TokenSessions` | the tokens of one account, the Redis versions that validate them, the `user_sessions` rows that mirror them | `TokenSessions_proofs` |
| `AccountLifecycle` | one address: its account, the links and OAuth2 states redeemed once, and the sessions opened for it, through signup, verification, reset, login, OAuth2 and administration | `AccountLifecycle_proofs` |
| `LoginProtection` | failure counters and request counters in Redis, and the handlers that read and raise them | `LoginProtection_proofs` |
| `Authorization` | policies, assignments, policy history, and the Redis cache of each account's policies | `Authorization_proofs` |
| `PolicyConditions` | pure operators: the condition handlers, the evaluator, the validator, the grant check, the scope of the lists | |
| `PolicyEvaluation` | decisions while policies come and go and the clock runs | `PolicyEvaluation_proofs` |
| `CompanyTree` | the abstract specification: a forest that changes one company at a time | |
| `CompanyHierarchy` | the `companies` table and its handlers, statement by statement; implements `CompanyTree` | `CompanyHierarchy_proofs` |
| `BalanceSheets` | balance sheets, companies and their callers together; extends `CompanyHierarchy` and instantiates `PolicyConditions` | `BalanceSheets_proofs` |
| `SessionLifecycle` | the browser's side of a session: what each tab makes of a refused call | `SessionLifecycle_proofs` |

`MC<Module>` instantiates a module for TLC, and `<Module>_<run>.cfg` gives the
constants of one run. `PROJECT.json` maps every definition to the lines it
translates and lists the hazards, the runs, the mutants and the theorems.

## Inventory

Paths are relative to `src/backend`.

| Part | State | Operations | Interacts with | What is hard | What has to hold |
|---|---|---|---|---|---|
| Token sessions (`mystic_auth/auth/refresh_token_logic`, `auth/token_logic`, `user_session`) | Redis `account_ver`, `chain_ver`, `revoked:{jti}`; `user_sessions` rows | login, refresh, reuse detection, logout, logout-all, password change, targeted revoke | login, reset, OAuth2, user administration (all end or start sessions); session events | check and mint are apart; two stores; keys expire | a revoke ends what it names; a refresh token is used once; the list of devices agrees with what works |
| Signup and verification (`auth/signup`, `auth/verify_account`) | `users`; a single-use key per link in Redis | create, mail, redeem, verify | policies, mail queue, OAuth2 | separate commits; a link presented twice | a link works once; an account that is half created does no harm |
| Password reset (`auth/password_logic`) | a single-use key per link; the password hash | request, redeem, put back, store, end sessions | token sessions | redemption before the checks; two stores | a link sets one password; a refused one is kept; a reset ends every session |
| OAuth2 login (`auth/oauth2`) | `state` in Redis; `users` | start, callback, link or create | signup, token sessions | first login of an unverified account, decided on a row read earlier | a state is used once; an unproven password does not survive |
| User administration (`api/user_routes`, `user_crud`) | `users.is_active`, `deleted_at`, password | update, delete, purge, reactivate | token sessions, policies | a login in flight across a change; writes from stale rows | a deactivated account has no working token |
| Login protection and rate limiting (`auth/security`) | counters in Redis | check, count, reset | login, refresh, reset, verification, every limited route | INCR and EXPIRE are two commands; one fails open, one closed | a lock starts at the limit and ends; a window admits no more than its limit |
| Policies, assignments, history, cache (`authorization`, `api/pbac_routes`) | `policies`, `user_policies`, `policy_history`; Redis `authz:user_policies:{email}` | CRUD, rollback, assign, remove, read-through | every protected route; signup, OAuth2, purge | cache beside tables; lockout guard; lost updates | a withdrawn grant stops granting; someone can always manage policies; history tells the truth |
| Policy evaluation and conditions (`authorization/conditions`, `evaluators`, `services`) | none | evaluate, validate, check a grant | policies, every protected route | validator and handlers written apart | what is stored can be evaluated; grants are monotone; nobody hands on what he does not hold |
| Company access scope (`app/access`) | none | resource of a check, list filter | policies, companies | agrees with the evaluator without calling it | a list shows what the evaluator would open |
| Companies (`app/companies`) | `companies` | create, update (reparent), delete, lists, lookups | access scope reads `group_root_id`; balance sheets hang off a company | multi-statement guards without locks | `group_root_id` is the top-most ancestor |
| Balance sheets (`app/balance_sheets`) | `balance_sheets` | import, read, delete | companies, an outside source | authorized before a fetch of up to 15 seconds | one sheet per company and year, on a company that exists |
| Audit logs | `audit_logs` | append, list, purge old | every mutating route | best effort, own commit | appended after what it reports |
| LLM chat | none | prompt, stream | balance sheets | an outside call | nothing is kept |
| Session events (SSE) | subscriptions | publish, subscribe | token sessions | lost events | carries no authority |
| Background tasks and mail | the queue library's | enqueue, send, retry | signup, reset | at-least-once delivery | a repeated mail does no harm |
| Seed, scripts, migrations | the tables | run once | policies | run before the service | the baseline policies exist |
| Infrastructure | connections, settings | | all | failures of Redis and Postgres | a failure is a fault of the models |
| Frontend session lifecycle (`src/frontend/src/mystic_auth/auth/session_lifecycle`) | cookies, `refreshInFlight`, `pendingRotation`, `isAuthenticated` | refresh and retry, wait for a password change, give up | token sessions, every route | answers that overtake each other; promises that wait for each other; two tabs on one set of cookies | a refresh token is presented once; a live session is not given up; every call is answered |
| Frontend pages | query caches, forms | render, submit | all routes | | |

`PROJECT.json` says of each part whether it is modelled, and why not; its
`hazards` list says where each difficulty bites.

## TokenSessions

One account. A login draws a chain id; every token of that session carries the
chain id and the account and chain versions read when the token was minted, and
is current while both still equal the numbers in Redis.

| Model | Code |
|---|---|
| `accountVer` | `account_ver:{email}` |
| `chainVer[c]` | `chain_ver:{email}:{chain}` and its expiry |
| `claims[j]` | `revoked:{jti}`, set with NX and a TTL |
| `rows` | `user_sessions`, without the columns that are only displayed |
| `tokens` | every token minted whose response was not lost |
| `req[r]` | a request in flight: handler, next await, what it holds in local variables |
| `auth`, `ended`, `racers`, `redeemed`, `loggedOut` | history, read by properties only |

A request is a process with one action per await that reads or writes shared
state. The actions keep the names of the functions: `claim_jti_for_rotation`,
`handle_reuse_detected`, `create_access_token`, `bump_chain_version`,
`expire_chain_version` (INCR and EXPIRE are two commands), `count_active_sessions`,
`bump_account_version`, `revoke_all_sessions`, `revoke_by_jti`, and so on. Two
things are merged. The pair of version reads of one check or mint is one step:
versions only grow, so reading them apart yields the same tokens up to tokens
that are stale when minted. The SELECT and UPDATE of one repository method are
one step. `change_password_expired` is the password change whose access token runs
out between the check and the reading of its chain: it ends every session.

`Faults` chooses what may go wrong: `"redis"`, a command raises (a failed
version read counts as 0, a failed claim as already claimed, as the code has
it); `"db"`, a mirror statement raises; `"crash"`, the process dies at any await
and its response is lost; `"flush"`, Redis comes back without its data. Time
runs in ticks of 1/`Second` of a second, because PyJWT truncates `exp` and the
claim's TTL to whole seconds.

Left out: the session list and its events, and tokens minted before chains
existed. What a password reset does to sessions is a logout-all.

## AccountLifecycle

One address, and whatever accounts have it one after the other.

| Model | Code |
|---|---|
| `user`, `nextId` | the row of the address in `users` (id, password, `is_verified`, `is_active`, `deleted_at`) and its sequence |
| `version`, `tokens` | `account_ver:{email}`, and one token per session that was opened |
| `kind`, `keys`, `expired` | the links and states sent; their single-use keys in Redis; those past their lifetime |
| `req[r]` | a request: handler, next await, its number (which is also the password it sets and the link it sends), the link it redeems, the row it loaded |
| `epoch`, `lost`, `retired`, `effects`, `dropped`, `overtaken` | history, read by properties only |

`signup`, `verify_token`, `reset_password`, `consume_state`, `login`,
`update_my_profile`, `delete_any_user` and the others start a request; the
steps after it are `create`, `assign_policy_to_user`, `send`,
`load_for_verification`, `mark_user_verified`, `load_for_reset`,
`restore_token`, `update_password`, `verify_and_clear_password`, `mint`,
`set_password`, `soft_delete`, `reactivate`, `revoke_all_tokens_for_user`,
`remove`. A check made on a loaded row belongs to the step that loaded it. Two
properties of SQLAlchemy matter and are modelled: an UPDATE writes only the
columns that differ from what was loaded (so a second `soft_delete` does not
write `is_active`), and one that names a row by id raises if the row is gone
(`StaleData`), while a DELETE does not. `revoke_fails` is the `except` clause
that swallows a failed revoke. `Fail` is a request that raises or dies at any
await. `epoch` counts the changes that must end the sessions before them.

A session is one token here; its rotation is `TokenSessions`'. A request that is
refused without effect (a taken address, a wrong password, a state that does not
match) is left out. Which password is weak, or equal to the old one, is a
choice. Google's answers either let the callback go on or end it.

## LoginProtection

One client address and one account; four handlers stand for all: login (two
locks read before, two recorded after), refresh (one lock, recorded without a
second read), reset confirmation (recorded after, no lock read before;
verification is the same) and signup (two request counters, no lock; the other
limited routes have one or two as well).

| Model | Code |
|---|---|
| `count[k]`, `ttl` | the integer under a key; the keys that have an expiry |
| `req[r]` | a handler: next step, position among its keys, outcome of its work, and what is left to do under each key (`gather` runs them side by side) |
| `admitted`, `leaked`, `blind` | history: admissions in this window; keys whose EXPIRE was lost; keys that were locked when a read failed |

`record_request` and `expire_window`, `record_failed_attempt` and `expire_lock`
are the two commands of each counter. `Faults` lets commands raise
(`rate_limiter_fails` refuses, `precheck_fails` and `recheck_fails` let pass,
`record_fails` records nothing) and processes die.

## Authorization

| Model | Code |
|---|---|
| `users` | rows of `users`: not created, present, purged |
| `stored`, `policies` | the `policies` table: what a policy grants, and `is_active` |
| `held` | `user_policies` |
| `history` | the newest `policy_history` entry of each policy |
| `cache[e]` | `authz:user_policies:{email}`: no list, or one |
| `req[r]` | a check (`select`, `fill`), a change of a policy (`write`, `scan`, `flush`), or of an assignment (`count`, `write`, `invalidate`) |
| `suspects`, `mixed`, `lapsed`, `overtaken` | history: why a key may be stale, why history may differ from the row, and that the lockout guard was got around |

The statements of one commit are one step; the Redis commands after it are
steps of their own, and the flush deletes key by key after a SCAN that may or
may not return keys set while it runs. The cache is keyed by address, and two
accounts may have one address one after the other. A rollback is an update
whose definition comes from the history: `update_policy` allows any definition
that PUT or rollback would accept. Repeating an assignment or a removal that is
already in place returns early and invalidates nothing, as in the code. `Fail`
is a failure or a crash at any await, and stands for a failed Redis command as
well, which ends the invalidation the same way.

Left out: what the caller may do (`PolicyConditions`), the names and conditions
of policies, and assignments made by OAuth2 and by the command line, which take
the path of signup.

## PolicyConditions and PolicyEvaluation

A JSON object is a function from its keys. Values that are absent, empty, of an
unexpected type, unparsable, or times with an offset are model values (`None`,
`Blank`, `Junk`, `Malformed`, `Aware`), because those are what the handlers and
the validator tell apart; a day has `HoursInDay` hours. Each handler answers
`"holds"`, `"fails"` or `"raises"`: `resource_attributes`, `context_attributes`
and `security_context` index their value unguarded, `time`, `date_range` and
`network` catch everything. A decision raises if an applicable condition does.
`get_company_scope` and `in_scope` are the reading of the policies that lists
use in place of the evaluator, `may_grant` is `assert_authorized_to_grant`, and
`validate_conditions` is what stands between the management API and the table.

`PolicyEvaluation` stores and removes policies through the validator while the
clock runs, and states what the four owe each other for every set of policies a
user may hold, every resource and every context.

## CompanyTree, CompanyHierarchy and BalanceSheets

| Model | Code |
|---|---|
| `stored`, `parent_company_id`, `group_root_id`, `nextId` | the `companies` table and its id sequence |
| `req[r]` | a request on companies: handler, next statement, the row it loaded, the parent it asks for and that parent's root, the subsidiaries a delete loaded |
| `raced`, `overtaken` | history: a request committed on rows another had changed since it started |
| `sheets`, `nextSheet` | the `balance_sheets` table, without figures, and its id sequence |
| `call[r]` | a request on sheets: import (`existing`, `fetch`, `insert`) or delete (`load`, `delete`) |
| `caller[r]`, `Held` | who sent the request, and the policies each caller holds |

One action per SQL statement. The row a handler loads stays as it was loaded
(the session factory sets `expire_on_commit=False`, and the identity map returns
the loaded object to a second SELECT), and an UPDATE names only the columns that
differ from the loaded ones (`Written`). INSERT and UPDATE check the foreign key
as they run. A delete first loads the subsidiaries that slipped in after the count
(`select_subsidiaries`, the flush of a relationship without `passive_deletes`),
sets their parent to NULL wherever they are by then, and deletes the row; ON DELETE
SET NULL does the rest, and the sheets go with it (`cascade_sheets`). `Fail` and `FailCall` are a request that
raises or dies before its commit.

`BalanceSheets` runs the handlers of companies unchanged, each started by a
caller whose policies admit it, beside those of sheets: `Allowed` is the
evaluator of `PolicyConditions` on the scope of the company as it was loaded.

`CompanyTree` is what the table promises: companies are added, and leaves moved
or removed, one at a time, and the group of each is its top-most ancestor; once
a request has overtaken another, nothing. `ImplementsTree` instantiates it with
`parent <- parent_company_id`, `group <- group_root_id`, restricted to the rows
there are, and `broken <- raced`: statements that only read are stutters, and
each commit is one step of the forest.

## SessionLifecycle

One session in one browser. The backend is reduced to what a tab can tell:
`version` is the account and chain version in one, a token pair is current while
its version is, a refresh token redeemed twice raises the version, and a
password change raises it in one step and makes the new pair in another
(`update_my_profile`, `create_tokens`). What happens inside the backend between
two awaits of one request is `TokenSessions`'.

| Model | Code |
|---|---|
| `cookie`, `expired` | the token pair the browser holds, shared by its tabs, and the pairs whose access token has expired |
| `authenticated` | the tabs whose `authStore.isAuthenticated` is true |
| `req[c]`, `c` in `Calls` | a call: `me` (GET /auth/me, which opens or closes the tab), `page` (any other), `password` (PUT /users/me with a password) |
| `req[t]`, `t` in `Tabs` | `refreshInFlight` of the tab |
| `pendingRotation[t]` | the variable of `sessionRotationGuard.ts` |
| `frames` | the nested runs of the interceptor for one call, with its two one-shot flags and the `try` it waits in |
| `claims` | `revoked:{jti}`: the refresh tokens redeemed, and by which tab |
| `last`, `lost`, `replays` | history, read by properties only: the answer a tab received last, tabs cut off from an answer, tabs that redeemed a token twice |

`start`, the server's steps and `receive` are events of the network, in any
order; between two of them the tab's promises run until all wait (`Quiet`).
`refreshSession`, `awaitRotation`, `giveUp`, `caught` and `reject` are the
branches of the interceptor. `Retry` copies the flags of the call it retries, as
axios copies its configuration, and adds a frame: the retried call runs the
interceptor again, inside the first run. `Settle` resumes everything that waits
for a promise. `Faults` allows answers that carry new cookies to be lost; any
call may also fail with an error other than 401. An access token may expire at
any time, while a call is on its way or being retried included.

`GivesUpForAReason` has to tell a session that is over from one that is being
renewed. `MayRenew(p)` says that call `p` is about to bring cookies that are valid:
a password change that the server will admit or has already begun, a refresh that
will not be refused, or the answer of either. The session is over (`SessionOver`)
when the cookies are stale and no call may renew them; while they are stale and the
password change in `pendingRotation` may renew them, closing the tab is an error.

Left out: the login and logout mutations, the query caches, and the event
stream, whose only effect on a session is a GET /auth/me.

## What the runs show

Each passing run explores all states within its bounds. Counts are TLC's
distinct states.

| Run | Instance | Checks | Shows |
|---|---|---|---|
| `sessions_sequential` | 1 slot, 2 chains, 5 requests, a clock of 3 half-seconds, access tokens of 1 s, refresh tokens of 2 s; 643,000 states | `MirrorAgrees`, `LoggedOutTokenIsDead`, `RevokeAllTakesEffect` | what the list of devices and logout promise holds when requests come one at a time and nothing fails, until a token is redeemed twice in its last second |
| `sessions_concurrent` | 2 slots, 2 chains, 3 requests, crashes, a clock of 7 half-seconds, access tokens of 1 s, refresh tokens of 2 s; 1,087,000 | `TypeOK`, `SurvivorsWereInFlight`, `ReplayOnlyInLastSecond`, `OneUsableTokenPerChain`, `OneActiveRowPerChain`, `DeadStaysDead` | a session outlives a revoke only if another request was already minting for it; truncating a TTL opens a replay only in a token's last second; however many requests present its tokens, a session that raced no revoke has one usable token and one row; the expiry of a key revives no token |
| `sessions_faults` | 2 slots, 1 chain, 3 requests, every fault; 180,000 | `RequestsAnswered` | every request is answered, whatever fails |
| `accounts_concurrent` | 2 slots, 5 requests, failures at any await; 2,088,000 | `TypeOK`, `SessionsAreOfTheAccount`, `ReplacedPasswordStaysReplaced`, `LinkTakesEffectOnce`, `ResetLinkLostOnlyToFailure`, `DeletedIsInactiveUnlessOvertaken` | the sessions that work are of the account that is in the table, but for the windows the property names; no replaced password comes back; a link works once and a refused reset keeps it |
| `protection_faults` | 2 logins, 2 admissions per window, 1 failure locks, failing commands and crashes; 565,000 | `OvershootBounded`, `RateLimitExact`, `UnexpiringOnlyIfLeaked`, `LockedForeverOnlyIfLeaked` | failures pass a limit by less than the requests in flight; a window admits its limit; only a lost EXPIRE locks for ever |
| `authorization_concurrent` | 3 accounts (2 of one address), 3 policies (2 baseline), 2 grants, 2 slots, 4 requests; 1,118,000 | `StaleOnlyForAReason`, `AdministratorRemains`, `HistoryTellsTheRow` | a stale key is owed, failed, or of a path that does not invalidate; a superuser remains unless removals overlap or the last is purged; history describes the row |
| `authorization_inherited` | the same | violates `AccountsInheritNothing` | see below |
| `policy_evaluation` | policies over every handler with sound and unsound values, at most 2 at a time, 2 users, 2 addresses, 2 days of 3 hours; 6,500 | `EveryDecisionIsMade`, `HandedOnOnlyIfHeldEverywhere`, `MorePoliciesGrantMore`, `OpenedCompaniesAreListed`, `ListedCompaniesOpen` | what the validator admits can be evaluated; grants are monotone; lists and the evaluator open the same companies, as far as the properties say |
| `balance_sheets_concurrent` | 3 companies, 2 sheets of 1 year, 2 callers (a manager of everything, the head of one group), 2 slots, 5 requests; 140,000 | `DataTypeOK`, `TreeUnlessOvertaken`, `SheetsAreSound`, `GroupPolicyCoversTheTree`, `RenameKeepsPlace`, `ImplementsTree`, `SheetsGoOnPurpose`, `OthersWidenScope` | unless a request commits on rows changed under it, companies are a forest (the refinement), a policy on a group covers exactly its tree, one sheet per company and year; nobody widens his own scope |
| `companies_reparent_race` | 2 companies, 2 slots, 4 requests | violates `EveryGroupHasARoot` | see below |
| `client_tabs` | 2 tabs, 3 call slots (2 in one tab), 2 calls, 1 revoke from elsewhere, lost answers; 285,000 | `TypeOK`, `NoTabReplaysItself`, `GivesUpForAReason`, `CallsSettleUnlessCircular` | single flight keeps a tab from replaying its own token; a tab gives up only for a listed reason, and never while its own password change is bringing new cookies; every call is answered unless a password change waits for itself |
| `client_hangs` | the same with 1 call and no fault | violates `CallsSettle` | see below |

### Bounds and why they are enough

- Two slots. Every hazard listed is a race of two handlers; each handler keeps
  its own locals, so a third adds no new kind of overtaking. What the theorems
  cover is proved for any number.
- `MaxRequests` bounds how many requests start. A race needs a login (or a
  create), the two racers and one request that observes the result. Where a
  clock runs, three are enough: a login, then two presentations of its token.
  `accounts_concurrent` starts from three states that stand for a first request
  already served, and has four more: send a link, redeem it twice or redeem it
  and change the account, and log in.
- Two chains, for "this session and another"; one where only one matters.
- `MaxClock = 3` in `sessions_sequential`, with `Second = 2`, `RefreshLife = 2`:
  the claim on a token of four ticks can run out a tick before the token, and the
  token be redeemed again, which is what `RedeemedOnce` excepts.
- `MaxClock = 7` with `Second = 2`, `RefreshLife = 2`: a token of four ticks can
  be minted at an odd tick, claimed, and outlive its claim by one tick, and a
  `chain_ver` key can be set, expire, and be read again. `OneActiveRowPerChain`
  fails here without `NoLateReplay`.
- Limits of 2 (rate) and 1 (lock): the least at which a request may be admitted
  under a counter somebody else created, and at which two requests can pass the
  lock before either counts. TLC runs the login handler, which reads two locks
  and records two failures; all four handlers, and any limits, are in the proofs.
- Three companies: a parent, a child and a third that takes either's place. Two
  sheets: one to be found and one to be put in its place.
- At most two policies at a time, for a user who holds both, or two users with
  one each; three hours and two days, so that windows may wrap, be empty, or
  start on the day they end.
- Two tabs, two calls of one tab: one call is refused and refreshed while the
  other arrives, and a second tab does the same with the same cookies.
- Two accounts of one address and a system account: a purge followed by a
  signup, and two holders of `system_superuser`.

`CHECK_DEADLOCK FALSE` is set in every configuration because a bounded run does
stop: when all its requests have been started and answered, nothing is left to
do. Symmetry is declared over requests, chains and grants, none of which a
definition treats unequally; the liveness runs declare none.

### Fairness

- `sessions_faults`: weak fairness of `Step(r)`. Once a request waits for Redis
  or Postgres, its next step happens or raises, and the event loop resumes the
  coroutine. Nothing is assumed of the clock, of faults or of new requests.
- `protection_faults`: weak fairness of `expire_window` and `expire_lock`, which
  the request that owes them sends next, and of `Expire(k)`, by which Redis
  removes a key whose TTL has run out. Not of requests: nobody has to come back.
- `client_tabs`, `client_hangs`: weak fairness of `Serve(p)` and `React(p)`. The
  server answers (or the connection fails, which is an answer to axios), and the
  event loop runs what is ready. Not of new calls or of anything that expires.

### Disagreements between the code and what it says

Three are runs of their own:

- **A refused password change hangs** (`CallsSettle`). The interceptor waits for
  `pendingRotation` (`setupAuthInterceptor.ts:127-130`), which is the promise of
  the password change with its interceptor. If that call is refused and the
  refresh as well, because the session was ended elsewhere, the refresh waits
  for the password change and the password change for the refresh. The tab is
  never logged out, and every later refused call joins the wait;
  `sessionRotationGuard.ts:21-23` says a still-failing refresh is treated as
  real. `CallsSettleUnlessCircular` shows that nothing else keeps a call from
  being answered.
- **Parents can form a circle** (`EveryGroupHasARoot`). The count of
  subsidiaries and the UPDATE of a reparent are separate statements.
- **A new account inherits a cached list** (`AccountsInheritNothing`). A purge
  leaves `authz:user_policies:{email}`, and signup invalidates nothing.

Met while modelling, and not runs of their own. Where a property is named, TLC
shows the case once that property, or a constant of its configuration, is
changed as said:

- A revoke misses what is being minted: a refresh compares versions
  (`refresh_token_service.py:62`) and mints later with the versions it reads then
  (87-88); a login checks the password before it reads them. `RevokeEndsSessions`
  fails with two slots and no faults, where `session-management.md:51` says one
  INCR ends every session at once. `SurvivorsWereInFlight` is what holds.
- A lock can stay for ever: a process that dies between INCR and EXPIRE
  (`login_protection_service.py:34-40`, `rate_limiter_service.py:30-33`) leaves a
  counter without an expiry, and a locked account cannot log in to reset it
  (`LockoutsEnd` in `protection_faults`). `hardening.md:23` says the window is
  fixed from the first failure.
- A counting failure skips the revoke: `revoke_all_tokens_for_user` counts active
  sessions first, and the count does not catch a database error
  (`refresh_token_service.py:115`), though a failure of the mirror is said never
  to matter (`session-management.md:40`, `session_service.py:27-30`).
  `RevokeAllTakesEffect` fails with `"db"` in `Faults`.
- With faults or a second slot the mirror of sessions drifts. A crash between row
  and version (`session_service.py:207-212`) leaves a device that looks ended and is
  not (`MirrorAgrees`), and a row that was never written a logout that ends nothing
  (`LoggedOutTokenIsDead`). A rotation that a password change overtakes records a
  second row for its session: that is a session that raced a revoke, which
  `OneActiveRowPerChain` excepts. `DeadStaysDead` fails when Redis loses its data.
- A logout can leave its session alive: a whole-account revoke bumps the version and
  then revokes all rows (`refresh_token_service.py:117-118`,
  `session_repository.py:141-149`). A login in between is not ended by the bump, but
  its row is revoked; it is missing from Manage Sessions, and its logout finds the
  row revoked and returns (`session_service.py:106-107`), although the docstring
  says that logout ends exactly that session (94-101). `MirrorAgrees` and
  `LoggedOutTokenIsDead` fail there with two slots and no faults.
- A logout that overlaps a rotation looks for its row twice by the same jti
  (`session_service.py:105`, 113): if the rotation moves the row in between, the
  session ends and its row stays active. `MirrorAgrees` fails.
- A refresh token redeemed again in its last second adds a second row for its
  session, because its row has moved on (`session_service.py:81`); password
  changes and reuse detection then find two active rows, and neither is written.
  `RedeemedOnce` is violated in `sessions_sequential`, and with `NoLateReplay` gone
  from `OneActiveRowPerChain` that property too.
- A reset that raises after GETDEL does not restore its link, against the
  docstring of `password_reset_service.py:84-87`; only a refusal does.
- A second delete of a deleted account, overlapped by its reactivation, leaves
  an account that is active and marked deleted; a purge ends the sessions before
  it deletes the row, and one opened in between is the next account's if the
  address signs up again.
- The validator admits a `date_range` whose end is before its start, and times
  with an offset, which then never grant (`condition_validator.py:58`); the
  lists read only the resource conditions of a policy; company routes pass no
  context, so a policy with a network condition never opens a single company.
- `hardening.md:7` says /auth/refresh is not rate limited;
  `refresh_token_handler.py:50` limits it.
- In the browser a live session is given up, in ways `GivesUpForAReason` lists:
  - by a second tab whose calls are refused while the first changes the password:
    `pendingRotation` is a variable of each tab's module, the cookies are not
    (`sessionRotationGuard.ts:25`);
  - by a tab whose later password change has displaced an earlier one in the guard
    (`sessionRotationGuard.ts:29`), or whose own refresh is all that can renew the
    session after an answer that overtook another;
  - by a call that has waited for one password change when there is another: it
    waits once (`setupAuthInterceptor.ts:126`);
  - when the refusal of a refresh, or of a call retried after one, arrives after the
    cookies it was sent with were replaced: the guard is no longer pending;
  - by a call retried after a refresh whose access token runs out on the way: it is
    not refreshed again (`setupAuthInterceptor.ts:104`);
  - when a refresh or a retried call fails with 403, 500 or no answer, which the
    `catch` takes for the end of the session (`setupAuthInterceptor.ts:107`, against
    the comment at 78-83), or GET /auth/me does (`useCurrentUserQuery.ts:67`).

  Also, the answer of a refresh that overtakes that of a password change puts stale
  cookies in place, and two tabs that refresh at once end the session, since single
  flight is per tab.

## What is proved

TLAPS checks each theorem for every value of the constants that the named
assumptions admit: any number of requests, chains, companies, accounts,
policies, any bound and any set of faults unless said otherwise.

**TokenSessions_proofs.** `TypeCorrect`: `TypeOK`. `RevocationIsComplete`:
`SurvivorsWereInFlight`. `RevocationIsPermanent`: `DeadStaysDead`. These two
assume that Redis answers and keeps its data (`"redis"` and `"flush"` are not
faults) and `AccessLife <= RefreshLife`; database failures, crashes and the
clock are free. The argument: a token is `Retired` when a version it carries has
been left behind by a key that outlives it, or it has expired; a chain is
`Vouched` for when its last proof of credentials is under the current account
version and no targeted revoke ended it, or it raced one. Neither property is
inductive. `SessionInv` is: every token is retired or its chain is vouched for
(`TokensVouched`), every request that will still mint works for a vouched chain
(`MintersVouched`), chain versions are zero until a chain is ended and no token
outlives a whole refresh life (`VersionsBound`), each chain seen anywhere was
logged in (`ChainsWereLoggedIn`), a bumped chain is ended before its key gets an
expiry (`BumpedChainsEnded`), and each step belongs to its handlers
(`StepsMatchHandlers`). `MintersVouched` is the heart of it: a revoke that
un-vouches a chain puts the chains of all other minters in `racers` in the same
step.

`TokensAreRedeemedOnce`: `ReplayOnlyInLastSecond`, for any requests at once, with
Redis commands and the database failing and processes dying, as long as Redis keeps
its data. `RedemptionInv`: a jti is drawn by one request, and a token, a request
that presents it and a redemption agree on its expiry (`JtisAreFresh`); the claim on
a redeemed jti lasts into its token's last second (`ClaimsOutlive`), which is the
arithmetic of a TTL cut to whole seconds (`ClaimReachesLastSecond`).

`RevokeAllIsEffective`: `RevokeAllTakesEffect`, for any requests at once, if neither
Redis nor the database fails and nobody crashes. `RevokesBumped`: a whole-account
revoke past its INCR is under a version above the one it started from.

`SessionsHaveOneRow` (`OneActiveRowPerChain`) and `SessionsHaveOneToken`
(`OneUsableTokenPerChain`), for any number of requests at once, any of which may die
at any await (`OnlyCrashes`), and `AccessLife <= RefreshLife`. Failing Redis and
database commands are excluded because a revoke that cannot count or bump goes on to
mint all the same: the session then has its old token and the new one. Both follow
from `LineInv`, which adds to `SessionInv` and `RedemptionInv`: a jti is that of one
refresh token of one chain, and a request mints one (`JtiFacts`); a rotation presents
a token that is current unless a revoke raced its session (`Presented`); rows are
told apart by their jtis, and the jti a request is to record is in no row yet
(`RowsApart`); and, until a token is redeemed twice, for every session that lives
and raced no revoke (`Settled`), `OneLine` and `OneRow`. `OneLine`: the session has
one token that is neither redeemed nor outdated, or one request that has used it up
and is bringing the next (`Replaces`), and never two of these. `SET NX` is what lets
a single request become the one that replaces; a password change becomes it by the
bump that outdates the token. `OneRow`: the active row holds that token's jti, or
the jti that the request which replaces it will look for. A session leaves `Settled`
by every step that would break this, because a revoke puts the chains of the
requests it overtakes among the `racers` in the same step. `UnclaimedIsUnspent` then
turns "valid and not claimed" into "unspent", a claim having run out only in the
last second, and `NobodyRedeemsTwice` turns the property's premise, that no token
was redeemed again in its last second, into the invariant's.

**AccountLifecycle_proofs.** All the run checks: `TypeCorrect` (`TypeOK`, with
`Shapes`: which steps each handler has and which of them hold a link);
`LinksTakeEffectOnce`, `ResetLinksAreNotLost`, `PasswordsStayReplaced`,
`DeletedIsInactive` and `SessionsAreCurrent`. Links: `NumbersInv` says that
requests in flight have numbers of their own and that a link yet to be mailed has
none; `LinkInv`, that a link is a key, a holder or an effect, and never two of
them, and has one holder; `ResetInv`, that a holder of a reset link is a reset,
which revokes only after its link took effect. Passwords: `PasswordInv`, the
password a request is yet to store is neither the account's nor retired.
Sessions: `SessionInv` has two halves. `Claim` says what a request may rely on as
long as its epoch lasts: if it will mint, the account is there, verified and
active. The other half says that a session under the current version which was
not minted late, with nothing lost, has the account's epoch unless an end is owed,
and that no purge is between its steps. `SessionMove` sorts every step into five
kinds: it changes no session, should end them all, fails to, does, or opens one;
only an OAuth2 login that verifies an account may bump the epoch without a revoke,
because an account that is not verified has no session of its epoch.

**CompanyHierarchy_proofs.** `TypeCorrect`, `TreeIsKept` (`TreeUnlessOvertaken`),
`RenamesKeepPlaces` (`RenameKeepsPlace`) and the refinement `TreeIsImplemented`
(`ImplementsTree`). "Top-most ancestor" is stated without recursion: an ancestor
of c is in every set that holds c and the parent of each of its members. The
invariant says that until something raced, rows form a tree whose roots agree
with their parents' (`Tree`), which has no circle (`Acyclic`), and that what each
request not overtaken has read still holds (`ReadsHold`): that is what makes a
check made two statements earlier usable at the write. For the refinement,
`RowsAgree` relates what a request is about to write to the row the abstract
step writes; every other statement is a stutter.

**BalanceSheets_proofs.** The same three carry over, because sheets never write
companies and callers only restrict who starts a request
(`TreeIsKeptWithSheets`, `TreeIsImplementedWithSheets`,
`RenamesKeepPlacesWithSheets`). `DataTypeCorrect`; `SheetsStaySound`: the foreign
key and the cascade; `SheetsGoOnlyOnPurpose`; `GroupPoliciesCoverTheTree`: from
`TreeUnlessOvertaken`, a decision on a group reads the group the tree gives; and
`OwnRequestsWidenNothing`.

**LoginProtection_proofs.** `TypeCorrect`; `RateLimitIsExact`: an admission saw
the counter of its own INCR, and `Windows` says that as many were admitted as the
counter counts, up to the limit; `UnexpiringIsLeaked`: `OwedOrLost`, a key that
never expires has a request at its EXPIRE or is in `leaked`; `OvershootIsBounded`:
`Bounded`, a counter is at most its limit plus the requests past their check that
have not yet counted, for finite `Requests`, whose `Overshoot` is a cardinality.

**PolicyEvaluation_proofs.** `TypeCorrect`, and the five properties of the run
for every set of policies the validator may admit: `DecisionsAreMade`,
`HandedOnIsHeld`, `GrantsAreMonotone`, `OpenedAreListed`, `ListedAreOpened`. Each
is a fact of the pure operators, which the lemmas state one handler at a time.

**Authorization_proofs.** `TypeCorrect`; `StaleKeysExplained`
(`StaleOnlyForAReason`), which is inductive given types: each step either leaves
the effective list of an address alone, or leaves the request owing that key, or
puts the address among the suspects; `SomeoneCanManage` (`AdministratorRemains`),
from `BaselineInv` (baseline policies exist and are active, and no pending change
deactivates one) and `HoldersInv` (a removal that counted, and was not overtaken,
still sees two holders), for finite `Accounts`; `HistoryIsTrue`
(`HistoryTellsTheRow`), because merging the changed columns into an unchanged row
gives exactly the recorded definition.

**SessionLifecycle_proofs.** `TypeCorrect`: `TypeOK`, with the fact that a call in
flight is always in an interceptor, without which its top frame is undefined.
`TabsDoNotReplay`: `NoTabReplaysItself`, by `ReplayInv`: new tokens on their way to
the browser are known to nobody and differ from each other (`Underway`, from the
numbering of pairs in `Numbered`), and a tab that has redeemed the tokens in the
cookies is itself about to get new ones, or has lost them (`RedeemedIsReplaced`).
That is what the single flight buys: a tab sends no refresh while its own is
unanswered, so what it sends is not what it redeemed (`SentIsNew`). Every step but
the two that make tokens is handled by one lemma, `NothingMade`.
`TabsGiveUpForAReason`: `GivesUpForAReason`, by `Grounds`. A tab is closed some
steps after the answer that closes it, so the invariant finds the reason when a call
has nothing left to try (`Closing`) and keeps it until the tab is closed
(`Reasons`). A tab's promises run until they wait before the next answer arrives, so
a call that is refused is still at the answer that refused it (`AtRefusal`), which
`last` records. `Sound` says what a 401 means: it answers tokens that are stale or,
on an API call, expired (`Due`). `GiveUpReason` is the heart: a refused call that is
neither refreshed nor waits was sent with the cookies in place, which are then stale,
or with others; and if they are stale and a password change of this tab may renew
them, `Waits` holds, or the call has waited before. Without the guard this step fails,
and TLC finds the property violated (the mutant `Waits_never`).
`ReasonKept` carries a reason over the steps in between, because no call becomes one
that may renew while the cookies are stale (`NoNewRenewal`). A refresh that fails
hands its reason to the calls that wait for it (`RejectGrounded`).

**Only model-checked.** Liveness is out of the prover's reach:
`RequestsAnswered`, `LockedForeverOnlyIfLeaked`, `CallsSettleUnlessCircular`. So are
`MirrorAgrees` and `LoggedOutTokenIsDead` left to TLC: they are facts of requests
served one at a time, which the server does not guarantee, and a theorem would have
to assume it. Every other property of a passing run is a theorem. The violations are
TLC's.

## Not modelled, and the plan

In order of importance:

1. An abstract specification of token validity ("a token is valid until its
   session ends"), refined by `TokenSessions` outside the races.
2. The superuser guard against accounts that are deactivated or unverified:
   `is_active` is state of `AccountLifecycle`, the assignments of
   `Authorization`; and the caller's own policies changing while he edits one.
3. The event stream and the login and logout mutations in `SessionLifecycle`.

Left out for good: audit logs (append-only and best effort), LLM chat (no state),
mail delivery and the task queue (a library's), migrations and seeding (run
before the service starts), session events (carry no authority), configuration,
logging and error monitoring, and the frontend's pages.
