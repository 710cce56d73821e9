--------------------------- MODULE AccountLifecycle ---------------------------
(***************************************************************************)
(* One e-mail address: the account it has in the users table, the links    *)
(* and OAuth2 states that are redeemed once, and the sessions opened for   *)
(* it, as signup, verification, password reset, login, OAuth2 login and    *)
(* the administration routes change them.                                  *)
(*                                                                         *)
(* A handler loads the row, decides, and writes; most changes must end the *)
(* sessions opened before them, and do that by a second call after (or, on *)
(* a purge, before) the commit.  One action per await that reads or writes *)
(* shared state; checks made on a loaded row belong to the step that       *)
(* loaded it.  A session is one token here: TokenSessions has its parts.   *)
(***************************************************************************)
EXTENDS Integers

CONSTANTS
    Requests,     \* requests that can be in flight at the same time
    MaxRequests   \* bound: requests started in all

ASSUME LifecycleAssumption == MaxRequests \in Nat \ {0}

VARIABLES
    user,       \* the row of the address in users, or NoUser
    nextId,     \* the sequence behind users.id
    version,    \* account_ver:{email}
    tokens,     \* the sessions opened
    kind,       \* what each link is for, "none" before it is sent
    keys,       \* links whose single-use key is in Redis
    expired,    \* links past their lifetime: key gone, JWT refused
    started,    \* how many requests were started
    req,        \* the requests in flight
    epoch,      \* history: changes so far that must end the sessions before them
    lost,       \* history: such a change, and the sessions were not ended
    retired,    \* history: passwords replaced or cleared
    effects,    \* history: how often each link took effect
    dropped,    \* history: reset links claimed by a request that then failed
    overtaken   \* history: a soft delete of a row that was reactivated under it

stores == <<user, nextId, version, tokens, kind, keys, expired>>
ghosts == <<epoch, lost, retired, effects, dropped, overtaken>>
vars == <<stores, started, req, ghosts>>

\* A request is known by its number, and so are the password it sets and the
\* link it sends.
Numbers    == 1 .. MaxRequests
NoPassword == 0
NoLink     == 0

Row == [id : Nat \ {0}, password : Numbers \cup {NoPassword},
        is_verified : BOOLEAN, is_active : BOOLEAN, deleted : BOOLEAN]

NoUser == [id |-> 0, password |-> NoPassword, is_verified |-> FALSE,
           is_active |-> FALSE, deleted |-> FALSE]

\* ver is the account version the token carries, epoch the state of the account
\* in which the credentials were accepted; late if that was over when it was
\* minted, or about to be.
Token == [ver : Nat, epoch : Nat, late : BOOLEAN]

Ops == {"signup", "resend", "forgot", "verify", "confirm", "oauth", "login",
        "profile", "update", "delete", "purge", "reactivate"}
Pcs == {"load", "create", "assign", "send", "write", "restore", "revoke", "mint", "remove"}

Idle == [op |-> "none", pc |-> "idle", n |-> 0, link |-> NoLink, loaded |-> NoUser, epoch |-> 0]

\* A request: its handler, its next await, its number, the link it redeems,
\* the row it loaded, and the epoch in which its credentials were accepted.
Request == [op : Ops, pc : Pcs, n : Numbers, link : Numbers \cup {NoLink},
            loaded : Row \cup {NoUser}, epoch : Nat]

TypeOK ==
    /\ user \in Row \cup {NoUser}
    /\ nextId \in Nat \ {0}
    /\ version \in Nat
    /\ tokens \subseteq Token
    /\ kind \in [Numbers -> {"none", "verify", "reset", "state"}]
    /\ keys \subseteq Numbers
    /\ expired \subseteq Numbers
    /\ started \in 0 .. MaxRequests
    /\ req \in [Requests -> Request \cup {Idle}]
    /\ epoch \in Nat
    /\ lost \in BOOLEAN
    /\ retired \subseteq Numbers
    /\ effects \in [Numbers -> Nat]
    /\ dropped \subseteq Numbers
    /\ overtaken \in BOOLEAN

\* Request 1 has been served: it went to Google from a free address, came back
\* from there to a new account, or signed one up.
Init ==
    /\ \/ /\ user = NoUser
          /\ kind = [l \in Numbers |-> IF l = 1 THEN "state" ELSE "none"]
          /\ keys = {1}
          /\ effects = [l \in Numbers |-> 0]
       \/ /\ user = [id |-> 1, password |-> NoPassword, is_verified |-> TRUE,
                     is_active |-> TRUE, deleted |-> FALSE]
          /\ kind = [l \in Numbers |-> IF l = 1 THEN "state" ELSE "none"]
          /\ keys = {}
          /\ effects = [l \in Numbers |-> IF l = 1 THEN 1 ELSE 0]
       \/ /\ user = [id |-> 1, password |-> 1, is_verified |-> FALSE,
                     is_active |-> TRUE, deleted |-> FALSE]
          /\ kind = [l \in Numbers |-> IF l = 1 THEN "verify" ELSE "none"]
          /\ keys = {1}
          /\ effects = [l \in Numbers |-> 0]
    /\ nextId = 2
    /\ version = 0
    /\ tokens = {}
    /\ expired = {}
    /\ started = 1
    /\ req = [r \in Requests |-> Idle]
    /\ epoch = 0
    /\ lost = FALSE
    /\ retired = {}
    /\ dropped = {}
    /\ overtaken = FALSE

-----------------------------------------------------------------------------
\* The row r loaded is still in the table (it may have changed).
Present(r) == user # NoUser /\ user.id = req[r].loaded.id

\* A purge has ended the sessions and not yet deleted the row.
Purging == \E r \in Requests : req[r].pc = "remove"

Goto(r, pc) == req' = [req EXCEPT ![r].pc = pc]
Finish(r)   == req' = [req EXCEPT ![r] = Idle]

\* Reads the row and goes on to pc; the caller's credentials are of epoch e.
BeginWith(r, op, pc, link, e) ==
    /\ req[r] = Idle
    /\ started < MaxRequests
    /\ started' = started + 1
    /\ req' = [req EXCEPT ![r] = [op |-> op, pc |-> pc, n |-> started + 1, link |-> link,
                                  loaded |-> user, epoch |-> e]]

Begin(r, op, pc, link) == BeginWith(r, op, pc, link, epoch)

\* The row loses password old: a change that must end the sessions.
Retire(old) == retired' = retired \cup ({old} \ {NoPassword})

-----------------------------------------------------------------------------
(* Signup, and the account an OAuth2 login creates.                        *)

\* An address that is taken is answered like any other, and nothing happens.
signup(r) ==
    /\ user = NoUser
    /\ Begin(r, "signup", "create", NoLink)
    /\ UNCHANGED <<stores, ghosts>>

\* The address was taken meanwhile: the unique index refuses the INSERT.
create(r) ==
    /\ req[r].pc = "create"
    /\ IF user = NoUser
       THEN LET new == [id |-> nextId,
                        password |-> IF req[r].op = "signup" THEN req[r].n ELSE NoPassword,
                        is_verified |-> req[r].op = "oauth",
                        is_active |-> TRUE, deleted |-> FALSE]
            IN  /\ user' = new
                /\ nextId' = nextId + 1
                /\ req' = [req EXCEPT ![r].loaded = new, ![r].epoch = epoch, ![r].pc = "assign"]
       ELSE /\ Finish(r)
            /\ UNCHANGED <<user, nextId>>
    /\ UNCHANGED <<version, tokens, kind, keys, expired, started, ghosts>>

\* A commit of its own, on a row that may be purged by now: the foreign key
\* then refuses it.  (The assignments are those of Authorization.)
assign_policy_to_user(r) ==
    /\ req[r].pc = "assign"
    /\ IF Present(r) THEN Goto(r, IF req[r].op = "signup" THEN "send" ELSE "mint")
                     ELSE Finish(r)
    /\ UNCHANGED <<stores, started, ghosts>>

-----------------------------------------------------------------------------
(* Links: sent by mail, redeemed by GETDEL.                                *)

\* Only an account that exists and is not verified is sent a link.
send_verification_email_if_needed(r) ==
    /\ user # NoUser
    /\ ~user.is_verified
    /\ Begin(r, "resend", "send", NoLink)
    /\ UNCHANGED <<stores, ghosts>>

send_reset_email(r) ==
    /\ user # NoUser
    /\ Begin(r, "forgot", "send", NoLink)
    /\ UNCHANGED <<stores, ghosts>>

\* SET with the lifetime of the JWT, then the mail.
send(r) ==
    /\ req[r].pc = "send"
    /\ kind' = [kind EXCEPT ![req[r].n] = IF req[r].op = "forgot" THEN "reset" ELSE "verify"]
    /\ keys' = keys \cup {req[r].n}
    /\ Finish(r)
    /\ UNCHANGED <<user, nextId, version, tokens, expired, started, ghosts>>

\* The redirect to Google: the state is in the URL and in a cookie.
generate_and_store_state ==
    /\ started < MaxRequests
    /\ started' = started + 1
    /\ kind' = [kind EXCEPT ![started + 1] = "state"]
    /\ keys' = keys \cup {started + 1}
    /\ UNCHANGED <<user, nextId, version, tokens, expired, req, ghosts>>

\* Mutant: GET, and the key is left in place.
get(l) == l \in keys /\ UNCHANGED keys

getdel(l) == l \in keys /\ keys' = keys \ {l}

\* verify_token, reset_password and consume_state redeem a link that still
\* decodes.  A link that was redeemed already is refused without effect.
Redeem(r, op, which) ==
    /\ \E l \in Numbers \ expired :
          /\ kind[l] = which
          /\ getdel(l)
          /\ Begin(r, op, "load", l)
    /\ UNCHANGED <<user, nextId, version, tokens, kind, expired, ghosts>>

verify_token(r)   == Redeem(r, "verify", "verify")
reset_password(r) == Redeem(r, "confirm", "reset")
consume_state(r)  == Redeem(r, "oauth", "state")

\* The TTL of the key and exp of the JWT run out together.
Expire(l) ==
    /\ kind[l] # "none"
    /\ l \notin expired
    /\ expired' = expired \cup {l}
    /\ keys' = keys \ {l}
    /\ UNCHANGED <<user, nextId, version, tokens, kind, started, req, ghosts>>

\* After get_by_email the request goes on to pc.
LoadTo(r, pc) ==
    /\ req' = [req EXCEPT ![r].loaded = user, ![r].epoch = epoch, ![r].pc = pc]
    /\ UNCHANGED <<stores, started, ghosts>>

LoadAndFinish(r) == Finish(r) /\ UNCHANGED <<stores, started, ghosts>>

TakesEffect(l) == effects' = [effects EXCEPT ![l] = @ + 1]

-----------------------------------------------------------------------------
(* Verification.                                                           *)

load_for_verification(r) ==
    /\ req[r].op = "verify" /\ req[r].pc = "load"
    /\ IF user = NoUser \/ user.is_verified THEN LoadAndFinish(r) ELSE LoadTo(r, "write")

\* Mutant: the UPDATE writes the whole row back as it was loaded.
mark_user_verified_writes_row(r) ==
    /\ req[r].op = "verify" /\ req[r].pc = "write"
    /\ IF user # NoUser
       THEN /\ user' = [user EXCEPT !.is_verified = TRUE, !.password = req[r].loaded.password]
            /\ TakesEffect(req[r].link)
       ELSE UNCHANGED <<user, effects>>
    /\ Finish(r)
    /\ UNCHANGED <<nextId, version, tokens, kind, keys, expired, started,
                   epoch, lost, retired, dropped, overtaken>>

\* Mutant: an account that is gone is verified like any other.
mark_nobody_verified(r) ==
    /\ req[r].op = "verify" /\ req[r].pc = "write"
    /\ user' = [user EXCEPT !.is_verified = TRUE]
    /\ TakesEffect(req[r].link)
    /\ Finish(r)
    /\ UNCHANGED <<nextId, version, tokens, kind, keys, expired, started,
                   epoch, lost, retired, dropped, overtaken>>

\* update_by_email selects again, by address, and writes the changed column.
mark_user_verified(r) ==
    /\ req[r].op = "verify" /\ req[r].pc = "write"
    /\ IF user # NoUser
       THEN /\ user' = [user EXCEPT !.is_verified = TRUE]
            /\ TakesEffect(req[r].link)
       ELSE UNCHANGED <<user, effects>>
    /\ Finish(r)
    /\ UNCHANGED <<nextId, version, tokens, kind, keys, expired, started,
                   epoch, lost, retired, dropped, overtaken>>

-----------------------------------------------------------------------------
(* Password reset.                                                         *)

\* A password that is weak, or the one the row has, is refused.
load_for_reset(r) ==
    /\ req[r].op = "confirm" /\ req[r].pc = "load"
    /\ LoadTo(r, "restore") \/ (user # NoUser /\ LoadTo(r, "write"))

\* Mutant: a refused request leaves the link redeemed.
restore_nothing(r) ==
    /\ req[r].pc = "restore"
    /\ Finish(r)
    /\ UNCHANGED <<stores, started, ghosts>>

\* _restore_token, for what is left of the JWT's lifetime.
restore_token(r) ==
    /\ req[r].pc = "restore"
    /\ keys' = keys \cup ({req[r].link} \ expired)
    /\ Finish(r)
    /\ UNCHANGED <<user, nextId, version, tokens, kind, expired, started, ghosts>>

\* The row gets r's password, and the sessions are to be ended.
StorePassword(r) ==
    /\ user' = [user EXCEPT !.password = req[r].n]
    /\ Retire(user.password)
    /\ epoch' = epoch + 1
    /\ req' = [req EXCEPT ![r].pc = "revoke", ![r].epoch = @ + 1]

update_password(r) ==
    /\ req[r].op = "confirm" /\ req[r].pc = "write"
    /\ IF user # NoUser
       THEN StorePassword(r) /\ TakesEffect(req[r].link)
       ELSE Goto(r, "restore") /\ UNCHANGED <<user, retired, epoch, effects>>
    /\ UNCHANGED <<nextId, version, tokens, kind, keys, expired, started,
                   lost, dropped, overtaken>>

-----------------------------------------------------------------------------
(* Login, with a password and through Google.                              *)

\* Every check is made on the row as it was loaded.
login(r) ==
    /\ user # NoUser
    /\ user.password # NoPassword
    /\ user.is_verified
    /\ user.is_active
    /\ Begin(r, "login", "mint", NoLink)
    /\ UNCHANGED <<stores, ghosts>>

\* The exchanges with Google lie before this step, and end the request if they
\* fail or the address is not verified there.
login_or_create_user(r) ==
    /\ req[r].op = "oauth" /\ req[r].pc = "load"
    /\ CASE user = NoUser -> LoadTo(r, "create")
         [] user # NoUser /\ ~user.is_verified -> LoadTo(r, "write")
         [] user # NoUser /\ user.is_verified ->
              IF user.is_active THEN LoadTo(r, "mint") ELSE LoadAndFinish(r)

\* An account that was not verified is verified and loses its password, by
\* address again; sessions are not ended, since it could have had none.  If it
\* is gone, the login goes on with the row it loaded.
verify_and_clear_password(r) ==
    /\ req[r].op = "oauth" /\ req[r].pc = "write"
    /\ IF user # NoUser
       THEN /\ user' = [user EXCEPT !.is_verified = TRUE, !.password = NoPassword]
            /\ Retire(user.password)
            /\ epoch' = epoch + 1
            /\ lost' = (lost \/ user.is_verified)
            /\ IF user.is_active
               THEN req' = [req EXCEPT ![r].pc = "mint", ![r].epoch = epoch + 1]
               ELSE Finish(r)
       ELSE /\ IF req[r].loaded.is_active THEN Goto(r, "mint") ELSE Finish(r)
            /\ UNCHANGED <<user, retired, epoch, lost>>
    /\ UNCHANGED <<nextId, version, tokens, kind, keys, expired, started,
                   effects, dropped, overtaken>>

\* create_access_token and create_refresh_token, under the version of now.
mint(r) ==
    /\ req[r].pc = "mint"
    /\ tokens' = tokens \cup {[ver |-> version, epoch |-> req[r].epoch,
                               late |-> req[r].epoch # epoch \/ Purging]}
    /\ IF req[r].op = "oauth" THEN TakesEffect(req[r].link) ELSE UNCHANGED effects
    /\ Finish(r)
    /\ UNCHANGED <<user, nextId, version, kind, keys, expired, started,
                   epoch, lost, retired, dropped, overtaken>>

-----------------------------------------------------------------------------
(* Changes by the account's holder and by an administrator.  The UPDATE of *)
(* each names the row by its id, and raises if that row is gone.           *)

\* Deciding on the row as loaded, op goes on to pc.
LoadFor(r, op, pc) ==
    /\ user # NoUser
    /\ Begin(r, op, pc, NoLink)
    /\ UNCHANGED <<stores, ghosts>>

\* Whoever has a session of an active account; the current password, where
\* there is one, was checked.
update_my_profile(r) ==
    /\ user.is_active
    /\ \E t \in tokens : t.ver = version /\ BeginWith(r, "profile", "write", NoLink, t.epoch)
    /\ UNCHANGED <<stores, ghosts>>

update_any_user(r) == LoadFor(r, "update", "write")
delete_any_user(r) == LoadFor(r, "delete", "write")
purge_user(r)      == LoadFor(r, "purge", "revoke")
reactivate_user(r) == user.deleted /\ LoadFor(r, "reactivate", "write")

StaleData(r) ==
    /\ ~Present(r)
    /\ Finish(r)
    /\ UNCHANGED <<user, epoch, retired, overtaken>>

set_password(r) ==
    /\ req[r].op \in {"profile", "update"} /\ req[r].pc = "write"
    /\ StaleData(r) \/ (Present(r) /\ StorePassword(r) /\ UNCHANGED overtaken)
    /\ UNCHANGED <<nextId, version, tokens, kind, keys, expired, started, lost, effects, dropped>>

\* Mutant: the sessions of a deleted account are left alone.
soft_delete_only(r) ==
    /\ req[r].op = "delete" /\ req[r].pc = "write"
    /\ \/ StaleData(r)
       \/ /\ Present(r)
          /\ user' = [user EXCEPT !.is_active = @ /\ ~req[r].loaded.is_active, !.deleted = TRUE]
          /\ overtaken' = (overtaken \/ (user.is_active /\ ~req[r].loaded.is_active))
          /\ epoch' = epoch + 1
          /\ Finish(r)
          /\ UNCHANGED retired
    /\ UNCHANGED <<nextId, version, tokens, kind, keys, expired, started, lost, effects, dropped>>

\* is_active is written only if the row was loaded active; deleted_at always
\* differs from what was loaded.
soft_delete(r) ==
    /\ req[r].op = "delete" /\ req[r].pc = "write"
    /\ \/ StaleData(r)
       \/ /\ Present(r)
          /\ user' = [user EXCEPT !.is_active = @ /\ ~req[r].loaded.is_active, !.deleted = TRUE]
          /\ overtaken' = (overtaken \/ (user.is_active /\ ~req[r].loaded.is_active))
          /\ epoch' = epoch + 1
          /\ Goto(r, "revoke")
          /\ UNCHANGED retired
    /\ UNCHANGED <<nextId, version, tokens, kind, keys, expired, started, lost, effects, dropped>>

\* Mutant: deleted_at is not cleared.
reactivate_deleted(r) ==
    /\ req[r].op = "reactivate" /\ req[r].pc = "write"
    /\ \/ StaleData(r)
       \/ /\ Present(r)
          /\ user' = [user EXCEPT !.is_active = @ \/ ~req[r].loaded.is_active]
          /\ Finish(r)
          /\ UNCHANGED <<epoch, retired, overtaken>>
    /\ UNCHANGED <<nextId, version, tokens, kind, keys, expired, started, lost, effects, dropped>>

reactivate(r) ==
    /\ req[r].op = "reactivate" /\ req[r].pc = "write"
    /\ \/ StaleData(r)
       \/ /\ Present(r)
          /\ user' = [user EXCEPT !.is_active = @ \/ ~req[r].loaded.is_active, !.deleted = FALSE]
          /\ Finish(r)
          /\ UNCHANGED <<epoch, retired, overtaken>>
    /\ UNCHANGED <<nextId, version, tokens, kind, keys, expired, started, lost, effects, dropped>>

\* What follows revoke_all_tokens_for_user in each handler.
AfterRevoke(r) ==
    CASE req[r].op = "purge"   -> Goto(r, "remove")
      [] req[r].op = "profile" -> Goto(r, "mint")
      [] OTHER                 -> Finish(r)

revoke_all_tokens_for_user(r) ==
    /\ req[r].pc = "revoke"
    /\ version' = version + 1
    /\ lost' = FALSE
    /\ AfterRevoke(r)
    /\ UNCHANGED <<user, nextId, tokens, kind, keys, expired, started,
                   epoch, retired, effects, dropped, overtaken>>

\* Its except clause: logged, and the handler goes on as if it had worked.
revoke_fails(r) ==
    /\ req[r].pc = "revoke"
    /\ lost' = TRUE
    /\ AfterRevoke(r)
    /\ UNCHANGED <<stores, started, epoch, retired, effects, dropped, overtaken>>

\* user_crud.delete: a row that is gone already is no error.
remove(r) ==
    /\ req[r].pc = "remove"
    /\ IF Present(r)
       THEN user' = NoUser /\ epoch' = epoch + 1 /\ Retire(user.password)
       ELSE UNCHANGED <<user, epoch, retired>>
    /\ Finish(r)
    /\ UNCHANGED <<nextId, version, tokens, kind, keys, expired, started,
                   lost, effects, dropped, overtaken>>

\* r raises or its process dies, before the await it is at takes effect.
Fail(r) ==
    /\ req[r] # Idle
    /\ lost' = (lost \/ (req[r].pc = "revoke" /\ req[r].op # "purge"))
    /\ dropped' = dropped \cup
         (IF req[r].op = "confirm" /\ req[r].pc # "revoke" THEN {req[r].link} ELSE {})
    /\ Finish(r)
    /\ UNCHANGED <<stores, started, epoch, retired, effects, overtaken>>

-----------------------------------------------------------------------------
Start(r) ==
    \/ signup(r) \/ send_verification_email_if_needed(r) \/ send_reset_email(r)
    \/ verify_token(r) \/ reset_password(r) \/ consume_state(r) \/ login(r)
    \/ update_my_profile(r) \/ update_any_user(r) \/ delete_any_user(r)
    \/ purge_user(r) \/ reactivate_user(r)

Step(r) ==
    \/ create(r) \/ assign_policy_to_user(r) \/ send(r)
    \/ load_for_verification(r) \/ mark_user_verified(r)
    \/ load_for_reset(r) \/ restore_token(r) \/ update_password(r)
    \/ login_or_create_user(r) \/ verify_and_clear_password(r) \/ mint(r)
    \/ set_password(r) \/ soft_delete(r) \/ reactivate(r)
    \/ revoke_all_tokens_for_user(r) \/ revoke_fails(r) \/ remove(r)

Next ==
    \/ \E r \in Requests : Start(r) \/ Step(r) \/ Fail(r)
    \/ generate_and_store_state
    \/ \E l \in Numbers : Expire(l)

Spec == Init /\ [][Next]_vars

-----------------------------------------------------------------------------
\* A change has been committed whose request has yet to end the sessions.
Owed == \E r \in Requests : req[r].pc = "revoke" /\ req[r].op # "purge"

\* A session that works belongs to the account that is in the table: verified,
\* active, and with nothing changed since the credentials were accepted that
\* was to end it.  Otherwise the request that is to end it is still at it, or
\* could not, or the session was minted for credentials accepted before the
\* change, or while a purge was between its two steps.
SessionsAreOfTheAccount ==
    \A t \in tokens :
        t.ver = version /\ ~t.late /\ ~lost /\ ~Owed =>
            /\ user # NoUser
            /\ user.is_verified
            /\ user.is_active
            /\ t.epoch = epoch

\* No interleaving of loads and writes brings back a password that was
\* replaced by another or cleared by an OAuth2 login.
ReplacedPasswordStaysReplaced == user.password \notin retired

\* A link verifies, sets a password or logs in at most once, although a reset
\* puts its link back when it refuses the password.
LinkTakesEffectOnce == \A l \in Numbers : effects[l] <= 1

Redeeming(l) == \E r \in Requests : req[r].link = l

\* A reset link that is spent without having set a password was dropped by a
\* request that raised or died: every refusal puts it back.
ResetLinkLostOnlyToFailure ==
    \A l \in Numbers :
        kind[l] = "reset" /\ l \notin keys \cup expired /\ effects[l] = 0 /\ ~Redeeming(l)
            => l \in dropped

\* An account that is marked deleted cannot log in, unless a soft delete of an
\* account that was deleted already lost against its reactivation.
DeletedIsInactiveUnlessOvertaken == user.deleted /\ user.is_active => overtaken
=============================================================================
