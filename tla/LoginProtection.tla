--------------------------- MODULE LoginProtection ---------------------------
(***************************************************************************)
(* The failure counters that lock an account or an address out, and the    *)
(* request counters that limit how often an endpoint is called: integers   *)
(* in Redis, raised by INCR, whose EXPIRE is a second command sent by      *)
(* whoever raised the counter to 1.                                        *)
(*                                                                         *)
(* A handler is admitted by its request counters, refused if a failure     *)
(* counter is at its limit, does its work, which succeeds or fails, and    *)
(* then resets or raises its failure counters.  One client address and one *)
(* account; the counters of others are other keys.                         *)
(***************************************************************************)
EXTENDS Integers, Sequences, FiniteSets

CONSTANTS
    Requests,   \* requests that can be in flight at the same time
    Handlers,   \* the handlers that are called: a subset of AllHandlers
    Limit,      \* MAX_FAILED_LOGIN_ATTEMPTS, ..._PER_IP, MAX_REQUESTS_PER_WINDOW
    Faults      \* which faults occur: a subset of {"redis", "crash"}

AllHandlers == {"login", "refresh", "confirm", "signup"}

\* record_request's keys, in the order they are counted.
Admits ==
    [login   |-> <<"login:ip">>,
     refresh |-> <<"refresh:ratelimit:ip">>,
     confirm |-> <<"password_reset_confirm:ip">>,
     signup  |-> <<"signup:ip", "signup:account">>]

\* is_locked's keys, in the order they are read before the work is done.
Prechecks ==
    [login   |-> <<"login_lock:email", "login_lock:ip">>,
     refresh |-> <<"refresh:lockout:ip">>,
     confirm |-> <<>>,
     signup  |-> <<>>]

\* The keys the outcome is recorded under, all at once.
Records ==
    [login   |-> {"login_lock:email", "login_lock:ip"},
     refresh |-> {"refresh:lockout:ip"},
     confirm |-> {"password_reset_confirm_lock:email"},
     signup  |-> {}]

\* check_and_record_action reads the key again before it records; the refresh
\* handler records without.
Rechecks == {"login", "confirm"}

RateKeys == UNION {{Admits[h][i] : i \in DOMAIN Admits[h]} : h \in Handlers}
LockKeys == UNION {Records[h] : h \in Handlers}
Keys     == RateKeys \cup LockKeys

ASSUME ProtectionAssumption ==
    /\ IsFiniteSet(Requests)
    /\ Handlers \subseteq AllHandlers
    /\ Limit \in [Keys -> Nat \ {0}]
    /\ Faults \subseteq {"redis", "crash"}

VARIABLES
    count,      \* the counter under each key; 0 if there is no such key
    ttl,        \* keys that have an expiry
    req,        \* the requests in flight
    admitted,   \* history: requests admitted under a key since it was created
    leaked,     \* history: keys that exist and whose EXPIRE was lost
    blind       \* history: keys that exist and were locked when a check failed

vars == <<count, ttl, req, admitted, leaked, blind>>

\* Counting stops here: one more than what OvershootBounded allows a failure
\* counter, and one more than a request counter admits.
Cap(k) == Limit[k] + Cardinality(Requests)

Idle == [op |-> "none", pc |-> "idle", at |-> 0, ok |-> FALSE,
         post |-> [k \in Keys |-> "done"]]

\* A request: its handler, where it is, the position in the sequence of keys it
\* is at, whether its work succeeded, and what is left to do under each key.
Request == [op : AllHandlers, pc : {"admit", "expire", "precheck", "work", "record"},
            at : Nat \ {0}, ok : BOOLEAN,
            post : [Keys -> {"check", "record", "expire", "done"}]]

TypeOK ==
    /\ count \in [Keys -> Nat]
    /\ ttl \subseteq Keys
    /\ req \in [Requests -> Request \cup {Idle}]
    /\ admitted \in [Keys -> Nat]
    /\ leaked \subseteq Keys
    /\ blind \subseteq Keys

Init ==
    /\ count = [k \in Keys |-> 0]
    /\ ttl = {}
    /\ req = [r \in Requests |-> Idle]
    /\ admitted = [k \in Keys |-> 0]
    /\ leaked = {}
    /\ blind = {}

-----------------------------------------------------------------------------
Incr(k) == count' = [count EXCEPT ![k] = IF @ < Cap(k) THEN @ + 1 ELSE @]

Delete(k) ==
    /\ count' = [count EXCEPT ![k] = 0]
    /\ ttl' = ttl \ {k}
    /\ admitted' = [admitted EXCEPT ![k] = 0]
    /\ leaked' = leaked \ {k}
    /\ blind' = blind \ {k}

\* Keys that exist and have no expiry.
Unexpiring == {k \in Keys : count[k] > 0 /\ k \notin ttl}

\* Mutant: a lock starts above its limit.
is_locked_above(k) == count[k] > Limit[k]

\* is_locked, when the GET is answered.
is_locked(k) == count[k] >= Limit[k]

Goto(r, pc) == req' = [req EXCEPT ![r].pc = pc]
Finish(r)   == req' = [req EXCEPT ![r] = Idle]

call(r) ==
    /\ req[r] = Idle
    /\ \E h \in Handlers :
          req' = [req EXCEPT ![r] = [op |-> h, pc |-> "admit", at |-> 1, ok |-> FALSE,
                                     post |-> [k \in Keys |-> "done"]]]
    /\ UNCHANGED <<count, ttl, admitted, leaked, blind>>

-----------------------------------------------------------------------------
(* Admission: rate_limiter_service.                                        *)

RateKey(r) == Admits[req[r].op][req[r].at]

\* Admitted under its key, a request goes on to the next one, if there is one.
NextAdmission(r) ==
    req' = [req EXCEPT
              ![r].pc = IF req[r].at < Len(Admits[req[r].op]) THEN "admit"
                        ELSE IF Prechecks[req[r].op] = <<>> THEN "work" ELSE "precheck",
              ![r].at = IF req[r].at < Len(Admits[req[r].op]) THEN @ + 1 ELSE 1]

Admit(r, k) ==
    /\ NextAdmission(r)
    /\ admitted' = [admitted EXCEPT ![k] = @ + 1]

\* Mutant: the count from before the INCR is compared with the limit.
record_request_old_count(r) ==
    /\ req[r].pc = "admit"
    /\ LET k == RateKey(r)
       IN  /\ Incr(k)
           /\ IF count[k] = 0 THEN Goto(r, "expire") /\ UNCHANGED admitted
              ELSE IF count[k] <= Limit[k] THEN Admit(r, k)
              ELSE Finish(r) /\ UNCHANGED admitted
    /\ UNCHANGED <<ttl, leaked, blind>>

\* INCR; the request that creates the key has still to set its expiry.
record_request(r) ==
    /\ req[r].pc = "admit"
    /\ LET k == RateKey(r)
       IN  /\ Incr(k)
           /\ IF count[k] = 0 THEN Goto(r, "expire") /\ UNCHANGED admitted
              ELSE IF count[k] < Limit[k] THEN Admit(r, k)
              ELSE Finish(r) /\ UNCHANGED admitted
    /\ UNCHANGED <<ttl, leaked, blind>>

\* EXPIRE; on a key that is gone meanwhile it does nothing.
expire_window(r) ==
    /\ req[r].pc = "expire"
    /\ LET k == RateKey(r)
       IN  /\ ttl' = IF count[k] > 0 THEN ttl \cup {k} ELSE ttl
           /\ Admit(r, k)
    /\ UNCHANGED <<count, leaked, blind>>

\* A command that raises refuses the request: the limiter fails closed.
rate_limiter_fails(r) ==
    /\ "redis" \in Faults
    /\ req[r].pc \in {"admit", "expire"}
    /\ leaked' = leaked \cup {k \in Unexpiring : req[r].pc = "expire" /\ k = RateKey(r)}
    /\ Finish(r)
    /\ UNCHANGED <<count, ttl, admitted, blind>>

-----------------------------------------------------------------------------
(* The check before the work, and the work.                                *)

PrecheckKey(r) == Prechecks[req[r].op][req[r].at]

NextPrecheck(r) ==
    req' = [req EXCEPT
              ![r].pc = IF req[r].at < Len(Prechecks[req[r].op]) THEN "precheck" ELSE "work",
              ![r].at = IF req[r].at < Len(Prechecks[req[r].op]) THEN @ + 1 ELSE 1]

precheck(r) ==
    /\ req[r].pc = "precheck"
    /\ IF is_locked(PrecheckKey(r)) THEN Finish(r) ELSE NextPrecheck(r)
    /\ UNCHANGED <<count, ttl, admitted, leaked, blind>>

\* A GET that raises counts as not locked: the lock fails open.
precheck_fails(r) ==
    /\ "redis" \in Faults
    /\ req[r].pc = "precheck"
    /\ NextPrecheck(r)
    /\ blind' = blind \cup {k \in Keys : k = PrecheckKey(r) /\ is_locked(k)}
    /\ UNCHANGED <<count, ttl, admitted, leaked>>

\* The password is compared, the token rotated, the link redeemed.
work(r) ==
    /\ req[r].pc = "work"
    /\ \E ok \in BOOLEAN :
          req' = [req EXCEPT
                    ![r].ok = ok, ![r].pc = "record",
                    ![r].post = [k \in Keys |->
                        IF k \notin Records[req[r].op] THEN "done"
                        ELSE IF req[r].op \in Rechecks THEN "check" ELSE "record"]]
    /\ UNCHANGED <<count, ttl, admitted, leaked, blind>>

-----------------------------------------------------------------------------
(* check_and_record_action, for each key on its own.                       *)

Post(r, k, what) == req' = [req EXCEPT ![r].post[k] = what]

recheck(r, k) ==
    /\ req[r].post[k] = "check"
    /\ Post(r, k, IF is_locked(k) THEN "done" ELSE "record")
    /\ UNCHANGED <<count, ttl, admitted, leaked, blind>>

recheck_fails(r, k) ==
    /\ "redis" \in Faults
    /\ req[r].post[k] = "check"
    /\ Post(r, k, "record")
    /\ blind' = IF is_locked(k) THEN blind \cup {k} ELSE blind
    /\ UNCHANGED <<count, ttl, admitted, leaked>>

reset_failed_attempts(r, k) ==
    /\ req[r].post[k] = "record"
    /\ req[r].ok
    /\ Delete(k)
    /\ Post(r, k, "done")

\* Mutant: the expiry is set when the limit is reached.
record_failed_attempt_late(r, k) ==
    /\ req[r].post[k] = "record"
    /\ ~req[r].ok
    /\ Incr(k)
    /\ Post(r, k, IF count[k] = 1 THEN "expire" ELSE "done")
    /\ UNCHANGED <<ttl, admitted, leaked, blind>>

\* INCR; whoever creates the key has still to set its expiry.
record_failed_attempt(r, k) ==
    /\ req[r].post[k] = "record"
    /\ ~req[r].ok
    /\ Incr(k)
    /\ Post(r, k, IF count[k] = 0 THEN "expire" ELSE "done")
    /\ UNCHANGED <<ttl, admitted, leaked, blind>>

expire_lock(r, k) ==
    /\ req[r].post[k] = "expire"
    /\ ttl' = IF count[k] > 0 THEN ttl \cup {k} ELSE ttl
    /\ Post(r, k, "done")
    /\ UNCHANGED <<count, admitted, leaked, blind>>

\* DEL, INCR or EXPIRE raises: logged, and nothing is recorded.
record_fails(r, k) ==
    /\ "redis" \in Faults
    /\ req[r].post[k] \in {"record", "expire"}
    /\ leaked' = leaked \cup {j \in Unexpiring : req[r].post[k] = "expire" /\ j = k}
    /\ Post(r, k, "done")
    /\ UNCHANGED <<count, ttl, admitted, blind>>

\* gather has returned, and the handler answers.  A link that does not decode
\* names no account: it is refused, and nothing is recorded.
answer(r) ==
    /\ req[r].pc = "record" \/ (req[r].pc = "work" /\ req[r].op = "confirm")
    /\ \A k \in Keys : req[r].post[k] = "done"
    /\ Finish(r)
    /\ UNCHANGED <<count, ttl, admitted, leaked, blind>>

-----------------------------------------------------------------------------
\* r has created k and has still to send EXPIRE.
ExpireOwed(r, k) == \/ req[r].post[k] = "expire"
                    \/ req[r].pc = "expire" /\ k = RateKey(r)

\* The process dies, or the work raises: what the request had still to send is
\* never sent.
Crash(r) ==
    /\ "crash" \in Faults
    /\ req[r] # Idle
    /\ leaked' = leaked \cup {k \in Unexpiring : ExpireOwed(r, k)}
    /\ Finish(r)
    /\ UNCHANGED <<count, ttl, admitted, blind>>

\* Redis deletes a key whose time has come.
Expire(k) ==
    /\ k \in ttl
    /\ Delete(k)
    /\ UNCHANGED req

Step(r) ==
    \/ record_request(r) \/ expire_window(r) \/ rate_limiter_fails(r)
    \/ precheck(r) \/ precheck_fails(r) \/ work(r) \/ answer(r)
    \/ \E k \in Keys :
          \/ recheck(r, k) \/ recheck_fails(r, k) \/ reset_failed_attempts(r, k)
          \/ record_failed_attempt(r, k) \/ expire_lock(r, k) \/ record_fails(r, k)

Next ==
    \/ \E r \in Requests : call(r) \/ Step(r) \/ Crash(r)
    \/ \E k \in Keys : Expire(k)

Spec == Init /\ [][Next]_vars

\* A request whose INCR created a key goes on to its EXPIRE, and time passes.
FairSpec ==
    /\ Spec
    /\ \A r \in Requests : WF_vars(expire_window(r))
    /\ \A r \in Requests, k \in Keys : WF_vars(expire_lock(r, k))
    /\ \A k \in Keys : WF_vars(Expire(k))

-----------------------------------------------------------------------------
\* However many attempts run at once, failures pass the limit by less than the
\* number of requests in flight, unless a read of the lock failed.
OvershootBounded ==
    \A k \in LockKeys \ blind :
        count[k] < Limit[k] + Cardinality(Requests)

\* A window admits no more than MAX_REQUESTS_PER_WINDOW requests, however
\* they interleave and whatever fails.
RateLimitExact == \A k \in RateKeys : admitted[k] <= Limit[k]

\* A counter without an expiry is one whose EXPIRE is still to be sent, or was
\* lost: no interleaving of resets, expiries and first failures leaves one
\* behind that nobody is to expire.
UnexpiringOnlyIfLeaked ==
    \A k \in Unexpiring \ leaked :
        \E r \in Requests : ExpireOwed(r, k)

\* Every lock, and every refusal for too many requests, ends.  A process that
\* dies between INCR and EXPIRE breaks it; what holds is the next property.
LockoutsEnd == \A k \in Keys : is_locked(k) ~> ~is_locked(k)

\* A counter that stays at its limit for ever has lost its EXPIRE: any other
\* falls below it again and again.
LockedForeverOnlyIfLeaked == \A k \in Keys : []<>(is_locked(k) => k \in leaked)
=============================================================================
