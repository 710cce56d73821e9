-------------------------- MODULE SessionLifecycle --------------------------
(***************************************************************************)
(* One session in one browser: the tabs that share its cookies, and what   *)
(* the interceptor of each tab makes of a 401: refresh the session once    *)
(* for all calls that need it, retry, wait for a password change that is   *)
(* under way, and at last mark the tab as logged out.                      *)
(*                                                                         *)
(* A call leaves with the cookies of that moment, and is answered later;   *)
(* answers overtake each other.  Between two events of the network the     *)
(* tab's promises run until all of them wait.  The server takes a call in  *)
(* one step, but for a password change, whose two halves (the versions are *)
(* raised, the new tokens are made) are what the tab has to get over; the  *)
(* races inside the server are those of TokenSessions.                     *)
(***************************************************************************)
EXTENDS Integers, Sequences, FiniteSets

CONSTANTS
    Tabs,       \* open tabs; a tab also stands for its own POST /auth/refresh/
    Calls,      \* other API calls that can be in flight at the same time
    TabOf,      \* the tab each of them is made from
    NoCall,
    MaxCalls,   \* bound: API calls made
    MaxRevokes, \* bound: revocations from elsewhere
    Faults      \* a subset of {"lost"}

Slots == Calls \cup Tabs

ASSUME LifecycleAssumption ==
    /\ Calls \cap Tabs = {}
    /\ NoCall \notin Slots
    /\ TabOf \in [Calls -> Tabs]
    /\ MaxCalls \in Nat
    /\ MaxRevokes \in Nat
    /\ Faults \subseteq {"lost"}

VARIABLES
    version,         \* server: the versions of the session, as one number
    claims,          \* server: refresh tokens redeemed, and by which tab
    nextPair,        \* server: number of the next pair of tokens
    expired,         \* pairs whose access token has expired
    cookie,          \* browser: the pair in the cookies
    authenticated,   \* tabs whose authStore.isAuthenticated is true
    pendingRotation, \* the password change each tab waits for, if any
    req,             \* the calls in flight; that of a tab is its refreshInFlight
    started, revokes,
    lost,            \* history: tabs that were cut off from an answer
    last,            \* history: the last answer that a tab received
    replays          \* history: tabs that presented what they had redeemed

vars == <<version, claims, nextPair, expired, cookie, authenticated, pendingRotation,
          req, started, revokes, lost, last, replays>>
serverVars  == <<version, claims, nextPair, replays>>
browserVars == <<expired, cookie, authenticated, pendingRotation>>
historyVars == <<started, revokes, lost, last>>

Tab(p) == IF p \in Tabs THEN p ELSE TabOf[p]

Pair == [id : Nat \ {0}, version : Nat]
NoPair == [id |-> 0, version |-> 0]

\* One run of the interceptor: whether its call was retried after a refresh and
\* after a password change, and the try block it is in.
Frame == [refreshed : BOOLEAN, rotated : BOOLEAN, in : {"none", "refresh", "rotation"}]
NewFrame == [refreshed |-> FALSE, rotated |-> FALSE, in |-> "none"]

Idle == [kind |-> "none", pc |-> "idle", frames |-> <<>>, sent |-> NoPair,
         status |-> "none", pair |-> NoPair, target |-> NoCall]

\* A call: the interceptors it is nested in, the pair it was sent with, its
\* answer with the pair that this sets, and the password change it waits for.
Call == [kind : {"me", "page", "password", "refresh"},
         pc : {"sent", "minting", "replied", "refused", "denied", "rejected",
               "await_refresh", "await_rotation"},
         frames : Seq(Frame), sent : Pair, status : {"none", "ok", "401", "other"},
         pair : Pair \cup {NoPair}, target : Calls \cup {NoCall}]

\* An answer as the tab received it, and what its call had been through.
Received == [tab : Tabs, kind : {"me", "page", "password", "refresh"},
             status : {"ok", "401", "other"}, sent : Pair,
             retried : BOOLEAN, refreshed : BOOLEAN, rotated : BOOLEAN]
NoAnswer == [status |-> "none"]

TypeOK ==
    /\ version \in Nat /\ nextPair \in Nat \ {0}
    /\ claims \subseteq Nat \X Tabs
    /\ expired \subseteq Nat
    /\ cookie \in Pair
    /\ authenticated \subseteq Tabs
    /\ pendingRotation \in [Tabs -> Calls \cup {NoCall}]
    /\ req \in [Slots -> Call \cup {Idle}]
    /\ started \in Nat /\ revokes \in Nat
    /\ lost \subseteq Tabs /\ replays \subseteq Tabs
    /\ last \in Received \cup {NoAnswer}

\* Someone has just logged in.
Init ==
    /\ version = 0
    /\ claims = {}
    /\ nextPair = 2
    /\ expired = {}
    /\ cookie = [id |-> 1, version |-> 0]
    /\ authenticated = Tabs
    /\ pendingRotation = [t \in Tabs |-> NoCall]
    /\ req = [p \in Slots |-> Idle]
    /\ started = 0 /\ revokes = 0
    /\ lost = {} /\ replays = {}
    /\ last = NoAnswer

-----------------------------------------------------------------------------
InFlight(p) == req[p].pc # "idle"

\* The tab's promises have all run until they wait.
Quiet == \A p \in Slots : req[p].pc \notin {"refused", "denied", "rejected"}

Top(p) == req[p].frames[Len(req[p].frames)]

\* The call x, sent with the cookies c.
Sent(x, frames, c) ==
    [x EXCEPT !.pc = "sent", !.frames = frames, !.sent = c,
              !.status = "none", !.pair = NoPair, !.target = NoCall]

WithTop(x, f) == [x EXCEPT !.frames[Len(x.frames)] = f]

\* api(originalRequest): a new call, whose configuration is copied with its
\* flags from the one that is retried.
Retry(x, f, c) == Sent(x, Append(WithTop(x, f).frames, [f EXCEPT !.in = "none"]), c)

start(p, kind) ==
    /\ Quiet
    /\ ~InFlight(p)
    /\ started < MaxCalls
    /\ kind # "me" => TabOf[p] \in authenticated
    /\ req' = [req EXCEPT ![p] = Sent([Idle EXCEPT !.kind = kind], <<NewFrame>>, cookie)]
    /\ pendingRotation' = IF kind = "password" THEN [pendingRotation EXCEPT ![TabOf[p]] = p]
                          ELSE pendingRotation
    /\ started' = started + 1
    /\ UNCHANGED <<serverVars, expired, cookie, authenticated, revokes, lost, last>>

-----------------------------------------------------------------------------
(* The server.                                                             *)

Current(pair)  == pair.version = version
Admitted(pair) == Current(pair) /\ pair.id \notin expired

Answer(p, status, pair) ==
    req' = [req EXCEPT ![p].pc = "replied", ![p].status = status, ![p].pair = pair]

NewPair == [id |-> nextPair, version |-> version]

\* Any call may be turned away otherwise than by a 401, or fail.
serve(p) ==
    /\ req[p].pc = "sent"
    /\ req[p].kind \in {"me", "page"}
    /\ \/ Answer(p, IF Admitted(req[p].sent) THEN "ok" ELSE "401", NoPair)
       \/ Answer(p, "other", NoPair)
    /\ UNCHANGED <<serverVars, browserVars, historyVars>>

\* The password is changed and the versions are raised.
update_my_profile(p) ==
    /\ req[p].pc = "sent"
    /\ req[p].kind = "password"
    /\ \/ /\ Admitted(req[p].sent)
          /\ version' = version + 1
          /\ req' = [req EXCEPT ![p].pc = "minting"]
       \/ /\ ~Admitted(req[p].sent)
          /\ Answer(p, "401", NoPair)
          /\ UNCHANGED version
       \/ /\ Answer(p, "other", NoPair)
          /\ UNCHANGED version
    /\ UNCHANGED <<claims, nextPair, replays, browserVars, historyVars>>

\* New tokens for this device.
create_tokens(p) ==
    /\ req[p].pc = "minting"
    /\ \/ Answer(p, "ok", NewPair) /\ nextPair' = nextPair + 1
       \/ Answer(p, "other", NoPair) /\ UNCHANGED nextPair
    /\ UNCHANGED <<version, claims, replays, browserVars, historyVars>>

\* A stale token is refused, one that was redeemed ends the session.
refresh_tokens(t) ==
    /\ req[t].pc = "sent"
    /\ req[t].kind = "refresh"
    /\ LET pair     == req[t].sent
           redeemed == \E s \in Tabs : <<pair.id, s>> \in claims
       IN  \/ /\ ~Current(pair)
              /\ Answer(t, "401", NoPair)
              /\ UNCHANGED serverVars
           \/ /\ Current(pair) /\ redeemed
              /\ Answer(t, "401", NoPair)
              /\ version' = version + 1
              /\ replays' = IF <<pair.id, t>> \in claims THEN replays \cup {t} ELSE replays
              /\ UNCHANGED <<claims, nextPair>>
           \/ /\ Current(pair) /\ ~redeemed
              /\ Answer(t, "ok", NewPair)
              /\ claims' = claims \cup {<<pair.id, t>>}
              /\ nextPair' = nextPair + 1
              /\ UNCHANGED <<version, replays>>
           \/ /\ Answer(t, "other", NoPair)
              /\ UNCHANGED serverVars
    /\ UNCHANGED <<browserVars, historyVars>>

\* Logout-all, an administrator, or Manage Sessions on another device.
revoke_elsewhere ==
    /\ Quiet
    /\ revokes < MaxRevokes
    /\ version' = version + 1
    /\ revokes' = revokes + 1
    /\ UNCHANGED <<claims, nextPair, replays, browserVars, req, started, lost, last>>

\* The access token of the cookies expires.
expire_access ==
    /\ Quiet
    /\ cookie.id \notin expired
    /\ expired' = expired \cup {cookie.id}
    /\ UNCHANGED <<serverVars, cookie, authenticated, pendingRotation, req, historyVars>>

\* The connection breaks before new tokens have arrived.  (To lose another
\* answer is to get an error.)
lose(p) ==
    /\ "lost" \in Faults
    /\ Quiet
    /\ req[p].pc = "replied"
    /\ req[p].pair # NoPair
    /\ Answer(p, "other", NoPair)
    /\ lost' = lost \cup {Tab(p)}
    /\ UNCHANGED <<serverVars, browserVars, started, revokes, last>>

-----------------------------------------------------------------------------
(* The tab.                                                                *)

\* Mutant: those who wait hear only of a refresh that succeeds.
Settle_resolved(p, ok, c) ==
    /\ req' = [q \in Slots |->
                 IF q = p THEN Idle
                 ELSE IF ok /\ req[q].pc = "await_refresh" /\ p = Tab(q)
                 THEN Retry(req[q], [Top(q) EXCEPT !.refreshed = TRUE], c)
                 ELSE IF req[q].pc = "await_rotation" /\ p = req[q].target
                 THEN Retry(req[q], Top(q), c)
                 ELSE req[q]]
    /\ pendingRotation' = [t \in Tabs |->
                             IF pendingRotation[t] = p THEN NoCall ELSE pendingRotation[t]]

\* The promise of p settles, with the cookies c in place: who waits for it goes
\* on, or is told that the refresh has failed.
Settle(p, ok, c) ==
    /\ req' = [q \in Slots |->
                 IF q = p THEN Idle
                 ELSE IF req[q].pc = "await_refresh" /\ p = Tab(q)
                 THEN IF ok THEN Retry(req[q], [Top(q) EXCEPT !.refreshed = TRUE], c)
                      ELSE [req[q] EXCEPT !.pc = "denied"]
                 ELSE IF req[q].pc = "await_rotation" /\ p = req[q].target
                 THEN Retry(req[q], Top(q), c)
                 ELSE req[q]]
    /\ pendingRotation' = [t \in Tabs |->
                             IF pendingRotation[t] = p THEN NoCall ELSE pendingRotation[t]]

AnswerOf(p) ==
    [tab |-> Tab(p), kind |-> req[p].kind, status |-> req[p].status, sent |-> req[p].sent,
     retried |-> Len(req[p].frames) > 1,
     refreshed |-> Top(p).refreshed, rotated |-> Top(p).rotated]

\* Mutant: an answer that sets no cookies clears them.
receive_clears(p) ==
    /\ Quiet
    /\ req[p].pc = "replied"
    /\ LET pair == req[p].pair
           now  == pair
       IN  \/ /\ req[p].status = "ok"
              /\ cookie' = now
              /\ Settle(p, TRUE, now)
              /\ authenticated' = IF req[p].kind = "me" THEN authenticated \cup {Tab(p)}
                                  ELSE authenticated
           \/ /\ req[p].status = "401"
              /\ req' = [req EXCEPT ![p].pc = "refused"]
              /\ UNCHANGED <<cookie, authenticated, pendingRotation>>
           \/ /\ req[p].status = "other"
              /\ req' = [req EXCEPT ![p].pc = "rejected"]
              /\ UNCHANGED <<cookie, authenticated, pendingRotation>>
    /\ last' = AnswerOf(p)
    /\ UNCHANGED <<serverVars, expired, started, revokes, lost>>

\* An answer arrives: its cookies are set, and GET /auth/me opens the tab.
receive(p) ==
    /\ Quiet
    /\ req[p].pc = "replied"
    /\ LET pair == req[p].pair
           now  == IF pair = NoPair THEN cookie ELSE pair
       IN  \/ /\ req[p].status = "ok"
              /\ cookie' = now
              /\ Settle(p, TRUE, now)
              /\ authenticated' = IF req[p].kind = "me" THEN authenticated \cup {Tab(p)}
                                  ELSE authenticated
           \/ /\ req[p].status = "401"
              /\ req' = [req EXCEPT ![p].pc = "refused"]
              /\ UNCHANGED <<cookie, authenticated, pendingRotation>>
           \/ /\ req[p].status = "other"
              /\ req' = [req EXCEPT ![p].pc = "rejected"]
              /\ UNCHANGED <<cookie, authenticated, pendingRotation>>
    /\ last' = AnswerOf(p)
    /\ UNCHANGED <<serverVars, expired, started, revokes, lost>>

Eligible(p) == p \in Calls /\ ~Top(p).refreshed

\* Mutant: each call that is refused refreshes for itself.
refresh_each(p) ==
    /\ req[p].pc = "refused"
    /\ Eligible(p)
    /\ req' = [req EXCEPT
                 ![p] = [WithTop(@, [Top(p) EXCEPT !.in = "refresh"])
                           EXCEPT !.pc = "await_refresh"],
                 ![Tab(p)] = Sent([Idle EXCEPT !.kind = "refresh"], <<NewFrame>>, cookie)]
    /\ UNCHANGED <<serverVars, browserVars, historyVars>>

\* refreshAndRetry: wait for the refresh of the tab, which is sent unless it is
\* in flight.
refreshSession(p) ==
    /\ req[p].pc = "refused"
    /\ Eligible(p)
    /\ LET t == Tab(p)
       IN  req' = [req EXCEPT
                     ![p] = [WithTop(@, [Top(p) EXCEPT !.in = "refresh"])
                               EXCEPT !.pc = "await_refresh"],
                     ![t] = IF InFlight(t) THEN @
                            ELSE Sent([Idle EXCEPT !.kind = "refresh"], <<NewFrame>>, cookie)]
    /\ UNCHANGED <<serverVars, browserVars, historyVars>>

\* Mutant: the guard of sessionRotationGuard.ts is not asked.
Waits_never(p) == p \notin Slots

\* A password change of its tab is under way, and the call has not yet waited for one.
Waits(p) == ~Top(p).rotated /\ pendingRotation[Tab(p)] # NoCall

\* A call that cannot be refreshed waits for a password change under way, once.
awaitRotation(p) ==
    /\ req[p].pc = "denied" \/ (req[p].pc = "refused" /\ ~Eligible(p))
    /\ Waits(p)
    /\ req' = [req EXCEPT
                 ![p] = [WithTop(@, [Top(p) EXCEPT !.rotated = TRUE, !.in = "rotation"])
                           EXCEPT !.pc = "await_rotation",
                                  !.target = pendingRotation[Tab(p)]]]
    /\ UNCHANGED <<serverVars, browserVars, historyVars>>

\* The session is over, as far as the tab is concerned.
giveUp(p) ==
    /\ req[p].pc = "denied" \/ (req[p].pc = "refused" /\ ~Eligible(p))
    /\ ~Waits(p)
    /\ authenticated' = authenticated \ {Tab(p)}
    /\ req' = [req EXCEPT ![p].pc = "rejected"]
    /\ UNCHANGED <<serverVars, expired, cookie, pendingRotation, historyVars>>

\* The error is caught by the interceptor around this call: it tries the next
\* thing, or gives up and passes the error on.
caught(p) ==
    /\ req[p].pc = "rejected"
    /\ Len(req[p].frames) > 1
    /\ LET outer == SubSeq(req[p].frames, 1, Len(req[p].frames) - 1)
           from  == outer[Len(outer)].in
       IN  /\ req' = [req EXCEPT ![p].frames = outer,
                                 ![p].pc = IF from = "refresh" THEN "denied" ELSE "rejected"]
           /\ authenticated' = IF from = "refresh" THEN authenticated
                               ELSE authenticated \ {Tab(p)}
    /\ UNCHANGED <<serverVars, expired, cookie, pendingRotation, historyVars>>

\* The error reaches the caller; one of GET /auth/me closes the tab.
reject(p) ==
    /\ req[p].pc = "rejected"
    /\ Len(req[p].frames) = 1
    /\ Settle(p, FALSE, cookie)
    /\ authenticated' = IF req[p].kind = "me" THEN authenticated \ {Tab(p)} ELSE authenticated
    /\ UNCHANGED <<serverVars, expired, cookie, historyVars>>

Serve(p) == serve(p) \/ update_my_profile(p) \/ create_tokens(p) \/ (p \in Tabs /\ refresh_tokens(p))
React(p) == \/ receive(p) \/ refreshSession(p) \/ awaitRotation(p)
            \/ giveUp(p) \/ caught(p) \/ reject(p)

Next ==
    \/ \E p \in Calls, kind \in {"me", "page", "password"} : start(p, kind)
    \/ \E p \in Slots : Serve(p) \/ React(p) \/ lose(p)
    \/ revoke_elsewhere
    \/ expire_access

Spec == Init /\ [][Next]_vars

\* Calls are answered, and promises go on.
FairSpec == Spec /\ \A p \in Slots : WF_vars(Serve(p)) /\ WF_vars(React(p))

-----------------------------------------------------------------------------
\* A tab never presents a refresh token it has redeemed before, unless it never
\* got the answer: the single flight keeps it from ending its own session.
NoTabReplaysItself == replays \subseteq lost

Live == Current(cookie)

\* p is about to bring the browser cookies that are valid: a password change
\* that has raised the versions or that the server will admit, a refresh that
\* is not yet refused, and the answer of either on its way.
MayRenew(p) ==
    /\ p \in Slots
    /\ \/ req[p].pc = "sent" /\ req[p].kind = "password" /\ Admitted(req[p].sent)
       \/ req[p].pc = "sent" /\ req[p].kind = "refresh" /\ Current(req[p].sent)
       \/ req[p].pc = "minting"
       \/ req[p].pc = "replied" /\ req[p].pair # NoPair /\ Current(req[p].pair)

\* No cookies are valid, and none will be until someone logs in again.
SessionOver == ~Live /\ \A p \in Slots : ~MayRenew(p)

\* The cookies are stale until new ones arrive, and no password change that the
\* guard of this tab knows of will bring them.
RenewedUnguarded(t) == ~Live /\ ~MayRenew(pendingRotation[t])

\* They arrive in another tab, whose guard is a variable of its own.
RenewedElsewhere(t) ==
    RenewedUnguarded(t) /\ \E p \in Slots : Tab(p) # t /\ MayRenew(p)

\* They arrive by a refresh of this tab that an overtaking answer has made the
\* only valid one, or by a password change that a later one displaced in the guard.
RenewedAside(t) ==
    RenewedUnguarded(t) /\ \E p \in Slots : Tab(p) = t /\ MayRenew(p)

\* What may end in giving up, at the answer that the tab received last.
Reason(t) ==
    /\ last.status \in {"401", "other"}
    /\ last.tab = t
    /\ \/ SessionOver \/ RenewedElsewhere(t) \/ RenewedAside(t)
       \/ ~Live /\ last.rotated
       \/ /\ last.status = "401"
          /\ last.refreshed \/ last.kind = "refresh"
          /\ last.sent # cookie \/ (last.refreshed /\ last.sent.id \in expired)
       \/ last.status = "other" /\ (last.retried \/ last.kind \in {"refresh", "me"})

\* A tab gives up only at an answer of its own, and only because
\*   - the session is over;
\*   - it is being renewed by another tab, or by a call the guard does not hold;
\*   - the call had waited for a password change before, and there is another;
\*   - a call that is not refreshed (again) was refused for cookies that were
\*     replaced meanwhile, or for an access token that expired on its way;
\*   - a refresh, a retried call or GET /auth/me failed otherwise than by a 401.
\* In particular not while its own password change is bringing new cookies, and
\* not for the failure of a call that was sent once.
GivesUpForAReason == [][\A t \in authenticated \ authenticated' : Reason(t)]_vars

\* A password change that waits for itself, or for a refresh that waits for it.
WaitsForItself(r) ==
    \/ req[r].pc = "await_rotation" /\ req[r].target = r
    \/ /\ req[r].pc = "await_refresh"
       /\ req[Tab(r)].pc = "await_rotation"
       /\ req[Tab(r)].target = r

\* Every call is answered to its caller: "once the tracked request settles, a
\* still-failing refresh is treated as real".
CallsSettle == \A p \in Calls : InFlight(p) ~> ~InFlight(p)

\* The only thing that keeps a call from being answered is a password change
\* that was itself refused.
CallsSettleUnlessCircular ==
    \A p \in Calls : InFlight(p) ~> (~InFlight(p) \/ \E r \in Calls : WaitsForItself(r))
=============================================================================
