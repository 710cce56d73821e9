------------------------- MODULE LoginProtection_proofs -------------------------
(***************************************************************************)
(* Theorems about LoginProtection, for every number of requests, all       *)
(* limits, any of the handlers and all faults.                             *)
(***************************************************************************)
EXTENDS LoginProtection, FiniteSetTheorems, TLAPS

Done == [k \in Keys |-> "done"]

\* A request at each of its steps.
StepsMatch(q) ==
    /\ q.op \in Handlers
    /\ q.pc \in {"admit", "expire"} => q.at \in DOMAIN Admits[q.op]
    /\ q.pc = "precheck" => q.at \in DOMAIN Prechecks[q.op]
    /\ q.pc # "record" => q.post = Done
    /\ \A k \in Keys : q.post[k] # "done" => k \in Records[q.op]
    /\ \A k \in Keys : q.post[k] = "check" => q.op \in Rechecks

ProtectionInv ==
    /\ TypeOK
    /\ \A r \in Requests : req[r] # Idle => StepsMatch(req[r])

-----------------------------------------------------------------------------
(* The keys.                                                               *)

LEMMA KeyKinds ==
    /\ RateKeys \subseteq Keys
    /\ LockKeys \subseteq Keys
    /\ RateKeys \cap LockKeys = {}
    /\ \A h \in Handlers : Records[h] \subseteq LockKeys
    /\ \A h \in Handlers : \A i \in DOMAIN Admits[h] : Admits[h][i] \in RateKeys
    /\ \A h \in Handlers : \A i \in DOMAIN Prechecks[h] : Prechecks[h][i] \in LockKeys
<1>1. RateKeys \subseteq Keys /\ LockKeys \subseteq Keys
  BY DEF Keys
<1>2. \A h \in Handlers : Records[h] \subseteq LockKeys
  BY DEF LockKeys
<1>3. \A h \in Handlers : \A i \in DOMAIN Admits[h] : Admits[h][i] \in RateKeys
  BY DEF RateKeys
<1>4. Handlers \subseteq AllHandlers
  BY ProtectionAssumption
<1>5. ASSUME NEW h \in AllHandlers, NEW i \in DOMAIN Admits[h]
      PROVE  Admits[h][i] \in {"login:ip", "refresh:ratelimit:ip", "password_reset_confirm:ip",
                               "signup:ip", "signup:account"}
  <2>1. CASE h = "signup"
    BY <1>5, <2>1 DEF Admits
  <2>2. CASE h # "signup"
    BY <1>5, <2>2 DEF Admits, AllHandlers
  <2> QED BY <2>1, <2>2
<1>6. ASSUME NEW h \in AllHandlers
      PROVE  Records[h] \subseteq {"login_lock:email", "login_lock:ip", "refresh:lockout:ip",
                                   "password_reset_confirm_lock:email"}
  BY DEF Records, AllHandlers
<1>7. ASSUME NEW h \in AllHandlers, NEW i \in DOMAIN Prechecks[h]
      PROVE  Prechecks[h][i] \in Records[h]
  BY DEF Records, Prechecks, AllHandlers
<1>8. RateKeys \cap LockKeys = {}
  BY <1>4, <1>5, <1>6 DEF RateKeys, LockKeys
<1> QED BY <1>1, <1>2, <1>3, <1>4, <1>7, <1>8
-----------------------------------------------------------------------------
(* The steps keep types and requests in order.                             *)

HistoryTyped == /\ count' \in [Keys -> Nat] /\ ttl' \subseteq Keys
                /\ admitted' \in [Keys -> Nat] /\ leaked' \subseteq Keys /\ blind' \subseteq Keys

LEMMA OneRequestMoves ==
    ASSUME ProtectionInv, HistoryTyped, NEW r \in Requests, NEW q \in Request \cup {Idle},
           q = Idle \/ StepsMatch(q), req' = [req EXCEPT ![r] = q]
    PROVE  ProtectionInv'
<1>1. TypeOK'
  BY DEF ProtectionInv, TypeOK, HistoryTyped
<1>2. \A p \in Requests : req'[p] = IF p = r THEN q ELSE req[p]
  BY DEF ProtectionInv, TypeOK
<1> QED BY <1>1, <1>2 DEF ProtectionInv

LEMMA FinishKeeps ==
    ASSUME ProtectionInv, HistoryTyped, NEW r \in Requests, Finish(r)
    PROVE  ProtectionInv'
BY OneRequestMoves DEF Finish

\* The fields of a request that is busy.
LEMMA Busy ==
    ASSUME ProtectionInv, NEW r \in Requests
    PROVE  /\ Idle.pc = "idle" /\ Idle.post = Done
           /\ req[r] # Idle => req[r] \in Request /\ StepsMatch(req[r])
           /\ req[r].pc # "idle" => req[r] # Idle
           /\ \A k \in Keys : req[r].post[k] # "done" => req[r] # Idle /\ req[r].pc = "record"
<1>1. Idle.pc = "idle" /\ Idle.post = Done
  BY DEF Idle, Done
<1>2. req[r] # Idle => req[r] \in Request /\ StepsMatch(req[r])
  BY DEF ProtectionInv, TypeOK
<1>3. \A k \in Keys : req[r].post[k] # "done" => req[r].post # Done
  BY DEF Done
<1> QED BY <1>1, <1>2, <1>3 DEF StepsMatch

LEMMA KeySequences ==
    \A h \in AllHandlers :
        /\ Len(Admits[h]) \in Nat /\ DOMAIN Admits[h] = 1 .. Len(Admits[h])
        /\ Len(Prechecks[h]) \in Nat /\ DOMAIN Prechecks[h] = 1 .. Len(Prechecks[h])
        /\ Prechecks[h] # <<>> => 1 \in DOMAIN Prechecks[h]
<1>1. \A h \in AllHandlers : h \in {"login", "refresh", "confirm", "signup"}
  BY DEF AllHandlers
<1>2. /\ Admits["login"] = <<"login:ip">>
      /\ Admits["refresh"] = <<"refresh:ratelimit:ip">>
      /\ Admits["confirm"] = <<"password_reset_confirm:ip">>
      /\ Admits["signup"] = <<"signup:ip", "signup:account">>
  BY DEF Admits
<1>3. /\ Prechecks["login"] = <<"login_lock:email", "login_lock:ip">>
      /\ Prechecks["refresh"] = <<"refresh:lockout:ip">>
      /\ Prechecks["confirm"] = <<>>
      /\ Prechecks["signup"] = <<>>
  BY DEF Prechecks
<1> QED BY <1>1, <1>2, <1>3

\* NextAdmission and NextPrecheck: on to the next key, or past the last.
LEMMA NextKeyKeeps ==
    ASSUME ProtectionInv, HistoryTyped, NEW r \in Requests,
           \/ req[r].pc \in {"admit", "expire"} /\ NextAdmission(r)
           \/ req[r].pc = "precheck" /\ NextPrecheck(r)
    PROVE  ProtectionInv'
<1> DEFINE p == req[r]
<1>1. p \in Request /\ StepsMatch(p)
  BY Busy
<1>2. ASSUME NEW pc \in {"admit", "precheck", "work"}, NEW at \in Nat \ {0},
             req' = [req EXCEPT ![r].pc = pc, ![r].at = at],
             pc = "admit" => at \in DOMAIN Admits[p.op],
             pc = "precheck" => at \in DOMAIN Prechecks[p.op],
             p.post = Done
      PROVE  ProtectionInv'
  <2> DEFINE q == [p EXCEPT !.pc = pc, !.at = at]
  <2>1. q \in Request /\ q.op = p.op /\ q.post = p.post /\ q.pc = pc /\ q.at = at
    BY <1>1 DEF Request
  <2>2. StepsMatch(q)
    BY <1>1, <1>2, <2>1 DEF StepsMatch
  <2>3. req' = [req EXCEPT ![r] = q]
    BY <1>2 DEF ProtectionInv, TypeOK
  <2> HIDE DEF q
  <2> QED BY <2>1, <2>2, <2>3, OneRequestMoves
<1>3. p.post = Done /\ p.op \in AllHandlers /\ p.at \in Nat \ {0}
  BY <1>1 DEF StepsMatch, Request
<1>4. CASE p.pc \in {"admit", "expire"} /\ NextAdmission(r)
  <2> DEFINE more == p.at < Len(Admits[p.op])
             pc == IF more THEN "admit" ELSE IF Prechecks[p.op] = <<>> THEN "work" ELSE "precheck"
             at == IF more THEN p.at + 1 ELSE 1
  <2>1. req' = [req EXCEPT ![r].pc = pc, ![r].at = at]
    BY <1>4 DEF NextAdmission
  <2>2. pc \in {"admit", "precheck", "work"} /\ at \in Nat \ {0}
    BY <1>3
  <2>4. pc = "admit" => at \in DOMAIN Admits[p.op]
    BY <1>3, KeySequences
  <2>5. pc = "precheck" => at \in DOMAIN Prechecks[p.op]
    BY <1>3, KeySequences
  <2> HIDE DEF pc, at
  <2> QED BY <1>2, <1>3, <2>1, <2>2, <2>4, <2>5
<1>5. CASE p.pc = "precheck" /\ NextPrecheck(r)
  <2> DEFINE more == p.at < Len(Prechecks[p.op])
             pc == IF more THEN "precheck" ELSE "work"
             at == IF more THEN p.at + 1 ELSE 1
  <2>1. req' = [req EXCEPT ![r].pc = pc, ![r].at = at]
    BY <1>5 DEF NextPrecheck
  <2>2. pc \in {"admit", "precheck", "work"} /\ at \in Nat \ {0}
    BY <1>3
  <2>4. pc # "admit" /\ (pc = "precheck" => at \in DOMAIN Prechecks[p.op])
    BY <1>3, KeySequences
  <2> HIDE DEF pc, at
  <2> QED BY <1>2, <1>3, <2>1, <2>2, <2>4
<1> QED BY <1>4, <1>5

\* Post: what is left to do under one key.
LEMMA PostKeeps ==
    ASSUME ProtectionInv, HistoryTyped, NEW r \in Requests, NEW k \in Keys,
           NEW what \in {"record", "expire", "done"}, req[r].post[k] # "done", Post(r, k, what)
    PROVE  ProtectionInv'
<1> DEFINE p == req[r]
           q == [p EXCEPT !.post = [p.post EXCEPT ![k] = what]]
<1>1. p \in Request /\ StepsMatch(p) /\ p.pc = "record"
  BY Busy
<1>2. /\ q \in Request /\ q.op = p.op /\ q.pc = p.pc /\ q.at = p.at
      /\ \A j \in Keys : q.post[j] = IF j = k THEN what ELSE p.post[j]
  BY <1>1 DEF Request
<1>3. StepsMatch(q)
  BY <1>1, <1>2 DEF StepsMatch
<1>4. req' = [req EXCEPT ![r] = q]
  BY DEF Post, ProtectionInv, TypeOK
<1> HIDE DEF q
<1> QED BY <1>2, <1>3, <1>4, OneRequestMoves
LEMMA CallKeeps ==
    ASSUME ProtectionInv, NEW r \in Requests, call(r)
    PROVE  ProtectionInv'
<1>1. PICK h \in Handlers : req' = [req EXCEPT ![r] = [op |-> h, pc |-> "admit", at |-> 1,
                                                      ok |-> FALSE, post |-> Done]]
  BY DEF call, Done
<1> DEFINE q == [op |-> h, pc |-> "admit", at |-> 1, ok |-> FALSE, post |-> Done]
<1>2. Done \in [Keys -> {"check", "record", "expire", "done"}] /\ \A k \in Keys : Done[k] = "done"
  BY DEF Done
<1>3. q \in Request
  BY <1>2, ProtectionAssumption DEF Request
<1>4. 1 \in DOMAIN Admits[h]
  <2>1. h \in {"login", "refresh", "confirm", "signup"}
    BY ProtectionAssumption DEF AllHandlers
  <2> QED BY <2>1 DEF Admits
<1>5. StepsMatch(q)
  BY <1>2, <1>4 DEF StepsMatch
<1>6. HistoryTyped
  BY DEF call, ProtectionInv, TypeOK, HistoryTyped
<1> HIDE DEF q
<1> QED BY <1>1, <1>3, <1>5, <1>6, OneRequestMoves DEF q

LEMMA WorkKeeps ==
    ASSUME ProtectionInv, NEW r \in Requests, work(r)
    PROVE  ProtectionInv'
<1> DEFINE p == req[r]
           post == [k \in Keys |-> IF k \notin Records[p.op] THEN "done"
                                   ELSE IF p.op \in Rechecks THEN "check" ELSE "record"]
<1>1. p \in Request /\ StepsMatch(p) /\ p.pc = "work"
  BY Busy DEF work
<1>2. PICK ok \in BOOLEAN : req' = [req EXCEPT ![r].ok = ok, ![r].pc = "record", ![r].post = post]
  BY DEF work
<1> DEFINE q == [p EXCEPT !.ok = ok, !.pc = "record", !.post = post]
<1>3. post \in [Keys -> {"check", "record", "expire", "done"}]
  OBVIOUS
<1>4. q \in Request /\ q.op = p.op /\ q.pc = "record" /\ q.post = post
  BY <1>1, <1>3 DEF Request
<1>5. StepsMatch(q)
  BY <1>1, <1>4 DEF StepsMatch
<1>6. req' = [req EXCEPT ![r] = q]
  BY <1>2 DEF ProtectionInv, TypeOK
<1>7. HistoryTyped
  BY DEF work, ProtectionInv, TypeOK, HistoryTyped
<1> HIDE DEF q
<1> QED BY <1>4, <1>5, <1>6, <1>7, OneRequestMoves

\* The key a busy request counts under, or reads.
LEMMA KeysOfRequests ==
    ASSUME ProtectionInv, NEW r \in Requests
    PROVE  /\ req[r].pc \in {"admit", "expire"} => RateKey(r) \in RateKeys
           /\ req[r].pc = "precheck" => PrecheckKey(r) \in LockKeys
           /\ \A k \in Keys : req[r].post[k] # "done" => k \in LockKeys
BY Busy, KeyKinds DEF StepsMatch, RateKey, PrecheckKey

LEMMA IncrTyped == \A k \in Keys : ProtectionInv /\ Incr(k) => count' \in [Keys -> Nat]
BY DEF Incr, ProtectionInv, TypeOK

LEMMA DeleteTyped == \A k \in Keys : ProtectionInv /\ Delete(k) => HistoryTyped
BY DEF Delete, ProtectionInv, TypeOK, HistoryTyped

LEMMA AdmissionKeeps ==
    ASSUME ProtectionInv, NEW r \in Requests,
           record_request(r) \/ expire_window(r) \/ rate_limiter_fails(r)
    PROVE  ProtectionInv'
<1> DEFINE k == RateKey(r)
<1>1. req[r].pc \in {"admit", "expire"} /\ req[r] \in Request /\ StepsMatch(req[r])
  BY Busy DEF record_request, expire_window, rate_limiter_fails
<1>2. k \in RateKeys /\ k \in Keys
  BY <1>1, KeysOfRequests, KeyKinds
<1>3. HistoryTyped
  <2>1. count' \in [Keys -> Nat]
    BY <1>2, IncrTyped DEF record_request, expire_window, rate_limiter_fails, ProtectionInv, TypeOK
  <2>2. admitted' \in [Keys -> Nat]
    BY <1>2 DEF record_request, expire_window, rate_limiter_fails, Admit, ProtectionInv, TypeOK
  <2>3. ttl' \subseteq Keys /\ leaked' \subseteq Keys /\ blind' \subseteq Keys
    BY <1>2 DEF record_request, expire_window, rate_limiter_fails, Unexpiring, ProtectionInv, TypeOK
  <2> QED BY <2>1, <2>2, <2>3 DEF HistoryTyped
<1>4. CASE Goto(r, "expire") /\ req[r].pc = "admit"
  <2> DEFINE q == [req[r] EXCEPT !.pc = "expire"]
  <2>1. q \in Request /\ q.op = req[r].op /\ q.pc = "expire" /\ q.at = req[r].at /\ q.post = req[r].post
    BY <1>1 DEF Request
  <2>2. StepsMatch(q)
    BY <1>1, <1>4, <2>1 DEF StepsMatch
  <2>3. req' = [req EXCEPT ![r] = q]
    BY <1>4 DEF Goto, ProtectionInv, TypeOK
  <2> HIDE DEF q
  <2> QED BY <1>3, <2>1, <2>2, <2>3, OneRequestMoves
<1>5. CASE NextAdmission(r)
  BY <1>1, <1>3, <1>5, NextKeyKeeps
<1>6. CASE Finish(r)
  BY <1>3, <1>6, FinishKeeps
<1> QED BY <1>4, <1>5, <1>6 DEF record_request, expire_window, rate_limiter_fails, Admit

LEMMA PrecheckKeeps ==
    ASSUME ProtectionInv, NEW r \in Requests, precheck(r) \/ precheck_fails(r)
    PROVE  ProtectionInv'
<1>1. HistoryTyped
  BY DEF precheck, precheck_fails, ProtectionInv, TypeOK, HistoryTyped
<1> QED BY <1>1, NextKeyKeeps, FinishKeeps DEF precheck, precheck_fails

RecordStep(r, k) ==
    \/ recheck(r, k) \/ recheck_fails(r, k) \/ reset_failed_attempts(r, k)
    \/ record_failed_attempt(r, k) \/ expire_lock(r, k) \/ record_fails(r, k)

LEMMA RecordKeeps ==
    ASSUME ProtectionInv, NEW r \in Requests, NEW k \in Keys, RecordStep(r, k)
    PROVE  ProtectionInv'
<1>1. HistoryTyped
  BY IncrTyped, DeleteTyped DEF RecordStep, recheck, recheck_fails, reset_failed_attempts,
     record_failed_attempt, expire_lock, record_fails, Unexpiring, ProtectionInv, TypeOK, HistoryTyped
<1>2. PICK what \in {"record", "expire", "done"} : req[r].post[k] # "done" /\ Post(r, k, what)
  BY DEF RecordStep, recheck, recheck_fails, reset_failed_attempts, record_failed_attempt,
     expire_lock, record_fails
<1> QED BY <1>1, <1>2, PostKeeps

LEMMA StepInv == ProtectionInv /\ [Next]_vars => ProtectionInv'
<1> SUFFICES ASSUME ProtectionInv, [Next]_vars PROVE ProtectionInv'
  OBVIOUS
<1>1. CASE UNCHANGED vars
  BY <1>1 DEF ProtectionInv, TypeOK, vars
<1>2. ASSUME NEW r \in Requests, answer(r) \/ Crash(r)
      PROVE  ProtectionInv'
  <2>1. HistoryTyped
    BY <1>2 DEF answer, Crash, Unexpiring, ProtectionInv, TypeOK, HistoryTyped
  <2> QED BY <1>2, <2>1, FinishKeeps DEF answer, Crash
<1>3. ASSUME NEW k \in Keys, Expire(k)
      PROVE  ProtectionInv'
  BY <1>3, DeleteTyped DEF Expire, ProtectionInv, TypeOK, HistoryTyped
<1> QED BY <1>1, <1>2, <1>3, CallKeeps, WorkKeeps, AdmissionKeeps, PrecheckKeeps, RecordKeeps
        DEF Next, Step, RecordStep

LEMMA InvAlways == Spec => []ProtectionInv
<1>1. Init => ProtectionInv
  BY DEF Init, ProtectionInv, TypeOK
<1> QED BY <1>1, StepInv, PTL DEF Spec

\* Every reachable state is well typed: no counter falls below zero.
THEOREM TypeCorrect == Spec => []TypeOK
<1>1. ProtectionInv => TypeOK
  BY DEF ProtectionInv
<1> QED BY <1>1, InvAlways, PTL
-----------------------------------------------------------------------------
(* The request counters.                                                   *)

AtExpire(r, k) == req[r].pc = "expire" /\ RateKey(r) = k

\* A key between the INCR that creates it and the EXPIRE belongs to one
\* request, which has its place in the window.
WindowOf(k) ==
    /\ k \in ttl => count[k] > 0
    /\ admitted[k] <= count[k] /\ admitted[k] <= Limit[k]
    /\ \A r \in Requests : AtExpire(r, k) =>
          /\ k \notin ttl
          /\ admitted[k] < count[k] /\ admitted[k] < Limit[k]
          /\ \A p \in Requests : AtExpire(p, k) => p = r

Windows == \A k \in RateKeys : WindowOf(k)

\* A step in which nothing is counted or admitted under k, and nobody begins
\* to owe it an EXPIRE.
LEMMA WindowStays ==
    ASSUME NEW k \in Keys, WindowOf(k), count'[k] = count[k], admitted'[k] = admitted[k],
           k \in ttl' <=> k \in ttl,
           \A r \in Requests : AtExpire(r, k)' => AtExpire(r, k)
    PROVE  WindowOf(k)'
BY DEF WindowOf

LEMMA RecordRequestWindow ==
    ASSUME ProtectionInv, NEW k \in RateKeys, WindowOf(k), NEW r \in Requests, record_request(r)
    PROVE  WindowOf(k)'
<1> DEFINE j == RateKey(r)
<1>1. /\ req \in [Requests -> Request \cup {Idle}] /\ req[r] \in Request
      /\ count \in [Keys -> Nat] /\ admitted \in [Keys -> Nat] /\ Limit[k] \in Nat \ {0}
      /\ k \in Keys /\ j \in Keys /\ req[r].pc = "admit" /\ Idle.pc = "idle"
      /\ Cardinality(Requests) \in Nat
  BY Busy, KeysOfRequests, KeyKinds, ProtectionAssumption, FS_CardinalityType
     DEF ProtectionInv, TypeOK, record_request
<1>2. \A p \in Requests : p # r => (AtExpire(p, k)' <=> AtExpire(p, k))
  BY <1>1 DEF record_request, Goto, Admit, NextAdmission, Finish, AtExpire, RateKey
<1>3. CASE Goto(r, "expire") /\ count[j] = 0 /\ UNCHANGED admitted
  <2>1. req'[r].pc = "expire" /\ RateKey(r)' = j
    BY <1>1, <1>3 DEF Goto, RateKey, Request
  <2>2. CASE j = k
    <3>1. count'[k] = 1 /\ k \notin ttl' /\ admitted'[k] = 0
      BY <1>1, <1>3, <2>2 DEF record_request, Incr, Cap, WindowOf
    <3>2. \A p \in Requests : AtExpire(p, k)' => p = r
      BY <1>1, <1>2, <1>3, <2>2 DEF WindowOf
    <3> QED BY <1>1, <3>1, <3>2 DEF WindowOf
  <2>3. CASE j # k
    <3>1. count'[k] = count[k] /\ admitted'[k] = admitted[k] /\ ttl' = ttl
      BY <1>1, <1>3, <2>3 DEF record_request, Incr
    <3> QED BY <1>2, <2>1, <2>3, <3>1, <1>1, WindowStays DEF AtExpire
  <2> QED BY <2>2, <2>3
<1>4. CASE (count[j] < Limit[j] /\ Admit(r, j)) \/ (Finish(r) /\ UNCHANGED admitted)
  <2>1. ~AtExpire(r, k)'
    <3>1. CASE Admit(r, j)
      BY <1>1, <3>1 DEF Admit, NextAdmission, AtExpire
    <3>2. CASE Finish(r)
      BY <1>1, <3>2 DEF Finish, AtExpire
    <3> QED BY <1>4, <3>1, <3>2
  <2>2. ttl' = ttl /\ Incr(j) /\ Limit[j] \in Nat
    BY <1>1, ProtectionAssumption DEF record_request
  <2>3. \/ /\ count[j] < Limit[j]
           /\ admitted' = [admitted EXCEPT ![j] = admitted[j] + 1]
           /\ count' = [count EXCEPT ![j] = count[j] + 1]
        \/ admitted' = admitted
    <3>1. count[j] < Limit[j] => count[j] < Cap(j)
      BY <1>1, <2>2 DEF Cap
    <3> QED BY <1>4, <2>2, <3>1 DEF Admit, Incr
  <2>4. CASE j = k
    <3>1. count'[k] >= count[k] /\ count' \in [Keys -> Nat]
      BY <1>1, <2>2, <2>4 DEF Incr
    <3>2. CASE admitted' = admitted
      BY <1>1, <1>2, <2>1, <2>2, <2>4, <3>1, <3>2 DEF WindowOf
    <3>3. CASE /\ count[j] < Limit[j]
               /\ admitted' = [admitted EXCEPT ![j] = admitted[j] + 1]
               /\ count' = [count EXCEPT ![j] = count[j] + 1]
      <4>1. /\ admitted'[k] = admitted[k] + 1 /\ count'[k] = count[k] + 1
            /\ count[k] < Limit[k]
        BY <1>1, <2>4, <3>3
      <4> QED BY <1>1, <1>2, <2>1, <2>2, <4>1 DEF WindowOf
    <3> QED BY <2>3, <3>2, <3>3
  <2>5. CASE j # k
    <3>1. count'[k] = count[k] /\ admitted'[k] = admitted[k]
      BY <1>1, <2>2, <2>3, <2>5 DEF Incr
    <3> QED BY <1>1, <1>2, <2>1, <2>2, <3>1, WindowStays
  <2> QED BY <2>4, <2>5
<1>5. \/ Goto(r, "expire") /\ count[j] = 0 /\ UNCHANGED admitted
      \/ (count[j] < Limit[j] /\ Admit(r, j)) \/ (Finish(r) /\ UNCHANGED admitted)
  BY DEF record_request
<1> QED BY <1>3, <1>4, <1>5

LEMMA ExpireWindowWindow ==
    ASSUME ProtectionInv, NEW k \in RateKeys, WindowOf(k), NEW r \in Requests, expire_window(r)
    PROVE  WindowOf(k)'
<1> DEFINE j == RateKey(r)
<1>1. /\ req \in [Requests -> Request \cup {Idle}] /\ req[r] \in Request
      /\ count \in [Keys -> Nat] /\ admitted \in [Keys -> Nat] /\ Limit[k] \in Nat \ {0}
      /\ k \in Keys /\ j \in Keys /\ req[r].pc = "expire"
  BY Busy, KeysOfRequests, KeyKinds, ProtectionAssumption DEF ProtectionInv, TypeOK, expire_window
<1>2. \A p \in Requests : p # r => (AtExpire(p, k)' <=> AtExpire(p, k))
  BY <1>1 DEF expire_window, Admit, NextAdmission, AtExpire, RateKey
<1>3. ~AtExpire(r, k)'
  BY <1>1 DEF expire_window, Admit, NextAdmission, AtExpire
<1>4. /\ count' = count /\ admitted' = [admitted EXCEPT ![j] = @ + 1]
      /\ ttl' = IF count[j] > 0 THEN ttl \cup {j} ELSE ttl
  BY DEF expire_window, Admit
<1>5. CASE j = k
  <2>1. AtExpire(r, k)
    BY <1>1, <1>5 DEF AtExpire
  <2>2. \A p \in Requests : ~AtExpire(p, k)'
    BY <1>2, <1>3, <2>1 DEF WindowOf
  <2> QED BY <1>1, <1>4, <1>5, <2>1, <2>2 DEF WindowOf
<1>6. CASE j # k
  BY <1>1, <1>2, <1>3, <1>4, <1>6, WindowStays
<1> QED BY <1>5, <1>6

\* Any other step of a request leaves the request counters alone.
LEMMA OtherStepWindow ==
    ASSUME ProtectionInv, NEW k \in RateKeys, WindowOf(k), NEW r \in Requests,
           \/ call(r) \/ rate_limiter_fails(r) \/ precheck(r) \/ precheck_fails(r)
           \/ work(r) \/ answer(r) \/ Crash(r)
           \/ \E j \in Keys : RecordStep(r, j)
    PROVE  WindowOf(k)'
<1>1. req \in [Requests -> Request \cup {Idle}] /\ k \in Keys /\ Idle.pc = "idle"
  BY Busy, KeyKinds DEF ProtectionInv, TypeOK
<1>2. \A p \in Requests : AtExpire(p, k)' => AtExpire(p, k)
  <2>1. \A p \in Requests : p # r => req'[p] = req[p]
    BY <1>1 DEF call, rate_limiter_fails, precheck, precheck_fails, work, answer, Crash,
       RecordStep, recheck, recheck_fails, reset_failed_attempts, record_failed_attempt,
       expire_lock, record_fails, Post, Finish, NextPrecheck
  <2>2. req'[r].pc # "expire"
    <3>1. ASSUME NEW j \in Keys, RecordStep(r, j)
          PROVE  req'[r].pc # "expire"
      <4>1. req[r].pc = "record" /\ req[r] \in Request
        BY <3>1, Busy DEF RecordStep, recheck, recheck_fails, reset_failed_attempts,
           record_failed_attempt, expire_lock, record_fails
      <4>2. PICK what : Post(r, j, what)
        BY <3>1 DEF RecordStep, recheck, recheck_fails, reset_failed_attempts,
           record_failed_attempt, expire_lock, record_fails
      <4>3. req' = [req EXCEPT ![r] = [req[r] EXCEPT !.post = [req[r].post EXCEPT ![j] = what]]]
        BY <1>1, <4>1, <4>2 DEF Post, Request
      <4> QED BY <1>1, <4>1, <4>3 DEF Request
    <3>2. CASE Finish(r)
      BY <1>1, <3>2 DEF Finish
    <3>3. CASE NextPrecheck(r) /\ req[r].pc = "precheck"
      BY <1>1, <3>3 DEF NextPrecheck
    <3>4. CASE call(r)
      BY <1>1, <3>4 DEF call
    <3>5. CASE work(r)
      <4>1. PICK ok, post :
               req' = [req EXCEPT ![r].ok = ok, ![r].pc = "record", ![r].post = post]
        BY <3>5 DEF work
      <4>2. req[r] \in Request
        BY <3>5, Busy DEF work
      <4>3. req' = [req EXCEPT ![r] = [req[r] EXCEPT !.ok = ok, !.pc = "record", !.post = post]]
        BY <1>1, <4>1
      <4> QED BY <1>1, <4>2, <4>3 DEF Request
    <3> QED BY <3>1, <3>2, <3>3, <3>4, <3>5 DEF rate_limiter_fails, precheck, precheck_fails,
              answer, Crash
  <2> QED BY <2>1, <2>2 DEF AtExpire, RateKey
<1>3. count'[k] = count[k] /\ admitted'[k] = admitted[k] /\ (k \in ttl' <=> k \in ttl)
  <2>1. ASSUME NEW j \in Keys, RecordStep(r, j)
        PROVE  j # k
    BY <2>1, KeysOfRequests, KeyKinds DEF RecordStep, recheck, recheck_fails,
       reset_failed_attempts, record_failed_attempt, expire_lock, record_fails
  <2>2. ASSUME NEW j \in Keys, RecordStep(r, j)
        PROVE  /\ count'[k] = count[k] /\ admitted'[k] = admitted[k]
               /\ k \in ttl' <=> k \in ttl
    BY <1>1, <2>1, <2>2 DEF RecordStep, recheck, recheck_fails, reset_failed_attempts,
       record_failed_attempt, expire_lock, record_fails, Delete, Incr, ProtectionInv, TypeOK
  <2> QED BY <2>2 DEF call, rate_limiter_fails, precheck, precheck_fails, work, answer, Crash
<1> QED BY <1>1, <1>2, <1>3, WindowStays

LEMMA WindowsStep == ProtectionInv /\ Windows /\ [Next]_vars => Windows'
<1> SUFFICES ASSUME ProtectionInv, Windows, [Next]_vars, NEW k \in RateKeys PROVE WindowOf(k)'
  BY DEF Windows, RateKeys
<1>1. WindowOf(k) /\ k \in Keys
  BY KeyKinds DEF Windows
<1>2. CASE UNCHANGED vars
  BY <1>1, <1>2, WindowStays DEF vars, AtExpire, RateKey
<1>3. ASSUME NEW j \in Keys, Expire(j)
      PROVE  WindowOf(k)'
  <2>1. \A r \in Requests : AtExpire(r, k)' <=> AtExpire(r, k)
    BY <1>3 DEF Expire, AtExpire, RateKey
  <2>2. CASE j = k
    <3>1. count'[k] = 0 /\ admitted'[k] = 0 /\ k \notin ttl'
      BY <1>1, <1>3, <2>2 DEF Expire, Delete, ProtectionInv, TypeOK
    <3>2. \A r \in Requests : ~AtExpire(r, k)
      BY <1>1, <1>3, <2>2 DEF Expire, WindowOf
    <3>3. Limit[k] \in Nat
      BY <1>1, ProtectionAssumption
    <3> QED BY <2>1, <3>1, <3>2, <3>3 DEF WindowOf
  <2>3. CASE j # k
    BY <1>1, <1>3, <2>1, <2>3, WindowStays DEF Expire, Delete, ProtectionInv, TypeOK
  <2> QED BY <2>2, <2>3
<1> QED BY <1>1, <1>2, <1>3, RecordRequestWindow, ExpireWindowWindow, OtherStepWindow
        DEF Next, Step, RecordStep

\* A window admits no more than its limit, for all interleavings of INCR,
\* EXPIRE and expiries, and all faults.
THEOREM RateLimitIsExact == Spec => []RateLimitExact
<1>1. Init => Windows
  <2> SUFFICES ASSUME Init, NEW k \in RateKeys PROVE WindowOf(k)
    BY DEF Windows
  <2>1. k \in Keys /\ Limit[k] \in Nat /\ Idle.pc = "idle"
    BY KeyKinds, ProtectionAssumption DEF Idle
  <2> QED BY <2>1 DEF Init, WindowOf, AtExpire
<1>2. Windows => RateLimitExact
  BY DEF Windows, WindowOf, RateLimitExact
<1> QED BY <1>1, <1>2, WindowsStep, InvAlways, PTL DEF Spec
-----------------------------------------------------------------------------
(* Keys without an expiry.                                                 *)

OwedOrLost(k) == k \in Unexpiring \ leaked => \E r \in Requests : ExpireOwed(r, k)

LEMMA OwedStays ==
    ASSUME NEW k \in Keys, OwedOrLost(k), count'[k] > 0 => count[k] > 0,
           k \in ttl => k \in ttl', k \in leaked => k \in leaked',
           \A r \in Requests : ExpireOwed(r, k) => ExpireOwed(r, k)'
    PROVE  OwedOrLost(k)'
BY DEF OwedOrLost, Unexpiring

\* A request that is before its record step, or finished, owes nothing
\* unless it is at its own EXPIRE.
LEMMA OwesNothing ==
    ASSUME ProtectionInv, NEW r \in Requests, NEW k \in Keys,
           \/ req[r].pc \in {"idle", "admit", "precheck", "work"}
           \/ req[r].pc = "record" /\ req[r].post[k] # "expire"
    PROVE  ~ExpireOwed(r, k)
<1>1. req[r].pc # "record" => req[r].post[k] = "done"
  BY Busy DEF Done
<1> QED BY <1>1 DEF ExpireOwed

\* After Post(r, j, what), r owes what it owed under the other keys.
LEMMA PostOwes ==
    ASSUME ProtectionInv, NEW r \in Requests, NEW j \in Keys, NEW k \in Keys, NEW what,
           req[r].post[j] # "done", Post(r, j, what)
    PROVE  /\ \A p \in Requests : j # k /\ ExpireOwed(p, k) => ExpireOwed(p, k)'
           /\ \A p \in Requests : p # r /\ ExpireOwed(p, k) => ExpireOwed(p, k)'
           /\ what = "expire" => ExpireOwed(r, j)'
<1>1. req[r] \in Request /\ req[r].pc = "record" /\ req \in [Requests -> Request \cup {Idle}]
  BY Busy DEF ProtectionInv, TypeOK
<1> DEFINE q == [req[r] EXCEPT !.post = [req[r].post EXCEPT ![j] = what]]
<1>2. req' = [req EXCEPT ![r] = q]
  BY <1>1 DEF Post
<1>3. /\ q.pc = "record" /\ q.post[j] = what
      /\ j # k => q.post[k] = req[r].post[k]
  BY <1>1 DEF Request
<1> HIDE DEF q
<1>4. \A p \in Requests : req'[p] = IF p = r THEN q ELSE req[p]
  BY <1>1, <1>2
<1> QED BY <1>1, <1>3, <1>4 DEF ExpireOwed, RateKey

LEMMA RecordOwed ==
    ASSUME ProtectionInv, NEW k \in Keys, OwedOrLost(k), NEW r \in Requests, NEW j \in Keys,
           RecordStep(r, j)
    PROVE  OwedOrLost(k)'
<1>1. /\ count \in [Keys -> Nat] /\ Cardinality(Requests) \in Nat /\ Limit \in [Keys -> Nat \ {0}]
      /\ req[r].post[j] # "done" => req[r].pc = "record"
  BY Busy, ProtectionAssumption, FS_CardinalityType DEF ProtectionInv, TypeOK
<1>2. CASE j # k
  <2>1. PICK what : req[r].post[j] # "done" /\ Post(r, j, what)
    BY DEF RecordStep, recheck, recheck_fails, reset_failed_attempts, record_failed_attempt,
       expire_lock, record_fails
  <2>2. count'[k] = count[k] /\ (k \in ttl => k \in ttl') /\ (k \in leaked => k \in leaked')
    BY <1>1, <1>2 DEF RecordStep, recheck, recheck_fails, reset_failed_attempts,
       record_failed_attempt, expire_lock, record_fails, Delete, Incr
  <2> QED BY <1>1, <1>2, <2>1, <2>2, PostOwes, OwedStays
<1>3. CASE j = k
  <2>1. CASE recheck(r, j) \/ recheck_fails(r, j)
    <3>1. req[r].post[k] = "check" /\ UNCHANGED <<count, ttl, leaked>>
      BY <1>3, <2>1 DEF recheck, recheck_fails
    <3>2. PICK what : Post(r, j, what)
      BY <2>1 DEF recheck, recheck_fails
    <3>3. ~ExpireOwed(r, k)
      BY <1>1, <1>3, <3>1, OwesNothing
    <3> QED BY <1>3, <3>1, <3>2, <3>3, PostOwes, OwedStays
  <2>2. CASE reset_failed_attempts(r, j)
    BY <1>1, <1>3, <2>2 DEF reset_failed_attempts, Delete, OwedOrLost, Unexpiring
  <2>3. CASE record_failed_attempt(r, j)
    <3>1. req[r].post[j] = "record" /\ UNCHANGED <<ttl, leaked>>
          /\ Post(r, j, IF count[j] = 0 THEN "expire" ELSE "done")
      BY <2>3 DEF record_failed_attempt
    <3>2. CASE count[j] = 0
      <4>1. ExpireOwed(r, k)'
        BY <1>3, <3>1, <3>2, PostOwes
      <4> QED BY <4>1 DEF OwedOrLost
    <3>3. CASE count[j] # 0
      <4>1. ~ExpireOwed(r, k)
        BY <1>1, <1>3, <3>1, OwesNothing
      <4>2. \A p \in Requests : ExpireOwed(p, k) => ExpireOwed(p, k)'
        BY <1>3, <3>1, <4>1, PostOwes
      <4> QED BY <1>1, <1>3, <3>1, <3>3, <4>2, OwedStays
    <3> QED BY <3>2, <3>3
  <2>4. CASE expire_lock(r, j)
    BY <1>1, <1>3, <2>4 DEF expire_lock, OwedOrLost, Unexpiring
  <2>5. CASE record_fails(r, j)
    <3>1. CASE req[r].post[j] = "expire"
      BY <1>3, <2>5, <3>1 DEF record_fails, OwedOrLost, Unexpiring
    <3>2. CASE req[r].post[j] = "record"
      <4>1. ~ExpireOwed(r, k)
        BY <1>1, <1>3, <3>2, OwesNothing
      <4>2. Post(r, j, "done") /\ UNCHANGED <<count, ttl>> /\ leaked \subseteq leaked'
        BY <2>5 DEF record_fails
      <4> QED BY <1>3, <3>2, <4>1, <4>2, PostOwes, OwedStays
    <3> QED BY <2>5, <3>1, <3>2 DEF record_fails
  <2> QED BY <2>1, <2>2, <2>3, <2>4, <2>5 DEF RecordStep
<1> QED BY <1>2, <1>3

LEMMA OwedStep == ProtectionInv /\ UnexpiringOnlyIfLeaked /\ [Next]_vars => UnexpiringOnlyIfLeaked'
<1> SUFFICES ASSUME ProtectionInv, UnexpiringOnlyIfLeaked, [Next]_vars, NEW k \in Keys
             PROVE  OwedOrLost(k)'
  BY DEF UnexpiringOnlyIfLeaked, OwedOrLost, Unexpiring
<1>1. /\ OwedOrLost(k) /\ req \in [Requests -> Request \cup {Idle}]
      /\ count \in [Keys -> Nat] /\ Cardinality(Requests) \in Nat /\ Limit \in [Keys -> Nat \ {0}]
  BY ProtectionAssumption, FS_CardinalityType
     DEF UnexpiringOnlyIfLeaked, OwedOrLost, ProtectionInv, TypeOK
<1>2. CASE UNCHANGED vars
  BY <1>1, <1>2, OwedStays DEF vars, ExpireOwed, RateKey
<1>3. ASSUME NEW j \in Keys, Expire(j)
      PROVE  OwedOrLost(k)'
  <2>1. CASE j = k
    BY <1>1, <1>3, <2>1 DEF Expire, Delete, OwedOrLost, Unexpiring
  <2>2. CASE j # k
    BY <1>1, <1>3, <2>2, OwedStays DEF Expire, Delete, ExpireOwed, RateKey
  <2> QED BY <2>1, <2>2
\* A request that owed nothing moves, and the others stay as they are.
<1>4. ASSUME NEW r \in Requests, ~ExpireOwed(r, k), \A p \in Requests : p # r => req'[p] = req[p]
      PROVE  \A p \in Requests : ExpireOwed(p, k) => ExpireOwed(p, k)'
  BY <1>4 DEF ExpireOwed, RateKey
<1>5. ASSUME NEW r \in Requests, call(r) \/ precheck(r) \/ precheck_fails(r) \/ work(r)
      PROVE  OwedOrLost(k)'
  <2>1. ~ExpireOwed(r, k)
    BY <1>5, OwesNothing, Busy DEF call, precheck, precheck_fails, work
  <2>2. /\ UNCHANGED <<count, ttl, leaked>>
        /\ \A p \in Requests : p # r => req'[p] = req[p]
    BY <1>1, <1>5 DEF call, precheck, precheck_fails, work, Finish, NextPrecheck
  <2> QED BY <1>1, <1>4, <2>1, <2>2, OwedStays
<1>6. ASSUME NEW r \in Requests, answer(r)
      PROVE  OwedOrLost(k)'
  <2>1. ~ExpireOwed(r, k)
    BY <1>6, OwesNothing DEF answer
  <2>2. /\ UNCHANGED <<count, ttl, leaked>>
        /\ \A p \in Requests : p # r => req'[p] = req[p]
    BY <1>1, <1>6 DEF answer, Finish
  <2> QED BY <1>1, <1>4, <2>1, <2>2, OwedStays
<1>7. ASSUME NEW r \in Requests, record_request(r)
      PROVE  OwedOrLost(k)'
  <2> DEFINE j == RateKey(r)
  <2>1. ~ExpireOwed(r, k) /\ j \in Keys /\ req[r] \in Request
    BY <1>7, OwesNothing, Busy, KeysOfRequests, KeyKinds DEF record_request
  <2>2. \A p \in Requests : p # r => req'[p] = req[p]
    BY <1>1, <1>7 DEF record_request, Goto, Admit, NextAdmission, Finish
  <2>3. UNCHANGED <<ttl, leaked>> /\ Incr(j)
    BY <1>7 DEF record_request
  <2>4. CASE j = k /\ count[k] = 0
    <3>1. req' = [req EXCEPT ![r] = [req[r] EXCEPT !.pc = "expire"]]
      BY <1>1, <1>7, <2>4 DEF record_request, Goto
    <3>2. ExpireOwed(r, k)'
      BY <1>1, <2>1, <2>4, <3>1 DEF ExpireOwed, RateKey, Request
    <3> QED BY <3>2 DEF OwedOrLost
  <2>5. CASE ~(j = k /\ count[k] = 0)
    <3>1. count'[k] > 0 => count[k] > 0
      BY <1>1, <2>1, <2>3, <2>5 DEF Incr
    <3> QED BY <1>1, <1>4, <2>1, <2>2, <2>3, <3>1, OwedStays
  <2> QED BY <2>4, <2>5
<1>8. ASSUME NEW r \in Requests, expire_window(r)
      PROVE  OwedOrLost(k)'
  <2> DEFINE j == RateKey(r)
  <2>1. \A p \in Requests : p # r => req'[p] = req[p]
    BY <1>1, <1>8 DEF expire_window, Admit, NextAdmission
  <2>2. CASE j = k
    BY <1>1, <1>8, <2>2 DEF expire_window, OwedOrLost, Unexpiring
  <2>3. CASE j # k
    <3>1. ~ExpireOwed(r, k)
      BY <1>8, <2>3, Busy DEF ExpireOwed, expire_window, Done
    <3> QED BY <1>1, <1>4, <1>8, <2>1, <3>1, OwedStays DEF expire_window
  <2> QED BY <2>2, <2>3
<1>9. ASSUME NEW r \in Requests, rate_limiter_fails(r) \/ Crash(r)
      PROVE  OwedOrLost(k)'
  <2>1. /\ UNCHANGED <<count, ttl>> /\ leaked \subseteq leaked'
        /\ \A p \in Requests : p # r => req'[p] = req[p]
    BY <1>1, <1>9 DEF rate_limiter_fails, Crash, Finish
  <2>2. CASE ExpireOwed(r, k)
    <3>1. k \in Unexpiring => k \in leaked'
      BY <1>9, <2>2, Busy DEF rate_limiter_fails, Crash, ExpireOwed, Done
    <3> QED BY <2>1, <3>1 DEF OwedOrLost, Unexpiring
  <2>3. CASE ~ExpireOwed(r, k)
    BY <1>1, <1>4, <2>1, <2>3, OwedStays
  <2> QED BY <2>2, <2>3
<1> QED BY <1>1, <1>2, <1>3, <1>5, <1>6, <1>7, <1>8, <1>9, RecordOwed DEF Next, Step, RecordStep

\* A counter that exists without an expiry is one somebody is about to give
\* one, or one whose EXPIRE was lost.
THEOREM UnexpiringIsLeaked == Spec => []UnexpiringOnlyIfLeaked
<1>1. Init => UnexpiringOnlyIfLeaked
  BY DEF Init, UnexpiringOnlyIfLeaked, Unexpiring
<1> QED BY <1>1, OwedStep, InvAlways, PTL DEF Spec
-----------------------------------------------------------------------------
(* How far failures pass a limit.                                          *)

\* Requests past the last check of k's lock.
Passed(k) ==
    {r \in Requests : \/ req[r].post[k] = "record"
                      \/ /\ req[r].pc = "work" /\ req[r].op \notin Rechecks
                         /\ k \in Records[req[r].op]}

\* What k has counted and may yet count.
Bounded(k) == k \notin blind => count[k] + Cardinality(Passed(k)) < Limit[k] + Cardinality(Requests)

Overshoot == \A k \in LockKeys : Bounded(k)

LEMMA PassedSize ==
    \A k \in Keys : /\ IsFiniteSet(Passed(k)) /\ Cardinality(Passed(k)) \in Nat
                    /\ Cardinality(Passed(k)) <= Cardinality(Requests)
                    /\ Cardinality(Requests) \in Nat
<1> TAKE k \in Keys
<1>1. Passed(k) \subseteq Requests /\ IsFiniteSet(Requests)
  BY ProtectionAssumption DEF Passed
<1> QED BY <1>1, FS_Subset, FS_CardinalityType

\* A step that lets nobody past the check of k.
LEMMA BoundStays ==
    ASSUME ProtectionInv, ProtectionInv', NEW k \in Keys, Bounded(k), count'[k] <= count[k],
           k \in blind => k \in blind',
           \A r \in Requests : r \in Passed(k)' => r \in Passed(k)
    PROVE  Bounded(k)'
<1>1. Passed(k)' \subseteq Passed(k) /\ IsFiniteSet(Passed(k))
  BY PassedSize DEF Passed
<1>2. Cardinality(Passed(k)') <= Cardinality(Passed(k)) /\ Cardinality(Passed(k)') \in Nat
  BY <1>1, FS_Subset, FS_CardinalityType
<1>3. /\ Cardinality(Passed(k)) \in Nat /\ Cardinality(Requests) \in Nat
      /\ count[k] \in Nat /\ count'[k] \in Nat /\ Limit[k] \in Nat
  BY PassedSize, ProtectionAssumption DEF ProtectionInv, TypeOK
<1> QED BY <1>2, <1>3 DEF Bounded

\* Below the limit there is room for every request.
LEMMA BoundBelow ==
    ASSUME ProtectionInv', NEW k \in Keys, count'[k] < Limit[k]
    PROVE  Bounded(k)'
<1>1. Passed(k)' \subseteq Requests /\ IsFiniteSet(Requests)
  BY ProtectionAssumption DEF Passed
<1>2. Cardinality(Passed(k)') <= Cardinality(Requests) /\ Cardinality(Passed(k)') \in Nat
      /\ Cardinality(Requests) \in Nat
  BY <1>1, FS_Subset, FS_CardinalityType
<1>3. count'[k] \in Nat /\ Limit[k] \in Nat
  BY ProtectionAssumption DEF ProtectionInv, TypeOK
<1> QED BY <1>2, <1>3 DEF Bounded

\* A request that counts has left.
LEMMA BoundCounts ==
    ASSUME ProtectionInv, ProtectionInv', NEW k \in Keys, Bounded(k), count'[k] <= count[k] + 1,
           blind' = blind, NEW r \in Passed(k),
           \A p \in Requests : p \in Passed(k)' => p \in Passed(k) /\ p # r
    PROVE  Bounded(k)'
<1>1. Passed(k)' \subseteq Passed(k) \ {r} /\ IsFiniteSet(Passed(k))
  BY PassedSize DEF Passed
<1>2. /\ IsFiniteSet(Passed(k) \ {r})
      /\ Cardinality(Passed(k) \ {r}) = Cardinality(Passed(k)) - 1
  BY <1>1, FS_RemoveElement
<1>3. Cardinality(Passed(k)') <= Cardinality(Passed(k) \ {r}) /\ Cardinality(Passed(k)') \in Nat
  BY <1>1, <1>2, FS_Subset, FS_CardinalityType
<1>4. /\ Cardinality(Passed(k)) \in Nat /\ Cardinality(Requests) \in Nat
      /\ count[k] \in Nat /\ count'[k] \in Nat /\ Limit[k] \in Nat
  BY PassedSize, ProtectionAssumption DEF ProtectionInv, TypeOK
<1> QED BY <1>2, <1>3, <1>4 DEF Bounded

\* A handler that does not read the lock again has read it under the only key
\* it records under, and one that reads no lock first reads it again.
LEMMA LastChecks ==
    \A h \in AllHandlers :
        /\ Prechecks[h] = <<>> => h \in Rechecks \/ Records[h] = {}
        /\ h \notin Rechecks => \A k \in Records[h] :
              \A i \in DOMAIN Prechecks[h] : Prechecks[h][i] = k
<1>1. Records["refresh"] = {"refresh:lockout:ip"} /\ Records["signup"] = {}
  BY DEF Records
<1>2. Prechecks["refresh"] = <<"refresh:lockout:ip">>
  BY DEF Prechecks
<1>3. \A h \in AllHandlers : h \in Rechecks \/ h = "refresh" \/ h = "signup"
  BY DEF AllHandlers, Rechecks
<1>4. Prechecks["refresh"] # <<>>
  BY <1>2
<1> QED BY <1>1, <1>2, <1>3, <1>4
\* One request moves, and is past k's check only if it was.
LEMMA OneMoves ==
    ASSUME ProtectionInv, NEW k \in Keys, NEW r \in Requests,
           \A p \in Requests : p # r => req'[p] = req[p],
           r \in Passed(k)' => r \in Passed(k)
    PROVE  \A p \in Requests : p \in Passed(k)' => p \in Passed(k)
BY DEF Passed

\* A request that is not at work and has nothing left to record has not
\* passed.
LEMMA NotPassed ==
    ASSUME ProtectionInv', NEW k \in Keys, NEW r \in Requests,
           req'[r].pc \in {"idle", "admit", "expire", "precheck"}
    PROVE  r \notin Passed(k)'
<1>1. req'[r].post[k] = "done"
  <2>1. Idle.post = Done
    BY Busy DEF Idle, Done
  <2>2. req'[r] = Idle \/ StepsMatch(req'[r])
    BY DEF ProtectionInv
  <2> QED BY <2>1, <2>2 DEF StepsMatch, Done
<1> QED BY <1>1 DEF Passed

LEMMA AdmissionBounded ==
    ASSUME ProtectionInv, ProtectionInv', NEW k \in LockKeys, Bounded(k), NEW r \in Requests,
           record_request(r) \/ expire_window(r) \/ rate_limiter_fails(r)
    PROVE  Bounded(k)'
<1>1. /\ req \in [Requests -> Request \cup {Idle}] /\ Idle.pc = "idle"
      /\ req[r].pc \in {"admit", "expire"} /\ req[r] \in Request /\ StepsMatch(req[r])
      /\ RateKey(r) \in RateKeys /\ k \in Keys /\ count \in [Keys -> Nat]
  BY Busy, KeysOfRequests, KeyKinds DEF ProtectionInv, TypeOK, record_request, expire_window,
     rate_limiter_fails
<1>2. RateKey(r) # k
  BY <1>1, KeyKinds
<1>3. count'[k] = count[k] /\ blind' = blind
  BY <1>1, <1>2 DEF record_request, expire_window, rate_limiter_fails, Incr
<1>4. \A p \in Requests : p # r => req'[p] = req[p]
  BY <1>1 DEF record_request, expire_window, rate_limiter_fails, Goto, Admit, NextAdmission, Finish
<1>5. Goto(r, "expire") \/ NextAdmission(r) \/ Finish(r)
  BY DEF record_request, expire_window, rate_limiter_fails, Admit
<1>6. r \notin Passed(k)'
  <2>1. CASE Goto(r, "expire")
    <3>1. req'[r].pc = "expire"
      BY <1>1, <2>1 DEF Goto
    <3> QED BY <1>1, <3>1, NotPassed
  <2>2. CASE Finish(r)
    <3>1. req'[r].pc = "idle"
      BY <1>1, <2>2 DEF Finish
    <3> QED BY <1>1, <3>1, NotPassed
  <2>3. CASE NextAdmission(r)
    <3>1. PICK pc, at :
             /\ req' = [req EXCEPT ![r].pc = pc, ![r].at = at]
             /\ pc \in {"admit", "precheck"} \/ (pc = "work" /\ Prechecks[req[r].op] = <<>>)
      BY <2>3 DEF NextAdmission
    <3>2. req' = [req EXCEPT ![r] = [req[r] EXCEPT !.pc = pc, !.at = at]]
      BY <1>1, <3>1
    <3>3. req'[r].pc = pc /\ req'[r].op = req[r].op /\ req'[r].post = req[r].post
      BY <1>1, <3>2 DEF Request
    <3>4. CASE pc \in {"admit", "precheck"}
      BY <1>1, <3>3, <3>4, NotPassed
    <3>5. CASE pc = "work" /\ Prechecks[req[r].op] = <<>>
      <4>1. req[r].op \in Rechecks \/ Records[req[r].op] = {}
        BY <1>1, <3>5, LastChecks DEF Request
      <4>2. req[r].post[k] = "done"
        BY <1>1 DEF StepsMatch, Done
      <4> QED BY <3>3, <3>5, <4>1, <4>2 DEF Passed
    <3> QED BY <3>1, <3>4, <3>5
  <2> QED BY <1>5, <2>1, <2>2, <2>3
<1> QED BY <1>1, <1>3, <1>4, <1>6, OneMoves, BoundStays DEF ProtectionInv, TypeOK

LEMMA PrecheckBounded ==
    ASSUME ProtectionInv, ProtectionInv', NEW k \in LockKeys, Bounded(k), NEW r \in Requests,
           precheck(r) \/ precheck_fails(r)
    PROVE  Bounded(k)'
<1>1. /\ req \in [Requests -> Request \cup {Idle}] /\ Idle.pc = "idle"
      /\ req[r].pc = "precheck" /\ req[r] \in Request /\ StepsMatch(req[r])
      /\ PrecheckKey(r) \in Keys /\ k \in Keys /\ count \in [Keys -> Nat]
      /\ count' = count /\ blind \subseteq blind'
  BY Busy, KeysOfRequests, KeyKinds DEF ProtectionInv, TypeOK, precheck, precheck_fails
<1>2. \A p \in Requests : p # r => req'[p] = req[p]
  BY <1>1 DEF precheck, precheck_fails, Finish, NextPrecheck
<1>3. CASE r \notin Passed(k)'
  BY <1>1, <1>2, <1>3, OneMoves, BoundStays
<1>4. CASE r \in Passed(k)'
  <2>1. ~Finish(r)
    <3>1. Finish(r) => req'[r].pc = "idle"
      BY <1>1 DEF Finish
    <3> QED BY <1>1, <1>4, <3>1, NotPassed
  <2>2. NextPrecheck(r) /\ (~is_locked(PrecheckKey(r)) \/ PrecheckKey(r) \in blind')
    BY <1>1, <2>1 DEF precheck, precheck_fails
  <2>3. PICK pc, at : req' = [req EXCEPT ![r].pc = pc, ![r].at = at]
    BY <2>2 DEF NextPrecheck
  <2>4. req' = [req EXCEPT ![r] = [req[r] EXCEPT !.pc = pc, !.at = at]]
    BY <1>1, <2>3
  <2>5. req'[r].op = req[r].op /\ req'[r].post = req[r].post
    BY <1>1, <2>4 DEF Request
  <2>6. req[r].post[k] = "done"
    BY <1>1 DEF StepsMatch, Done
  <2>7. req[r].op \notin Rechecks /\ k \in Records[req[r].op]
    BY <1>4, <2>5, <2>6 DEF Passed
  <2>8. PrecheckKey(r) = k
    BY <1>1, <2>7, LastChecks DEF PrecheckKey, StepsMatch, Request
  <2>9. CASE k \in blind'
    BY <2>9 DEF Bounded
  <2>10. CASE ~is_locked(k)
    <3>1. count'[k] < Limit[k]
      BY <1>1, <2>10, ProtectionAssumption DEF is_locked
    <3> QED BY <1>1, <3>1, BoundBelow
  <2> QED BY <2>2, <2>8, <2>9, <2>10
<1> QED BY <1>3, <1>4

LEMMA RecordBounded ==
    ASSUME ProtectionInv, ProtectionInv', NEW k \in LockKeys, Bounded(k), NEW r \in Requests,
           NEW j \in Keys, RecordStep(r, j)
    PROVE  Bounded(k)'
<1>1. PICK what : /\ req[r].post[j] # "done" /\ Post(r, j, what)
                  /\ j # k \/ what # "record" \/ recheck(r, j) \/ recheck_fails(r, j)
  BY DEF RecordStep, recheck, recheck_fails, reset_failed_attempts, record_failed_attempt,
     expire_lock, record_fails
<1>2. /\ req \in [Requests -> Request \cup {Idle}] /\ req[r] \in Request
      /\ req[r].pc = "record" /\ k \in Keys /\ count \in [Keys -> Nat] /\ Limit \in [Keys -> Nat \ {0}]
  BY <1>1, Busy, KeyKinds, ProtectionAssumption DEF ProtectionInv, TypeOK
<1> DEFINE q == [req[r] EXCEPT !.post = [req[r].post EXCEPT ![j] = what]]
<1>3. req' = [req EXCEPT ![r] = q]
  BY <1>1, <1>2 DEF Post
<1>4. q.pc = "record" /\ q.post[j] = what /\ (j # k => q.post[k] = req[r].post[k])
  BY <1>2 DEF Request
<1> HIDE DEF q
<1>5. \A p \in Requests : req'[p] = IF p = r THEN q ELSE req[p]
  BY <1>2, <1>3
<1>6. r \in Passed(k)' <=> q.post[k] = "record"
  BY <1>4, <1>5 DEF Passed
<1>7. r \in Passed(k) <=> req[r].post[k] = "record"
  BY <1>2 DEF Passed
<1>8. CASE j # k
  <2>1. count'[k] = count[k] /\ (k \in blind => k \in blind')
    BY <1>2, <1>8 DEF RecordStep, recheck, recheck_fails, reset_failed_attempts,
       record_failed_attempt, expire_lock, record_fails, Delete, Incr
  <2>2. \A p \in Requests : p \in Passed(k)' => p \in Passed(k)
    BY <1>4, <1>5, <1>6, <1>7, <1>8, OneMoves, <1>2
  <2> QED BY <1>2, <2>1, <2>2, BoundStays
<1>9. CASE j = k
  <2>1. CASE recheck(r, j) \/ recheck_fails(r, j)
    <3>1. count' = count /\ blind \subseteq blind' /\ req[r].post[k] = "check"
      BY <1>9, <2>1 DEF recheck, recheck_fails
    <3>2. CASE ~is_locked(k)
      <4>1. count'[k] < Limit[k]
        BY <1>2, <3>1, <3>2 DEF is_locked
      <4> QED BY <1>2, <4>1, BoundBelow
    <3>3. CASE is_locked(k) /\ recheck_fails(r, j)
      BY <1>9, <3>3 DEF recheck_fails, Bounded
    <3>4. CASE is_locked(k) /\ recheck(r, j)
      <4>1. what = "done"
        <5>1. Post(r, k, "done")
          BY <1>9, <3>4 DEF recheck
        <5>2. req' = [req EXCEPT ![r] = [req[r] EXCEPT !.post = [req[r].post EXCEPT ![k] = "done"]]]
          BY <1>2, <5>1 DEF Post
        <5>3. req'[r].post[k] = "done"
          BY <1>2, <5>2 DEF Request
        <5> QED BY <1>4, <1>5, <1>9, <5>3
      <4>2. \A p \in Requests : p \in Passed(k)' => p \in Passed(k)
        BY <1>2, <1>4, <1>5, <1>6, <1>9, <4>1, OneMoves
      <4> QED BY <1>2, <3>1, <4>2, BoundStays
    <3> QED BY <2>1, <3>2, <3>3, <3>4
  <2>2. CASE reset_failed_attempts(r, j)
    <3>1. count'[k] = 0
      BY <1>2, <1>9, <2>2 DEF reset_failed_attempts, Delete
    <3> QED BY <1>2, <3>1, BoundBelow
  <2>3. CASE ~(recheck(r, j) \/ recheck_fails(r, j) \/ reset_failed_attempts(r, j))
    <3>1. r \notin Passed(k)' /\ blind' = blind
      BY <1>1, <1>4, <1>6, <1>9, <2>3 DEF RecordStep, record_failed_attempt, expire_lock, record_fails
    <3>2. \A p \in Requests : p \in Passed(k)' => p \in Passed(k)
      BY <1>2, <1>5, <3>1, OneMoves
    <3>3. CASE record_failed_attempt(r, j)
      <4>1. r \in Passed(k) /\ count'[k] <= count[k] + 1
        BY <1>2, <1>7, <1>9, <3>3 DEF record_failed_attempt, Incr
      <4> QED BY <1>2, <3>1, <3>2, <4>1, BoundCounts
    <3>4. CASE ~record_failed_attempt(r, j)
      <4>1. count' = count
        BY <2>3, <3>4 DEF RecordStep, expire_lock, record_fails
      <4> QED BY <1>2, <3>1, <3>2, <4>1, BoundStays
    <3> QED BY <3>3, <3>4
  <2> QED BY <2>1, <2>2, <2>3
<1> QED BY <1>8, <1>9

LEMMA OvershootStep ==
    ProtectionInv /\ ProtectionInv' /\ Overshoot /\ [Next]_vars => Overshoot'
<1> SUFFICES ASSUME ProtectionInv, ProtectionInv', Overshoot, [Next]_vars, NEW k \in LockKeys
             PROVE  Bounded(k)'
  BY DEF Overshoot, LockKeys
<1>1. /\ Bounded(k) /\ k \in Keys /\ count \in [Keys -> Nat] /\ Limit \in [Keys -> Nat \ {0}]
      /\ req \in [Requests -> Request \cup {Idle}] /\ Idle.pc = "idle"
  BY KeyKinds, Busy, ProtectionAssumption DEF Overshoot, ProtectionInv, TypeOK, Idle
<1>2. CASE UNCHANGED vars
  BY <1>1, <1>2, BoundStays DEF vars, Passed
<1>3. ASSUME NEW r \in Requests, call(r) \/ answer(r) \/ Crash(r)
      PROVE  Bounded(k)'
  <2>1. /\ UNCHANGED <<count, blind>> /\ req'[r].pc \in {"idle", "admit"}
        /\ \A p \in Requests : p # r => req'[p] = req[p]
    BY <1>1, <1>3 DEF call, answer, Crash, Finish
  <2>2. r \notin Passed(k)'
    BY <1>1, <2>1, NotPassed
  <2> QED BY <1>1, <2>1, <2>2, OneMoves, BoundStays
<1>4. ASSUME NEW r \in Requests, work(r)
      PROVE  Bounded(k)'
  <2> DEFINE post == [l \in Keys |-> IF l \notin Records[req[r].op] THEN "done"
                                     ELSE IF req[r].op \in Rechecks THEN "check" ELSE "record"]
  <2>1. PICK ok : req' = [req EXCEPT ![r].ok = ok, ![r].pc = "record", ![r].post = post]
    BY <1>4 DEF work
  <2>2. req[r] \in Request /\ req[r].pc = "work" /\ UNCHANGED <<count, blind>>
    BY <1>4, Busy DEF work
  <2>3. req' = [req EXCEPT ![r] = [req[r] EXCEPT !.ok = ok, !.pc = "record", !.post = post]]
    BY <1>1, <2>1
  <2>4. req'[r].pc = "record" /\ req'[r].post = post
    BY <1>1, <2>2, <2>3 DEF Request
  <2>5. r \in Passed(k)' => r \in Passed(k)
    BY <1>1, <2>2, <2>4 DEF Passed
  <2>6. \A p \in Requests : p # r => req'[p] = req[p]
    BY <1>1, <2>3
  <2> QED BY <1>1, <2>2, <2>5, <2>6, OneMoves, BoundStays
<1>5. ASSUME NEW j \in Keys, Expire(j)
      PROVE  Bounded(k)'
  <2>1. CASE j = k
    <3>1. count'[k] = 0
      BY <1>1, <1>5, <2>1 DEF Expire, Delete
    <3> QED BY <1>1, <3>1, BoundBelow
  <2>2. CASE j # k
    <3>1. count'[k] = count[k] /\ (k \in blind => k \in blind') /\ req' = req
      BY <1>1, <1>5, <2>2 DEF Expire, Delete
    <3>2. \A p \in Requests : p \in Passed(k)' => p \in Passed(k)
      BY <3>1 DEF Passed
    <3> QED BY <1>1, <3>1, <3>2, BoundStays
  <2> QED BY <2>1, <2>2
<1> QED BY <1>1, <1>2, <1>3, <1>4, <1>5, AdmissionBounded, PrecheckBounded, RecordBounded
        DEF Next, Step, RecordStep

\* Failures pass a limit by less than the number of requests in flight, for
\* every number of them, unless a read of the lock failed.
THEOREM OvershootIsBounded == Spec => []OvershootBounded
<1>1. Init => Overshoot
  <2> SUFFICES ASSUME Init, NEW k \in LockKeys PROVE Bounded(k)
    BY DEF Overshoot
  <2>1. k \in Keys /\ Limit[k] \in Nat \ {0} /\ count[k] = 0
    BY KeyKinds, ProtectionAssumption DEF Init
  <2> QED BY <2>1, PassedSize DEF Bounded
<1>2. ProtectionInv /\ Overshoot => OvershootBounded
  <2> SUFFICES ASSUME ProtectionInv, Overshoot, NEW k \in LockKeys \ blind
               PROVE  count[k] < Limit[k] + Cardinality(Requests)
    BY DEF OvershootBounded
  <2>1. Bounded(k) /\ k \in Keys /\ count[k] \in Nat /\ Limit[k] \in Nat
    BY KeyKinds, ProtectionAssumption DEF Overshoot, ProtectionInv, TypeOK
  <2> QED BY <2>1, PassedSize DEF Bounded
<1> QED BY <1>1, <1>2, OvershootStep, InvAlways, PTL DEF Spec
=================================================================================
