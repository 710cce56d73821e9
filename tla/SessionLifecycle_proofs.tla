----------------------- MODULE SessionLifecycle_proofs -----------------------
(***************************************************************************)
(* Theorems about SessionLifecycle, for any number of tabs and calls, and  *)
(* any faults.                                                             *)
(***************************************************************************)
EXTENDS SessionLifecycle, SequenceTheorems, TLAPS

-----------------------------------------------------------------------------
(* Type correctness.                                                       *)

\* A call in flight is in an interceptor.
Framed == \A p \in Slots : InFlight(p) => req[p].frames # <<>>

TypeInv == TypeOK /\ Framed

Kinds == {"me", "page", "password", "refresh"}

LEMMA TabType == ASSUME NEW p \in Slots PROVE Tab(p) \in Tabs
  BY LifecycleAssumption DEF Tab, Slots

LEMMA CallsInFlight ==
    ASSUME TypeInv, NEW p \in Slots, InFlight(p)
    PROVE  req[p] \in Call /\ req[p].frames # <<>>
  BY DEF TypeInv, TypeOK, Framed, InFlight, Idle

LEMMA Frames ==
    ASSUME NEW x \in Call, x.frames # <<>>
    PROVE  /\ Len(x.frames) \in 1 .. Len(x.frames)
           /\ x.frames[Len(x.frames)] \in Frame
           /\ x.frames \in Seq(Frame)
<1>1. x.frames \in Seq(Frame)
  BY DEF Call
<1>2. Len(x.frames) \in Nat \ {0}
  BY <1>1, EmptySeq
<1>3. Len(x.frames) \in 1 .. Len(x.frames)
  BY <1>2
<1> QED
  BY <1>1, <1>3, ElementOfSeq

LEMMA WithTopType ==
    ASSUME NEW x \in Call, x.frames # <<>>, NEW f \in Frame
    PROVE  /\ WithTop(x, f) \in Call
           /\ WithTop(x, f).frames \in Seq(Frame) /\ WithTop(x, f).frames # <<>>
<1> DEFINE g == [x.frames EXCEPT ![Len(x.frames)] = f]
<1>1. g \in Seq(Frame) /\ Len(g) = Len(x.frames) /\ Len(g) \in 1 .. Len(x.frames)
  BY Frames, ExceptSeq
<1>2. g # <<>>
  BY <1>1, EmptySeq
<1>3. WithTop(x, f) = [x EXCEPT !.frames = g]
  BY DEF WithTop
<1> HIDE DEF g
<1>4. [x EXCEPT !.frames = g] \in Call /\ [x EXCEPT !.frames = g].frames = g
  BY <1>1 DEF Call
<1> QED
  BY <1>1, <1>2, <1>3, <1>4

LEMMA SentType ==
    ASSUME NEW x \in Call, NEW g \in Seq(Frame), g # <<>>, NEW c \in Pair
    PROVE  Sent(x, g, c) \in Call /\ Sent(x, g, c).frames # <<>>
  BY DEF Sent, Call

LEMMA FirstType ==
    ASSUME NEW k \in Kinds, NEW c \in Pair
    PROVE  /\ Sent([Idle EXCEPT !.kind = k], <<NewFrame>>, c) \in Call
           /\ Sent([Idle EXCEPT !.kind = k], <<NewFrame>>, c).frames # <<>>
<1>1. <<NewFrame>> \in Seq(Frame) /\ <<NewFrame>> # <<>>
  BY DEF NewFrame, Frame
<1>2. ASSUME NEW g \in Seq(Frame), g # <<>>
      PROVE  /\ Sent([Idle EXCEPT !.kind = k], g, c) \in Call
             /\ Sent([Idle EXCEPT !.kind = k], g, c).frames # <<>>
  <2> DEFINE x == [Idle EXCEPT !.kind = k]
  <2>1. x \in [kind : Kinds, pc : {"idle"}, frames : {<<>>}, sent : {NoPair},
               status : {"none"}, pair : {NoPair}, target : {NoCall}]
    BY DEF Idle
  <2> HIDE DEF x
  <2>2. Sent(x, g, c) \in Call /\ Sent(x, g, c).frames = g
    BY <1>2, <2>1 DEF Sent, Call, Kinds
  <2> QED
    BY <1>2, <2>2 DEF x
<1> QED
  BY <1>1, <1>2

LEMMA RetryType ==
    ASSUME NEW x \in Call, x.frames # <<>>, NEW f \in Frame, NEW c \in Pair
    PROVE  Retry(x, f, c) \in Call /\ Retry(x, f, c).frames # <<>>
<1> DEFINE h == [f EXCEPT !.in = "none"]
           g == Append(WithTop(x, f).frames, h)
<1>1. h \in Frame
  BY DEF Frame
<1>2. g \in Seq(Frame) /\ g # <<>>
  <2>1. WithTop(x, f).frames \in Seq(Frame)
    BY WithTopType
  <2>2. g \in Seq(Frame) /\ Len(g) = Len(WithTop(x, f).frames) + 1
    BY <1>1, <2>1
  <2>3. Len(g) # 0
    BY <2>1, <2>2, LenProperties
  <2> QED
    BY <2>2, <2>3, EmptySeq
<1> HIDE DEF g
<1>3. Retry(x, f, c) = Sent(x, g, c)
  BY DEF Retry, g
<1> QED
  BY <1>2, <1>3, SentType

\* One call moves.
LEMMA OneMoves ==
    ASSUME TypeInv, NEW p \in Slots, NEW x, x = Idle \/ (x \in Call /\ x.frames # <<>>),
           req' = [req EXCEPT ![p] = x]
    PROVE  req' \in [Slots -> Call \cup {Idle}] /\ Framed'
  BY DEF TypeInv, TypeOK, Framed, InFlight, Idle

LEMMA SettleType ==
    ASSUME TypeInv, NEW p \in Slots, NEW ok, NEW c \in Pair, Settle(p, ok, c)
    PROVE  /\ req' \in [Slots -> Call \cup {Idle}] /\ Framed'
           /\ pendingRotation' \in [Tabs -> Calls \cup {NoCall}]
<1> DEFINE r(q) == IF q = p THEN Idle
                   ELSE IF req[q].pc = "await_refresh" /\ p = Tab(q)
                   THEN IF ok THEN Retry(req[q], [Top(q) EXCEPT !.refreshed = TRUE], c)
                        ELSE [req[q] EXCEPT !.pc = "denied"]
                   ELSE IF req[q].pc = "await_rotation" /\ p = req[q].target
                   THEN Retry(req[q], Top(q), c)
                   ELSE req[q]
<1>1. ASSUME NEW q \in Slots
      PROVE  r(q) = Idle \/ (r(q) \in Call /\ r(q).frames # <<>>)
  <2>1. req[q] = Idle \/ (req[q] \in Call /\ req[q].frames # <<>>)
    BY CallsInFlight DEF TypeInv, TypeOK, InFlight, Call
  <2>2. CASE req[q].pc \in {"await_refresh", "await_rotation"}
    <3>1. req[q] \in Call /\ req[q].frames # <<>> /\ Top(q) \in Frame
      BY <2>1, <2>2, Frames DEF Idle, Top
    <3>2. [Top(q) EXCEPT !.refreshed = TRUE] \in Frame
      BY <3>1 DEF Frame
    <3>3. [req[q] EXCEPT !.pc = "denied"] \in Call /\ [req[q] EXCEPT !.pc = "denied"].frames # <<>>
      BY <3>1 DEF Call
    <3> QED
      BY <2>1, <3>1, <3>2, <3>3, RetryType
  <2> QED
    BY <2>1, <2>2
<1>2. req' = [q \in Slots |-> r(q)]
  BY DEF Settle
<1> HIDE DEF r
<1>3. req' \in [Slots -> Call \cup {Idle}] /\ Framed'
  BY <1>1, <1>2 DEF Framed, InFlight, Idle
<1>4. pendingRotation' \in [Tabs -> Calls \cup {NoCall}]
  BY DEF Settle, TypeInv, TypeOK
<1> QED
  BY <1>3, <1>4

LEMMA AnswerType ==
    ASSUME TypeInv, NEW p \in Slots, InFlight(p), NEW s \in {"ok", "401", "other"},
           NEW pair \in Pair \cup {NoPair}, Answer(p, s, pair)
    PROVE  req' \in [Slots -> Call \cup {Idle}] /\ Framed'
<1> DEFINE x == [req[p] EXCEPT !.pc = "replied", !.status = s, !.pair = pair]
<1>1. x \in Call /\ x.frames # <<>>
  BY CallsInFlight DEF Call
<1>2. req' = [req EXCEPT ![p] = x]
  BY DEF Answer
<1> QED
  BY <1>1, <1>2, OneMoves

LEMMA GotoType ==
    ASSUME TypeInv, NEW p \in Slots, InFlight(p),
           NEW pc \in {"minting", "refused", "denied", "rejected"},
           req' = [req EXCEPT ![p].pc = pc]
    PROVE  req' \in [Slots -> Call \cup {Idle}] /\ Framed'
<1> DEFINE x == [req[p] EXCEPT !.pc = pc]
<1>1. x \in Call /\ x.frames # <<>>
  BY CallsInFlight DEF Call
<1> QED
  BY <1>1, OneMoves

LEMMA InitType == Init => TypeInv
  BY LifecycleAssumption DEF Init, TypeInv, TypeOK, Framed, InFlight, Idle, Pair, NoPair

LEMMA StartType ==
    ASSUME TypeInv, NEW p \in Calls, NEW kind \in {"me", "page", "password"}, start(p, kind)
    PROVE  TypeInv'
<1> DEFINE x == Sent([Idle EXCEPT !.kind = kind], <<NewFrame>>, cookie)
<1>1. x \in Call /\ x.frames # <<>>
  BY FirstType DEF Kinds, TypeInv, TypeOK
<1>2. req' \in [Slots -> Call \cup {Idle}] /\ Framed'
  <2>1. req' = [req EXCEPT ![p] = x] /\ p \in Slots
    BY DEF start, Slots
  <2> HIDE DEF x
  <2> QED
    BY <1>1, <2>1, OneMoves
<1>3. pendingRotation' \in [Tabs -> Calls \cup {NoCall}] /\ started' \in Nat
  BY DEF start, TypeInv, TypeOK
<1> QED
  BY <1>2, <1>3 DEF start, TypeInv, TypeOK, serverVars

LEMMA ServeType == ASSUME TypeInv, NEW p \in Slots, Serve(p) PROVE TypeInv'
<1>0. /\ version \in Nat /\ nextPair \in Nat \ {0} /\ claims \subseteq Nat \X Tabs
      /\ NewPair \in Pair /\ version + 1 \in Nat /\ nextPair + 1 \in Nat \ {0}
  BY DEF TypeInv, TypeOK, NewPair, Pair
<1>1. CASE serve(p)
  <2>1. InFlight(p) /\ \E s \in {"ok", "401", "other"} : Answer(p, s, NoPair)
    BY <1>1 DEF serve, InFlight
  <2>2. req' \in [Slots -> Call \cup {Idle}] /\ Framed'
    BY <2>1, AnswerType
  <2> QED
    BY <1>1, <2>2 DEF serve, TypeInv, TypeOK, serverVars, browserVars, historyVars
<1>2. CASE update_my_profile(p)
  <2>1. InFlight(p)
    BY <1>2 DEF update_my_profile, InFlight
  <2>2. \/ req' = [req EXCEPT ![p].pc = "minting"]
        \/ \E s \in {"401", "other"} : Answer(p, s, NoPair)
    BY <1>2 DEF update_my_profile
  <2>3. req' \in [Slots -> Call \cup {Idle}] /\ Framed'
    BY <2>1, <2>2, AnswerType, GotoType
  <2>4. version' \in Nat
    BY <1>0, <1>2 DEF update_my_profile
  <2> QED
    BY <1>2, <2>3, <2>4 DEF update_my_profile, TypeInv, TypeOK, browserVars, historyVars
<1>3. CASE create_tokens(p)
  <2>1. InFlight(p) /\ (Answer(p, "ok", NewPair) \/ Answer(p, "other", NoPair))
    BY <1>3 DEF create_tokens, InFlight
  <2>2. req' \in [Slots -> Call \cup {Idle}] /\ Framed'
    BY <1>0, <2>1, AnswerType
  <2>3. nextPair' \in Nat \ {0}
    BY <1>0, <1>3 DEF create_tokens
  <2> QED
    BY <1>3, <2>2, <2>3 DEF create_tokens, TypeInv, TypeOK, browserVars, historyVars
<1>4. CASE p \in Tabs /\ refresh_tokens(p)
  <2>1. InFlight(p) /\ (Answer(p, "ok", NewPair) \/ Answer(p, "other", NoPair) \/ Answer(p, "401", NoPair))
    BY <1>4 DEF refresh_tokens, InFlight
  <2>2. req' \in [Slots -> Call \cup {Idle}] /\ Framed'
    BY <1>0, <2>1, AnswerType
  <2>3. req[p].sent.id \in Nat
    BY <2>1, CallsInFlight DEF Call, Pair
  <2>4. <<req[p].sent.id, p>> \in Nat \X Tabs
    BY <1>4, <2>3
  <2>5. /\ nextPair' \in Nat \ {0} /\ version' \in Nat
        /\ claims' \subseteq Nat \X Tabs /\ replays' \subseteq Tabs
    BY <1>0, <1>4, <2>4 DEF refresh_tokens, serverVars, TypeInv, TypeOK
  <2> QED
    BY <1>4, <2>2, <2>5 DEF refresh_tokens, TypeInv, TypeOK, browserVars, historyVars
<1> QED
  BY <1>1, <1>2, <1>3, <1>4 DEF Serve

LEMMA ReceivedType ==
    ASSUME TypeInv, NEW p \in Slots, InFlight(p), receive(p)
    PROVE  last' \in Received
<1>1. req[p] \in Call /\ req[p].frames # <<>> /\ Top(p) \in Frame /\ Tab(p) \in Tabs
  BY CallsInFlight, Frames, TabType DEF Top
<1>2. req[p].kind \in Kinds /\ req[p].sent \in Pair
  BY <1>1 DEF Call, Kinds
<1>3. Top(p).refreshed \in BOOLEAN /\ Top(p).rotated \in BOOLEAN
  BY <1>1 DEF Frame
<1>4. req[p].status \in {"ok", "401", "other"} /\ last' = AnswerOf(p)
  BY DEF receive
<1> QED
  BY <1>1, <1>2, <1>3, <1>4 DEF AnswerOf, Received, Kinds

LEMMA ReactType == ASSUME TypeInv, NEW p \in Slots, React(p) PROVE TypeInv'
<1>0. Tab(p) \in Tabs /\ cookie \in Pair
  BY TabType DEF TypeInv, TypeOK
<1>1. CASE receive(p)
  <2> DEFINE now == IF req[p].pair = NoPair THEN cookie ELSE req[p].pair
  <2>1. InFlight(p) /\ req[p] \in Call
    BY <1>1, CallsInFlight DEF receive, InFlight
  <2>2. now \in Pair /\ req[p].sent \in Pair
    BY <1>0, <2>1 DEF Call
  <2>3. CASE Settle(p, TRUE, now)
    <3>1. /\ req' \in [Slots -> Call \cup {Idle}] /\ Framed'
          /\ pendingRotation' \in [Tabs -> Calls \cup {NoCall}]
      BY <2>2, <2>3, SettleType
    <3>2. cookie' \in Pair
      BY <1>0, <1>1, <2>2 DEF receive
    <3>3. authenticated' \subseteq Tabs
      BY <1>0, <1>1 DEF receive, TypeInv, TypeOK
    <3>4. last' \in Received \cup {NoAnswer}
      BY <1>1, <2>1, ReceivedType
    <3>5. UNCHANGED <<serverVars, expired, started, revokes, lost>>
      BY <1>1 DEF receive
    <3> QED
      BY <3>1, <3>2, <3>3, <3>4, <3>5 DEF TypeInv, TypeOK, serverVars
  <2>4. CASE (\E pc \in {"refused", "rejected"} : req' = [req EXCEPT ![p].pc = pc])
             /\ UNCHANGED <<cookie, pendingRotation>>
    <3>1. req' \in [Slots -> Call \cup {Idle}] /\ Framed'
      BY <2>1, <2>4, GotoType
    <3>2. last' \in Received \cup {NoAnswer}
      BY <1>1, <2>1, ReceivedType
    <3> QED
      BY <1>0, <1>1, <2>4, <3>1, <3>2 DEF receive, TypeInv, TypeOK, serverVars
  <2> QED
    BY <1>1, <2>3, <2>4 DEF receive
<1>2. CASE refreshSession(p)
  <2> DEFINE f == [Top(p) EXCEPT !.in = "refresh"]
             y == WithTop(req[p], f)
             x == [y EXCEPT !.pc = "await_refresh"]
             z == IF InFlight(Tab(p)) THEN req[Tab(p)]
                  ELSE Sent([Idle EXCEPT !.kind = "refresh"], <<NewFrame>>, cookie)
  <2>1. InFlight(p) /\ p \in Calls
    BY <1>2 DEF refreshSession, InFlight, Eligible
  <2>2. req[p] \in Call /\ req[p].frames # <<>> /\ Top(p) \in Frame
    BY <2>1, CallsInFlight, Frames DEF Top
  <2>3. f \in Frame
    BY <2>2 DEF Frame
  <2>4. y \in Call /\ y.frames # <<>>
    BY <2>2, <2>3, WithTopType
  <2>5. x \in Call /\ x.frames # <<>>
    <3> HIDE DEF y
    <3> QED
      BY <2>4 DEF Call
  <2>6. z \in Call /\ z.frames # <<>>
    BY <1>0, FirstType, CallsInFlight DEF Kinds, Slots
  <2>7. Tab(p) # p /\ Tab(p) \in Slots
    BY <1>0, <2>1, LifecycleAssumption DEF Slots
  <2>8. req' = [req EXCEPT ![p] = x, ![Tab(p)] = z]
    BY <1>2, <2>7 DEF refreshSession, TypeInv, TypeOK
  <2> HIDE DEF x, y, z
  <2>9. req' \in [Slots -> Call \cup {Idle}] /\ Framed'
    BY <2>5, <2>6, <2>7, <2>8 DEF TypeInv, TypeOK, Framed, InFlight
  <2> QED
    BY <1>2, <2>9 DEF refreshSession, TypeInv, TypeOK, serverVars, browserVars, historyVars
<1>3. CASE awaitRotation(p)
  <2> DEFINE f == [Top(p) EXCEPT !.rotated = TRUE, !.in = "rotation"]
             y == WithTop(req[p], f)
             c == pendingRotation[Tab(p)]
             x == [y EXCEPT !.pc = "await_rotation", !.target = c]
  <2>1. InFlight(p)
    BY <1>3 DEF awaitRotation, InFlight
  <2>2. req[p] \in Call /\ req[p].frames # <<>> /\ Top(p) \in Frame
    BY <2>1, CallsInFlight, Frames DEF Top
  <2>3. f \in Frame /\ c \in Calls \cup {NoCall}
    BY <1>0, <2>2 DEF Frame, TypeInv, TypeOK
  <2>4. y \in Call /\ y.frames # <<>>
    BY <2>2, <2>3, WithTopType
  <2>5. x \in Call /\ x.frames # <<>>
    <3> HIDE DEF y, c
    <3> QED
      BY <2>3, <2>4 DEF Call
  <2>6. req' = [req EXCEPT ![p] = x]
    BY <1>3 DEF awaitRotation
  <2> HIDE DEF x, y
  <2>7. req' \in [Slots -> Call \cup {Idle}] /\ Framed'
    BY <2>5, <2>6, OneMoves
  <2> QED
    BY <1>3, <2>7 DEF awaitRotation, TypeInv, TypeOK, serverVars, browserVars, historyVars
<1>4. CASE giveUp(p)
  <2>1. InFlight(p) /\ req' = [req EXCEPT ![p].pc = "rejected"]
    BY <1>4 DEF giveUp, InFlight
  <2>2. req' \in [Slots -> Call \cup {Idle}] /\ Framed'
    BY <2>1, GotoType
  <2> QED
    BY <1>4, <2>2 DEF giveUp, TypeInv, TypeOK, serverVars, historyVars
<1>5. CASE caught(p)
  <2> DEFINE n == Len(req[p].frames)
             outer == SubSeq(req[p].frames, 1, n - 1)
             pc == IF outer[Len(outer)].in = "refresh" THEN "denied" ELSE "rejected"
             x == [req[p] EXCEPT !.frames = outer, !.pc = pc]
  <2>1. InFlight(p) /\ n > 1
    BY <1>5 DEF caught, InFlight
  <2>2. req[p] \in Call /\ req[p].frames \in Seq(Frame) /\ n \in Nat
    BY <2>1, CallsInFlight, LenProperties DEF Call
  <2>3. outer \in Seq(Frame) /\ Len(outer) = n - 1
    BY <2>1, <2>2
  <2>4. outer # <<>>
    <3>1. Len(outer) # 0
      <4> HIDE DEF outer, n
      <4> QED
        BY <2>1, <2>2, <2>3
    <3> HIDE DEF outer
    <3> QED
      BY <3>1, EmptySeq
  <2>5. x \in Call /\ x.frames # <<>>
    <3> HIDE DEF outer
    <3> QED
      BY <2>2, <2>3, <2>4 DEF Call
  <2>6. req' = [req EXCEPT ![p] = x]
    BY <1>5 DEF caught
  <2> HIDE DEF x
  <2>7. req' \in [Slots -> Call \cup {Idle}] /\ Framed'
    BY <2>5, <2>6, OneMoves
  <2>8. authenticated' \subseteq Tabs
    BY <1>5 DEF caught, TypeInv, TypeOK
  <2> QED
    BY <1>5, <2>7, <2>8 DEF caught, TypeInv, TypeOK, serverVars, historyVars
<1>6. CASE reject(p)
  <2>1. Settle(p, FALSE, cookie)
    BY <1>6 DEF reject
  <2>2. /\ req' \in [Slots -> Call \cup {Idle}] /\ Framed'
        /\ pendingRotation' \in [Tabs -> Calls \cup {NoCall}]
    BY <1>0, <2>1, SettleType
  <2> QED
    BY <1>6, <2>2 DEF reject, TypeInv, TypeOK, serverVars, historyVars
<1> QED
  BY <1>1, <1>2, <1>3, <1>4, <1>5, <1>6 DEF React

LEMMA NextType == TypeInv /\ [Next]_vars => TypeInv'
<1> SUFFICES ASSUME TypeInv, [Next]_vars PROVE TypeInv'
  OBVIOUS
<1>1. ASSUME NEW p \in Slots, lose(p) PROVE TypeInv'
  <2>1. InFlight(p) /\ Answer(p, "other", NoPair)
    BY <1>1 DEF lose, InFlight
  <2>2. req' \in [Slots -> Call \cup {Idle}] /\ Framed'
    BY <2>1, AnswerType
  <2> QED
    BY <1>1, <2>2, TabType DEF lose, TypeInv, TypeOK, serverVars, browserVars
<1>2. CASE revoke_elsewhere
  BY <1>2 DEF revoke_elsewhere, TypeInv, TypeOK, Framed, InFlight, browserVars
<1>3. CASE expire_access
  BY <1>3 DEF expire_access, TypeInv, TypeOK, Framed, InFlight, serverVars, historyVars, Pair
<1>4. CASE UNCHANGED vars
  BY <1>4 DEF vars, TypeInv, TypeOK, Framed, InFlight
<1> QED
  BY <1>1, <1>2, <1>3, <1>4, StartType, ServeType, ReactType DEF Next

\* Every reachable state is well typed: in particular each call has the
\* interceptors it is nested in, however often it is retried.
THEOREM TypeCorrect == Spec => []TypeOK
<1>1. TypeInv => TypeOK
  BY DEF TypeInv
<1> QED
  BY <1>1, InitType, NextType, PTL DEF Spec

-----------------------------------------------------------------------------
(* A tab never presents a refresh token that it has redeemed, unless it was *)
(* cut off from the answer.                                                *)

Carries(p) == req[p].pair # NoPair

\* Tokens on their way are the answer of a call, and known to nobody yet.
Underway ==
    \A p \in Slots : Carries(p) =>
        /\ req[p].pc = "replied" /\ req[p].status = "ok"
        /\ req[p].pair.id < nextPair
        /\ req[p].pair.id # cookie.id
        /\ \A q \in Slots : req[q].sent.id # req[p].pair.id
        /\ \A t \in Tabs : <<req[p].pair.id, t>> \notin claims
        /\ \A q \in Slots \ {p} : Carries(q) => req[q].pair.id # req[p].pair.id

Numbered ==
    /\ cookie.id < nextPair
    /\ \A p \in Slots : req[p].sent.id < nextPair
    /\ \A n \in Nat : \A t \in Tabs : <<n, t>> \in claims => n < nextPair

\* A tab that has redeemed the tokens in the cookies is about to get new ones.
RedeemedIsReplaced ==
    \A t \in Tabs : <<cookie.id, t>> \in claims => t \in lost \/ Carries(t)

SentIsNew ==
    \A t \in Tabs : req[t].pc = "sent" /\ <<req[t].sent.id, t>> \in claims => t \in lost

ReplayInv == Underway /\ Numbered /\ RedeemedIsReplaced /\ SentIsNew /\ NoTabReplaysItself

LEMMA PairTypes ==
    ASSUME TypeInv, NEW p \in Slots
    PROVE  /\ req[p].sent \in Pair \cup {NoPair} /\ req[p].pair \in Pair \cup {NoPair}
           /\ req[p].sent.id \in Nat /\ req[p].pair.id \in Nat
           /\ (Carries(p) => req[p].pair \in Pair /\ req[p].pair.id \in Nat \ {0})
  BY DEF TypeInv, TypeOK, Call, Idle, Pair, NoPair, Carries

\* A step in which no tokens are made: some may reach the cookies, or be lost.
LEMMA NothingMade ==
    ASSUME TypeInv, TypeInv', ReplayInv,
           UNCHANGED <<claims, nextPair>>, lost \subseteq lost', replays' \subseteq lost',
           \A q \in Slots :
              \/ req'[q].pair = NoPair
              \/ req'[q].pair = req[q].pair /\ req'[q].pc = req[q].pc /\ req'[q].status = req[q].status,
           \A q \in Slots : req'[q].sent \in {req[q].sent, cookie', NoPair},
           \/ cookie' = cookie
           \/ \E p \in Slots : Carries(p) /\ cookie' = req[p].pair /\ req'[p].pair = NoPair,
           \A t \in Tabs : Carries(t) => t \in lost' \/ req'[t].pair = req[t].pair \/ cookie' = req[t].pair,
           \A t \in Tabs : req'[t].pc = "sent" =>
              \/ req[t].pc = "sent" /\ req'[t].sent = req[t].sent
              \/ req'[t].sent = cookie' /\ req[t].pair = NoPair
    PROVE  ReplayInv'
<1>0. /\ Tabs \subseteq Slots /\ cookie.id \in Nat \ {0} /\ cookie'.id \in Nat \ {0}
      /\ nextPair \in Nat \ {0}
      /\ NoPair.id = 0
  BY DEF Slots, TypeInv, TypeOK, Pair, NoPair
<1>1. ASSUME NEW p \in Slots, Carries(p)'
      PROVE  /\ Carries(p) /\ req'[p].pair = req[p].pair
             /\ req'[p].pc = req[p].pc /\ req'[p].status = req[p].status
             /\ req[p].pair.id \in Nat \ {0}
  BY <1>1, PairTypes DEF Carries
<1>2. Underway'
  <2> SUFFICES ASSUME NEW p \in Slots, Carries(p)'
      PROVE  /\ req'[p].pc = "replied" /\ req'[p].status = "ok"
             /\ req'[p].pair.id < nextPair
             /\ req'[p].pair.id # cookie'.id
             /\ \A q \in Slots : req'[q].sent.id # req'[p].pair.id
             /\ \A t \in Tabs : <<req'[p].pair.id, t>> \notin claims
             /\ \A q \in Slots \ {p} : Carries(q)' => req'[q].pair.id # req'[p].pair.id
    BY DEF Underway, Carries
  <2>1. /\ Carries(p) /\ req'[p].pair = req[p].pair
        /\ req'[p].pc = req[p].pc /\ req'[p].status = req[p].status
        /\ req[p].pair.id \in Nat \ {0}
    BY <1>1
  <2>2. /\ req'[p].pc = "replied" /\ req'[p].status = "ok"
        /\ req'[p].pair.id < nextPair
        /\ \A t \in Tabs : <<req'[p].pair.id, t>> \notin claims
    BY <2>1 DEF ReplayInv, Underway
  <2>3. req'[p].pair.id # cookie'.id
    <3>1. CASE cookie' = cookie
      BY <2>1, <3>1 DEF ReplayInv, Underway
    <3>2. ASSUME NEW r \in Slots, Carries(r), cookie' = req[r].pair, req'[r].pair = NoPair
          PROVE  req'[p].pair.id # cookie'.id
      <4>1. r # p
        BY <3>2 DEF Carries
      <4> QED
        BY <2>1, <3>2, <4>1 DEF ReplayInv, Underway
    <3> QED
      BY <3>1, <3>2
  <2>4. ASSUME NEW q \in Slots PROVE req'[q].sent.id # req'[p].pair.id
    <3>1. CASE req'[q].sent = req[q].sent
      BY <2>1, <3>1 DEF ReplayInv, Underway
    <3>2. CASE req'[q].sent = cookie'
      BY <2>3, <3>2
    <3>3. CASE req'[q].sent = NoPair
      BY <1>0, <2>1, <3>3
    <3> QED
      BY <3>1, <3>2, <3>3
  <2>5. ASSUME NEW q \in Slots \ {p}, Carries(q)' PROVE req'[q].pair.id # req'[p].pair.id
    <3>1. Carries(q) /\ req'[q].pair = req[q].pair
      BY <1>1, <2>5
    <3> QED
      BY <2>1, <3>1 DEF ReplayInv, Underway
  <2> QED
    BY <2>2, <2>3, <2>4, <2>5
<1>3. cookie'.id < nextPair
  BY DEF ReplayInv, Underway, Numbered
<1>4. Numbered'
  <2>1. ASSUME NEW q \in Slots PROVE req'[q].sent.id < nextPair
    <3>1. req[q].sent.id < nextPair
      BY DEF ReplayInv, Numbered
    <3> QED
      BY <1>0, <1>3, <3>1
  <2> QED
    BY <1>3, <2>1 DEF ReplayInv, Numbered
<1>5. ASSUME NEW t \in Tabs, <<cookie'.id, t>> \in claims, t \notin lost'
      PROVE  cookie' = cookie /\ Carries(t) /\ Carries(t)'
  <2>1. cookie' = cookie
    BY <1>5 DEF ReplayInv, Underway
  <2>2. Carries(t)
    BY <1>5, <2>1 DEF ReplayInv, RedeemedIsReplaced
  <2>3. cookie # req[t].pair
    BY <1>0, <2>2 DEF ReplayInv, Underway
  <2> QED
    BY <1>5, <2>1, <2>2, <2>3 DEF Carries
<1>6. RedeemedIsReplaced'
  BY <1>5 DEF RedeemedIsReplaced
<1>7. SentIsNew'
  <2> SUFFICES ASSUME NEW t \in Tabs, req'[t].pc = "sent", <<req'[t].sent.id, t>> \in claims,
                      t \notin lost'
               PROVE  FALSE
    BY DEF SentIsNew
  <2>1. CASE req[t].pc = "sent" /\ req'[t].sent = req[t].sent
    BY <2>1 DEF ReplayInv, SentIsNew
  <2>2. CASE req'[t].sent = cookie' /\ req[t].pair = NoPair
    BY <1>5, <2>2 DEF Carries
  <2> QED
    BY <2>1, <2>2
<1> QED
  BY <1>2, <1>4, <1>6, <1>7 DEF ReplayInv, NoTabReplaysItself

\* The server makes a pair of tokens, for a password change or a refresh.
LEMMA PairMade ==
    ASSUME TypeInv, TypeInv', ReplayInv, NEW p \in Slots, req[p].pair = NoPair,
           Answer(p, "ok", NewPair), nextPair' = nextPair + 1,
           UNCHANGED <<cookie, lost, replays>>,
           \/ claims' = claims
           \/ p \in Tabs /\ claims' = claims \cup {<<req[p].sent.id, p>>}
    PROVE  ReplayInv'
<1>0. /\ Tabs \subseteq Slots /\ nextPair \in Nat \ {0} /\ cookie.id \in Nat /\ req \in [Slots -> Call \cup {Idle}]
      /\ NewPair # NoPair /\ NewPair.id = nextPair /\ NewPair.version = version
  BY DEF Slots, TypeInv, TypeOK, NewPair, NoPair, Pair
<1>1. /\ req'[p].pc = "replied" /\ req'[p].status = "ok" /\ req'[p].pair = NewPair
      /\ req'[p].sent = req[p].sent
      /\ \A q \in Slots \ {p} : req'[q] = req[q]
  <2>1. ASSUME NEW x \in Call \cup {Idle}, NEW y
        PROVE  /\ [x EXCEPT !.pc = "replied", !.status = "ok", !.pair = y].pc = "replied"
               /\ [x EXCEPT !.pc = "replied", !.status = "ok", !.pair = y].status = "ok"
               /\ [x EXCEPT !.pc = "replied", !.status = "ok", !.pair = y].pair = y
               /\ [x EXCEPT !.pc = "replied", !.status = "ok", !.pair = y].sent = x.sent
    BY DEF Call, Idle
  <2>2. /\ req'[p] = [req[p] EXCEPT !.pc = "replied", !.status = "ok", !.pair = NewPair]
        /\ \A q \in Slots \ {p} : req'[q] = req[q]
    BY <1>0 DEF Answer
  <2> QED
    BY <1>0, <2>1, <2>2
<1>2. /\ cookie.id < nextPair /\ \A q \in Slots : req[q].sent.id < nextPair
      /\ \A n \in Nat : \A t \in Tabs : <<n, t>> \in claims => n < nextPair
  BY DEF ReplayInv, Numbered
<1>3. \A n \in Nat : \A t \in Tabs : <<n, t>> \in claims' =>
         <<n, t>> \in claims \/ (n = req[p].sent.id /\ t = p)
  OBVIOUS
<1>4. \A q \in Slots : req'[q].sent = req[q].sent /\ req[q].sent.id \in Nat /\ req[q].pair.id \in Nat
  BY <1>1, PairTypes
<1>5. \A q \in Slots \ {p} : Carries(q)' => Carries(q)
  BY <1>1 DEF Carries
<1>6. Underway'
  <2> SUFFICES ASSUME NEW q \in Slots, Carries(q)'
      PROVE  /\ req'[q].pc = "replied" /\ req'[q].status = "ok"
             /\ req'[q].pair.id < nextPair'
             /\ req'[q].pair.id # cookie.id
             /\ \A s \in Slots : req'[s].sent.id # req'[q].pair.id
             /\ \A t \in Tabs : <<req'[q].pair.id, t>> \notin claims'
             /\ \A s \in Slots \ {q} : Carries(s)' => req'[s].pair.id # req'[q].pair.id
    BY DEF Underway, Carries
  <2>1. CASE q = p
    <3>1. \A s \in Slots \ {p} : Carries(s)' => req'[s].pair.id < nextPair /\ req'[s].pair.id \in Nat
      BY <1>1, <1>4, <1>5 DEF ReplayInv, Underway
    <3>2. \A t \in Tabs : <<nextPair, t>> \notin claims'
      BY <1>0, <1>2, <1>3, <1>4
    <3>3. \A s \in Slots : req'[s].sent.id # nextPair
      BY <1>0, <1>2, <1>4
    <3> QED
      BY <1>0, <1>1, <1>2, <2>1, <3>1, <3>2, <3>3
  <2>2. CASE q # p
    <3>1. Carries(q) /\ req'[q] = req[q] /\ req[q].pair.id \in Nat
      BY <1>1, <1>4, <1>5, <2>2
    <3>2. /\ req[q].pc = "replied" /\ req[q].status = "ok"
          /\ req[q].pair.id < nextPair
          /\ req[q].pair.id # cookie.id
          /\ \A s \in Slots : req[s].sent.id # req[q].pair.id
          /\ \A t \in Tabs : <<req[q].pair.id, t>> \notin claims
          /\ \A s \in Slots \ {q} : Carries(s) => req[s].pair.id # req[q].pair.id
      BY <3>1 DEF ReplayInv, Underway
    <3>3. \A t \in Tabs : <<req[q].pair.id, t>> \notin claims'
      BY <1>3, <3>1, <3>2
    <3>4. \A s \in Slots \ {q} : Carries(s)' => req'[s].pair.id # req[q].pair.id
      <4> SUFFICES ASSUME NEW s \in Slots \ {q}, Carries(s)' PROVE req'[s].pair.id # req[q].pair.id
        OBVIOUS
      <4>1. CASE s = p
        BY <1>0, <1>1, <3>1, <3>2, <4>1
      <4>2. CASE s # p
        BY <1>1, <1>5, <3>2, <4>2
      <4> QED
        BY <4>1, <4>2
    <3>5. req[q].pair.id < nextPair'
      BY <1>0, <3>1, <3>2
    <3> QED
      BY <1>4, <3>1, <3>2, <3>3, <3>4, <3>5
  <2> QED
    BY <2>1, <2>2
<1>7. Numbered'
  <2>1. \A n \in Nat : n < nextPair => n < nextPair'
    BY <1>0
  <2>2. \A q \in Slots : req'[q].sent.id < nextPair'
    BY <1>2, <1>4, <2>1
  <2>3. \A n \in Nat : \A t \in Tabs : <<n, t>> \in claims' => n < nextPair'
    BY <1>2, <1>3, <2>1
  <2>4. cookie'.id < nextPair'
    BY <1>0, <1>2, <2>1
  <2> QED
    BY <2>2, <2>3, <2>4 DEF Numbered
<1>8. RedeemedIsReplaced'
  <2> SUFFICES ASSUME NEW t \in Tabs, <<cookie.id, t>> \in claims' PROVE t \in lost \/ Carries(t)'
    BY DEF RedeemedIsReplaced
  <2>1. CASE t = p
    BY <1>0, <1>1, <2>1 DEF Carries
  <2>2. CASE t # p
    <3>1. <<cookie.id, t>> \in claims
      BY <1>0, <1>3, <2>2
    <3>2. t \in lost \/ Carries(t)
      BY <3>1 DEF ReplayInv, RedeemedIsReplaced
    <3> QED
      BY <1>0, <1>1, <2>2, <3>2 DEF Carries
  <2> QED
    BY <2>1, <2>2
<1>9. SentIsNew'
  <2> SUFFICES ASSUME NEW t \in Tabs, req'[t].pc = "sent", <<req'[t].sent.id, t>> \in claims'
               PROVE  t \in lost
    BY DEF SentIsNew
  <2>1. t # p
    BY <1>1
  <2>2. req'[t] = req[t] /\ req[t].sent.id \in Nat
    BY <1>0, <1>1, <1>4, <2>1
  <2>3. <<req[t].sent.id, t>> \in claims
    BY <1>3, <2>1, <2>2
  <2> QED
    BY <2>2, <2>3 DEF ReplayInv, SentIsNew
<1> QED
  BY <1>6, <1>7, <1>8, <1>9 DEF ReplayInv, NoTabReplaysItself

\* What a step that makes no tokens does to a call: nothing, or it drops what
\* the call carries, or it sends the call with the cookies.
Handles(q) ==
    \/ req'[q] = req[q]
    \/ /\ req'[q].pair = NoPair /\ req'[q].pc # "sent"
       /\ req'[q].sent \in {req[q].sent, NoPair}
       /\ req'[q].pc = "minting" => MayRenew(q)
    \/ /\ req'[q].pair = NoPair /\ req'[q].pc = "sent"
       /\ req'[q].sent = cookie' /\ req[q].pair = NoPair

LEMMA Handled ==
    ASSUME TypeInv, TypeInv', ReplayInv,
           UNCHANGED <<claims, nextPair>>, lost \subseteq lost', replays' \subseteq lost',
           \A q \in Slots : Handles(q),
           \/ cookie' = cookie
           \/ \E p \in Slots : Carries(p) /\ cookie' = req[p].pair /\ req'[p].pair = NoPair,
           \A t \in Tabs : Carries(t) => t \in lost' \/ req'[t].pair = req[t].pair \/ cookie' = req[t].pair
    PROVE  ReplayInv'
<1>1. \A q \in Slots :
         \/ req'[q].pair = NoPair
         \/ req'[q].pair = req[q].pair /\ req'[q].pc = req[q].pc /\ req'[q].status = req[q].status
  BY DEF Handles
<1>2. \A q \in Slots : req'[q].sent \in {req[q].sent, cookie', NoPair}
  BY DEF Handles
<1>3. \A t \in Tabs : req'[t].pc = "sent" =>
         \/ req[t].pc = "sent" /\ req'[t].sent = req[t].sent
         \/ req'[t].sent = cookie' /\ req[t].pair = NoPair
  BY DEF Handles, Slots
<1> QED
  BY <1>1, <1>2, <1>3, NothingMade

\* The cookies stay, and so does what calls carry.
LEMMA CookiesStay ==
    ASSUME TypeInv, TypeInv', ReplayInv,
           UNCHANGED <<claims, nextPair, cookie, lost>>, replays' \subseteq lost,
           \A q \in Slots : Handles(q) /\ (Carries(q) => req'[q] = req[q])
    PROVE  ReplayInv'
<1>1. \A t \in Tabs : Carries(t) => req'[t].pair = req[t].pair
  BY DEF Slots
<1> QED
  BY <1>1, Handled

LEMMA Unloaded ==
    ASSUME ReplayInv, NEW p \in Slots, req[p].pc # "replied"
    PROVE  req[p].pair = NoPair /\ ~Carries(p)
  BY DEF ReplayInv, Underway, Carries

LEMMA AnswerHandles ==
    ASSUME TypeInv, NEW p \in Slots, NEW s, Answer(p, s, NoPair)
    PROVE  /\ \A q \in Slots : Handles(q) /\ (q # p => req'[q] = req[q])
           /\ req'[p].pair = NoPair
<1>1. \A q \in Slots \ {p} : req'[q] = req[q]
  BY DEF Answer, TypeInv, TypeOK
<1>2. req[p] \in Call \cup {Idle} /\ req'[p] = [req[p] EXCEPT !.pc = "replied", !.status = s, !.pair = NoPair]
  BY DEF Answer, TypeInv, TypeOK
<1>3. req'[p].pc = "replied" /\ req'[p].pair = NoPair /\ req'[p].sent = req[p].sent
  BY <1>2 DEF Call, Idle
<1> QED
  BY <1>1, <1>3 DEF Handles

LEMMA GotoHandles ==
    ASSUME TypeInv, ReplayInv, NEW p \in Slots, req[p].pair = NoPair, NEW pc, pc # "sent",
           pc = "minting" => MayRenew(p), req' = [req EXCEPT ![p].pc = pc]
    PROVE  \A q \in Slots : Handles(q) /\ (q # p => req'[q] = req[q])
<1>1. \A q \in Slots \ {p} : req'[q] = req[q]
  BY DEF TypeInv, TypeOK
<1>2. req[p] \in Call \cup {Idle} /\ req'[p] = [req[p] EXCEPT !.pc = pc]
  BY DEF TypeInv, TypeOK
<1>3. req'[p].pc = pc /\ req'[p].pair = NoPair /\ req'[p].sent = req[p].sent
  BY <1>2 DEF Call, Idle
<1> QED
  BY <1>1, <1>3 DEF Handles

LEMMA SentFields ==
    ASSUME NEW x \in Call \cup {Idle}, NEW g, NEW c
    PROVE  Sent(x, g, c).pc = "sent" /\ Sent(x, g, c).pair = NoPair /\ Sent(x, g, c).sent = c
  BY DEF Sent, Call, Idle

LEMMA WithTopFields ==
    ASSUME NEW x \in Call, NEW f
    PROVE  /\ WithTop(x, f).pair = x.pair /\ WithTop(x, f).sent = x.sent
           /\ WithTop(x, f).pc = x.pc /\ WithTop(x, f).kind = x.kind
  BY DEF WithTop, Call

LEMMA RetryFields ==
    ASSUME NEW x \in Call, NEW f, NEW c
    PROVE  Retry(x, f, c).pc = "sent" /\ Retry(x, f, c).pair = NoPair /\ Retry(x, f, c).sent = c
  BY SentFields DEF Retry

LEMMA SettleHandles ==
    ASSUME TypeInv, ReplayInv, NEW p \in Slots, NEW ok, Settle(p, ok, cookie')
    PROVE  /\ \A q \in Slots : Handles(q) /\ (q # p /\ Carries(q) => req'[q] = req[q])
           /\ req'[p].pair = NoPair
<1>1. req'[p] = Idle
  BY DEF Settle
<1>2. Idle.pair = NoPair /\ Idle.pc \notin {"sent", "minting"} /\ Idle.sent = NoPair
  BY DEF Idle
<1>3. ASSUME NEW q \in Slots \ {p}
      PROVE  Handles(q) /\ (Carries(q) => req'[q] = req[q])
  <2>1. CASE req[q].pc = "await_refresh" /\ p = Tab(q) /\ ok
    <3>1. req'[q] = Retry(req[q], [Top(q) EXCEPT !.refreshed = TRUE], cookie')
      BY <1>3, <2>1 DEF Settle
    <3>2. req[q] \in Call /\ req[q].pair = NoPair /\ ~Carries(q)
      BY <2>1, CallsInFlight, Unloaded DEF InFlight
    <3> QED
      BY <3>1, <3>2, RetryFields DEF Handles
  <2>2. CASE req[q].pc = "await_refresh" /\ p = Tab(q) /\ ~ok
    <3>1. req'[q] = [req[q] EXCEPT !.pc = "denied"]
      BY <1>3, <2>2 DEF Settle
    <3>2. req[q] \in Call /\ req[q].pair = NoPair /\ ~Carries(q)
      BY <2>2, CallsInFlight, Unloaded DEF InFlight
    <3>3. req'[q].pc = "denied" /\ req'[q].pair = NoPair /\ req'[q].sent = req[q].sent
      BY <3>1, <3>2 DEF Call
    <3> QED
      BY <3>2, <3>3 DEF Handles
  <2>3. CASE req[q].pc = "await_rotation" /\ p = req[q].target
    <3>1. req'[q] = Retry(req[q], Top(q), cookie')
      BY <1>3, <2>3 DEF Settle
    <3>2. req[q] \in Call /\ req[q].pair = NoPair /\ ~Carries(q)
      BY <2>3, CallsInFlight, Unloaded DEF InFlight
    <3> QED
      BY <3>1, <3>2, RetryFields DEF Handles
  <2>4. CASE /\ ~(req[q].pc = "await_refresh" /\ p = Tab(q))
             /\ ~(req[q].pc = "await_rotation" /\ p = req[q].target)
    BY <1>3, <2>4 DEF Settle, Handles
  <2> QED
    BY <2>1, <2>2, <2>3, <2>4
<1>4. Handles(p) /\ req'[p].pair = NoPair
  BY <1>1, <1>2 DEF Handles
<1> QED
  BY <1>3, <1>4

LEMMA StartHandled ==
    ASSUME TypeInv, TypeInv', ReplayInv, NEW p \in Calls, NEW kind, start(p, kind)
    PROVE  ReplayInv'
<1> DEFINE x == Sent([Idle EXCEPT !.kind = kind], <<NewFrame>>, cookie)
<1>1. req[p].pc = "idle" /\ p \in Slots
  BY DEF start, InFlight, Slots
<1>2. req[p].pair = NoPair /\ ~Carries(p)
  BY <1>1, Unloaded
<1>3. x.pc = "sent" /\ x.pair = NoPair /\ x.sent = cookie
  BY DEF Sent, Idle
<1>4. req' = [req EXCEPT ![p] = x]
  BY DEF start
<1> HIDE DEF x
<1>5. UNCHANGED <<claims, nextPair, cookie, lost, replays>>
  BY DEF start, serverVars
<1>6. \A q \in Slots : Handles(q) /\ (Carries(q) => req'[q] = req[q])
  BY <1>1, <1>2, <1>3, <1>4, <1>5 DEF Handles, TypeInv, TypeOK
<1>7. replays' \subseteq lost
  BY <1>5 DEF ReplayInv, NoTabReplaysItself
<1> QED
  BY <1>5, <1>6, <1>7, CookiesStay

\* The server answers without new tokens.
LEMMA AnswerHandled ==
    ASSUME TypeInv, TypeInv', ReplayInv, NEW p \in Slots, req[p].pc # "replied",
           NEW s, Answer(p, s, NoPair),
           UNCHANGED <<claims, nextPair, cookie, lost>>, replays' \subseteq lost
    PROVE  ReplayInv'
<1>1. ~Carries(p)
  BY Unloaded
<1>2. \A q \in Slots : Handles(q) /\ (Carries(q) => req'[q] = req[q])
  BY <1>1, AnswerHandles
<1> QED
  BY <1>2, CookiesStay

\* A call moves on at the server or in its tab.
LEMMA MoveHandled ==
    ASSUME TypeInv, TypeInv', ReplayInv, NEW p \in Slots, req[p].pair = NoPair,
           NEW pc, pc # "sent", pc = "minting" => MayRenew(p), req' = [req EXCEPT ![p].pc = pc],
           UNCHANGED <<claims, nextPair, cookie, lost, replays>>
    PROVE  ReplayInv'
<1>1. \A q \in Slots : Handles(q) /\ (Carries(q) => req'[q] = req[q])
  BY GotoHandles DEF Carries
<1>2. replays' \subseteq lost
  BY DEF ReplayInv, NoTabReplaysItself
<1> QED
  BY <1>1, <1>2, CookiesStay

LEMMA ServeHandled ==
    ASSUME TypeInv, TypeInv', ReplayInv, NEW p \in Slots, Serve(p)
    PROVE  ReplayInv'
<1>1. req[p].pc \in {"sent", "minting"}
  BY DEF Serve, serve, update_my_profile, create_tokens, refresh_tokens
<1>2. req[p].pair = NoPair
  BY <1>1, Unloaded
<1>3. UNCHANGED <<cookie, lost>>
  BY DEF Serve, serve, update_my_profile, create_tokens, refresh_tokens, browserVars, historyVars
<1>4. replays \subseteq lost
  BY DEF ReplayInv, NoTabReplaysItself
<1>5. CASE serve(p)
  <2>1. (\E s : Answer(p, s, NoPair)) /\ UNCHANGED <<claims, nextPair, replays>>
    BY <1>5 DEF serve, serverVars
  <2> QED
    BY <1>1, <1>3, <1>4, <2>1, AnswerHandled
<1>6. CASE update_my_profile(p)
  <2>1. UNCHANGED <<claims, nextPair, replays>>
    BY <1>6 DEF update_my_profile
  <2>2. \/ req' = [req EXCEPT ![p].pc = "minting"] /\ MayRenew(p)
        \/ \E s : Answer(p, s, NoPair)
    BY <1>6 DEF update_my_profile, MayRenew
  <2>3. CASE req' = [req EXCEPT ![p].pc = "minting"] /\ MayRenew(p)
    BY <1>2, <1>3, <2>1, <2>3, MoveHandled
  <2>4. ASSUME NEW s, Answer(p, s, NoPair) PROVE ReplayInv'
    BY <1>1, <1>3, <1>4, <2>1, <2>4, AnswerHandled
  <2> QED
    BY <2>2, <2>3, <2>4
<1>7. CASE create_tokens(p)
  <2>1. UNCHANGED <<claims, replays>>
    BY <1>7 DEF create_tokens
  <2>2. CASE Answer(p, "ok", NewPair) /\ nextPair' = nextPair + 1
    BY <1>2, <1>3, <2>1, <2>2, PairMade
  <2>3. CASE Answer(p, "other", NoPair) /\ UNCHANGED nextPair
    BY <1>1, <1>3, <1>4, <2>1, <2>3, AnswerHandled
  <2> QED
    BY <1>7, <2>2, <2>3 DEF create_tokens
<1>8. CASE p \in Tabs /\ refresh_tokens(p)
  <2>1. CASE /\ Answer(p, "ok", NewPair) /\ nextPair' = nextPair + 1 /\ UNCHANGED replays
             /\ claims' = claims \cup {<<req[p].sent.id, p>>}
    BY <1>2, <1>3, <1>8, <2>1, PairMade
  <2>2. CASE (\E s : Answer(p, s, NoPair)) /\ UNCHANGED <<claims, nextPair, replays>>
    BY <1>1, <1>3, <1>4, <2>2, AnswerHandled
  <2>3. CASE /\ Answer(p, "401", NoPair) /\ UNCHANGED <<claims, nextPair>>
             /\ replays' = IF <<req[p].sent.id, p>> \in claims THEN replays \cup {p} ELSE replays
    <3>1. <<req[p].sent.id, p>> \in claims => p \in lost
      BY <1>8 DEF refresh_tokens, ReplayInv, SentIsNew
    <3>2. replays' \subseteq lost
      BY <1>4, <2>3, <3>1
    <3> QED
      BY <1>1, <1>3, <2>3, <3>2, AnswerHandled
  <2> QED
    BY <1>8, <2>1, <2>2, <2>3 DEF refresh_tokens, serverVars
<1> QED
  BY <1>5, <1>6, <1>7, <1>8 DEF Serve

\* A call that has got an answer waits, or passes its error on.
LEMMA TabHandles ==
    ASSUME TypeInv, ReplayInv, NEW p \in Slots,
           refreshSession(p) \/ awaitRotation(p) \/ giveUp(p) \/ caught(p) \/ reject(p)
    PROVE  \A q \in Slots : Handles(q) /\ (Carries(q) => req'[q] = req[q])
<1>1. CASE refreshSession(p)
  <2> DEFINE t == Tab(p)
             x == [WithTop(req[p], [Top(p) EXCEPT !.in = "refresh"]) EXCEPT !.pc = "await_refresh"]
             y == Sent([Idle EXCEPT !.kind = "refresh"], <<NewFrame>>, cookie)
  <2>1. req[p].pc = "refused" /\ cookie' = cookie /\ p \in Calls
    BY <1>1 DEF refreshSession, browserVars, Eligible
  <2>2. req[p] \in Call /\ req[p].pair = NoPair /\ ~Carries(p)
    BY <2>1, CallsInFlight, Unloaded DEF InFlight
  <2>3. t \in Slots /\ t # p
    BY <2>1, TabType, LifecycleAssumption DEF Slots
  <2>4. x.pc = "await_refresh" /\ x.pair = NoPair /\ x.sent = req[p].sent
    <3>1. \A f : /\ [WithTop(req[p], f) EXCEPT !.pc = "await_refresh"].pc = "await_refresh"
                 /\ [WithTop(req[p], f) EXCEPT !.pc = "await_refresh"].pair = req[p].pair
                 /\ [WithTop(req[p], f) EXCEPT !.pc = "await_refresh"].sent = req[p].sent
      BY <2>2 DEF WithTop, Call
    <3> QED
      BY <2>2, <3>1
  <2>5. y.pc = "sent" /\ y.pair = NoPair /\ y.sent = cookie
    BY DEF Sent, Idle
  <2>6. req' = [req EXCEPT ![p] = x, ![t] = IF InFlight(t) THEN req[t] ELSE y]
    BY <1>1, <2>3 DEF refreshSession, TypeInv, TypeOK
  <2> HIDE DEF x, y, t
  <2>7. /\ req'[p] = x /\ req'[t] = IF InFlight(t) THEN req[t] ELSE y
        /\ \A q \in Slots \ {p, t} : req'[q] = req[q]
    BY <2>3, <2>6 DEF TypeInv, TypeOK
  <2>8. ~InFlight(t) => req[t].pair = NoPair /\ ~Carries(t)
    BY <2>3, Unloaded DEF InFlight
  <2>9. \A q \in Slots : Handles(q) /\ (Carries(q) => req'[q] = req[q])
    BY <2>1, <2>2, <2>4, <2>5, <2>7, <2>8 DEF Handles
  <2> QED
    BY <2>9
<1>2. CASE awaitRotation(p)
  <2> DEFINE x == [WithTop(req[p], [Top(p) EXCEPT !.rotated = TRUE, !.in = "rotation"])
                     EXCEPT !.pc = "await_rotation", !.target = pendingRotation[Tab(p)]]
  <2>1. req[p].pc \in {"denied", "refused"} /\ cookie' = cookie
    BY <1>2 DEF awaitRotation, browserVars
  <2>2. req[p] \in Call /\ req[p].pair = NoPair /\ ~Carries(p)
    BY <2>1, CallsInFlight, Unloaded DEF InFlight
  <2>3. x.pc = "await_rotation" /\ x.pair = NoPair /\ x.sent = req[p].sent
    <3>1. \A f, c : LET z == [WithTop(req[p], f) EXCEPT !.pc = "await_rotation", !.target = c]
                    IN  z.pc = "await_rotation" /\ z.pair = req[p].pair /\ z.sent = req[p].sent
      BY <2>2 DEF WithTop, Call
    <3> QED
      BY <2>2, <3>1
  <2>4. req' = [req EXCEPT ![p] = x]
    BY <1>2 DEF awaitRotation
  <2> HIDE DEF x
  <2>5. \A q \in Slots : Handles(q) /\ (Carries(q) => req'[q] = req[q])
    BY <2>2, <2>3, <2>4 DEF Handles, TypeInv, TypeOK
  <2> QED
    BY <2>5
<1>3. CASE giveUp(p)
  <2>1. req[p].pc \in {"denied", "refused"} /\ req' = [req EXCEPT ![p].pc = "rejected"]
    BY <1>3 DEF giveUp
  <2>2. req[p].pair = NoPair /\ ~Carries(p)
    BY <2>1, Unloaded
  <2>3. \A q \in Slots : Handles(q) /\ (q # p => req'[q] = req[q])
    <3> DEFINE pc == "rejected"
    <3>1. pc # "sent" /\ pc # "minting" /\ req' = [req EXCEPT ![p].pc = pc]
      BY <2>1
    <3> HIDE DEF pc
    <3> QED
      BY <2>2, <3>1, GotoHandles
  <2> QED
    BY <2>2, <2>3
<1>4. CASE caught(p)
  <2>1. req[p].pc = "rejected" /\ cookie' = cookie
    BY <1>4 DEF caught
  <2>2. req[p] \in Call /\ req[p].pair = NoPair /\ ~Carries(p)
    BY <2>1, CallsInFlight, Unloaded DEF InFlight
  <2> DEFINE g == SubSeq(req[p].frames, 1, Len(req[p].frames) - 1)
             pc == IF g[Len(g)].in = "refresh" THEN "denied" ELSE "rejected"
             x == [req[p] EXCEPT !.frames = g, !.pc = pc]
  <2>3. req' = [req EXCEPT ![p].frames = g, ![p].pc = pc]
    BY <1>4 DEF caught
  <2>a. pc # "sent" /\ pc # "minting"
    OBVIOUS
  <2> HIDE DEF g, pc
  <2>4. x.pc = pc /\ x.pair = NoPair /\ x.sent = req[p].sent
    BY <2>2 DEF Call
  <2>5. req' = [req EXCEPT ![p] = x]
    BY <2>3
  <2> HIDE DEF x
  <2>6. \A q \in Slots : Handles(q) /\ (Carries(q) => req'[q] = req[q])
    BY <2>2, <2>a, <2>4, <2>5 DEF Handles, TypeInv, TypeOK
  <2> QED
    BY <2>6
<1>5. CASE reject(p)
  <2>1. cookie' = cookie /\ Settle(p, FALSE, cookie') /\ req[p].pc = "rejected"
    BY <1>5 DEF reject
  <2>2. ~Carries(p)
    BY <2>1, Unloaded
  <2> QED
    BY <2>1, <2>2, SettleHandles
<1> QED
  BY <1>1, <1>2, <1>3, <1>4, <1>5

LEMMA ReactHandled ==
    ASSUME TypeInv, TypeInv', ReplayInv, NEW p \in Slots, React(p)
    PROVE  ReplayInv'
<1>1. UNCHANGED <<claims, nextPair, lost, replays>>
  BY DEF React, receive, refreshSession, awaitRotation, giveUp, caught, reject,
     serverVars, historyVars
<1>2. replays' \subseteq lost'
  BY <1>1 DEF ReplayInv, NoTabReplaysItself
<1>3. CASE receive(p)
  <2>1. CASE req[p].status = "ok"
    <3>1. Settle(p, TRUE, cookie') /\ cookie' = IF req[p].pair = NoPair THEN cookie ELSE req[p].pair
      BY <1>3, <2>1 DEF receive
    <3>2. /\ \A q \in Slots : Handles(q) /\ (q # p /\ Carries(q) => req'[q] = req[q])
          /\ req'[p].pair = NoPair
      BY <3>1, SettleHandles
    <3>3. \/ cookie' = cookie
          \/ \E r \in Slots : Carries(r) /\ cookie' = req[r].pair /\ req'[r].pair = NoPair
      BY <3>1, <3>2 DEF Carries
    <3>4. \A t \in Tabs : Carries(t) => req'[t].pair = req[t].pair \/ cookie' = req[t].pair
      BY <3>1, <3>2 DEF Carries, Slots
    <3> QED
      BY <1>1, <1>2, <3>2, <3>3, <3>4, Handled
  <2>2. CASE req[p].status # "ok"
    <3>1. req[p].pair = NoPair
      BY <2>2 DEF ReplayInv, Underway, Carries
    <3>2. /\ cookie' = cookie
          /\ \/ req' = [req EXCEPT ![p].pc = "refused"]
             \/ req' = [req EXCEPT ![p].pc = "rejected"]
      BY <1>3, <2>2 DEF receive
    <3> QED
      BY <1>1, <3>1, <3>2, MoveHandled
  <2> QED
    BY <2>1, <2>2
<1>4. CASE refreshSession(p) \/ awaitRotation(p) \/ giveUp(p) \/ caught(p) \/ reject(p)
  <2>1. cookie' = cookie
    BY <1>4 DEF refreshSession, awaitRotation, giveUp, caught, reject, browserVars
  <2> QED
    BY <1>1, <1>2, <1>4, <2>1, TabHandles, CookiesStay
<1> QED
  BY <1>3, <1>4 DEF React

LEMMA LoseHandled ==
    ASSUME TypeInv, TypeInv', ReplayInv, NEW p \in Slots, lose(p)
    PROVE  ReplayInv'
<1>1. UNCHANGED <<claims, nextPair, cookie, replays>> /\ lost' = lost \cup {Tab(p)}
  BY DEF lose, serverVars, browserVars
<1>2. /\ \A q \in Slots : Handles(q) /\ (q # p => req'[q] = req[q])
  BY AnswerHandles DEF lose
<1>3. \A t \in Tabs : t \in lost' \/ req'[t].pair = req[t].pair
  BY <1>1, <1>2 DEF Tab, Slots
<1>4. replays' \subseteq lost'
  BY <1>1 DEF ReplayInv, NoTabReplaysItself
<1> QED
  BY <1>1, <1>2, <1>3, <1>4, Handled

LEMMA NextHandled == TypeInv /\ TypeInv' /\ ReplayInv /\ [Next]_vars => ReplayInv'
<1> SUFFICES ASSUME TypeInv, TypeInv', ReplayInv, [Next]_vars PROVE ReplayInv'
  OBVIOUS
<1>1. CASE revoke_elsewhere \/ expire_access \/ UNCHANGED vars
  <2>1. UNCHANGED <<claims, nextPair, cookie, lost, replays, req>>
    BY <1>1 DEF revoke_elsewhere, expire_access, vars, browserVars, serverVars, historyVars
  <2> QED
    BY <2>1 DEF ReplayInv, Underway, Numbered, RedeemedIsReplaced, SentIsNew,
       NoTabReplaysItself, Carries
<1> QED
  BY <1>1, StartHandled, ServeHandled, ReactHandled, LoseHandled DEF Next

LEMMA InitHandled == Init => ReplayInv
  BY DEF Init, ReplayInv, Underway, Numbered, RedeemedIsReplaced, SentIsNew,
     NoTabReplaysItself, Carries, Idle, NoPair

\* The interceptor keeps a tab from ending its own session: it never presents
\* a refresh token it has redeemed before, unless the answer was lost.
THEOREM TabsDoNotReplay == Spec => []NoTabReplaysItself
<1>1. ReplayInv => NoTabReplaysItself
  BY DEF ReplayInv
<1> QED
  BY <1>1, InitHandled, InitType, NextType, NextHandled, PTL DEF Spec

-----------------------------------------------------------------------------
(* A tab gives up only for a reason.                                       *)

\* Nothing but the caller, or the interceptor around it, is left for its error.
Closing(p) ==
    \/ req[p].pc = "denied"
    \/ req[p].pc = "rejected" /\ (Len(req[p].frames) > 1 \/ req[p].kind = "me" \/ p \in Tabs)

\* What is on its way for a call: it was sent with tokens the server has made,
\* and a 401 is for tokens that are stale or, but for a refresh, expired.
Due(p) ==
    /\ p \in Tabs => req[p].kind \in {"none", "refresh"}
    /\ p \in Calls => req[p].kind # "refresh"
    /\ req[p].sent.version <= version
    /\ req[p].pair.version <= version
    /\ req[p].pc \in {"replied", "refused"} /\ req[p].status = "401" =>
         req[p].sent.version < version \/ (p \in Calls /\ req[p].sent.id \in expired)

Sound == cookie.version <= version /\ \A p \in Slots : Due(p)

\* The tab is still at the answer by which a call was refused.
AtRefusal == \A p \in Slots : req[p].pc = "refused" => last = AnswerOf(p) /\ req[p].status = "401"

Reasons == \A p \in Slots : Closing(p) => Reason(Tab(p))

Grounds == Sound /\ AtRefusal /\ Reasons

LEMMA DueTypes ==
    ASSUME TypeInv, NEW p \in Slots
    PROVE  /\ req[p].sent.version \in Nat /\ req[p].pair.version \in Nat
           /\ version \in Nat /\ cookie.version \in Nat /\ cookie.id \in Nat
           /\ NoPair.version = 0 /\ NoPair.id = 0
  BY DEF TypeInv, TypeOK, Call, Idle, Pair, NoPair

\* A call that does not move stays sound while versions grow.
LEMMA DueKept ==
    ASSUME TypeInv, TypeInv', NEW p \in Slots, Due(p), req'[p] = req[p],
           version <= version', expired \subseteq expired'
    PROVE  Due(p)'
<1>0. version' \in Nat
  BY DEF TypeInv, TypeOK
<1>1. /\ req[p].sent.version \in Nat /\ req[p].pair.version \in Nat
      /\ version \in Nat
  BY DueTypes
<1> QED
  BY <1>0, <1>1 DEF Due

\* So does one that moves and brings nothing.
LEMMA DueMoved ==
    ASSUME TypeInv, TypeInv', NEW p \in Slots, Due(p), version <= version',
           cookie'.version <= version', req'[p].pair = NoPair,
           req'[p].sent \in {req[p].sent, cookie', NoPair},
           req'[p].pc \notin {"replied", "refused"} \/ req'[p].status = "other",
           req'[p].kind \in {req[p].kind, "none"}
             \/ (IF p \in Tabs THEN req'[p].kind = "refresh" ELSE req'[p].kind # "refresh")
    PROVE  Due(p)'
<1>0. version' \in Nat
  BY DEF TypeInv, TypeOK
<1>1. req[p].sent.version \in Nat /\ version \in Nat /\ NoPair.version = 0
  BY DueTypes
<1>2. p \in Calls => p \notin Tabs
  BY LifecycleAssumption
<1> QED
  BY <1>0, <1>1, <1>2 DEF Due

-----------------------------------------------------------------------------
\* No call is on its way to new cookies that was not before.
NoNewRenewal == \A q \in Calls : ~Live' /\ MayRenew(q)' => MayRenew(q)

\* A call that may bring valid cookies was sent with valid ones, or is already
\* past the server.
LEMMA RenewalKept ==
    ASSUME TypeInv, TypeInv', NEW q \in Slots, Due(q), Handles(q),
           version <= version', expired \subseteq expired', ~Live', MayRenew(q)'
    PROVE  MayRenew(q)
<1>1. /\ req[q].sent.version \in Nat /\ req[q].pair.version \in Nat
      /\ version \in Nat /\ version' \in Nat
  BY DueTypes DEF TypeInv, TypeOK
<1>2. CASE req'[q] = req[q]
  <2>1. req[q].sent.version <= version /\ req[q].pair.version <= version
    BY DEF Due
  <2>2. Current(req[q].sent)' => Current(req[q].sent)
    BY <1>1, <1>2, <2>1 DEF Current
  <2>3. Current(req[q].pair)' => Current(req[q].pair)
    BY <1>1, <1>2, <2>1 DEF Current
  <2>4. Admitted(req[q].sent)' => Admitted(req[q].sent)
    BY <1>2, <2>2 DEF Admitted
  <2> QED
    BY <1>2, <2>2, <2>3, <2>4 DEF MayRenew
<1>3. CASE req'[q].pair = NoPair /\ req'[q].pc # "sent" /\ (req'[q].pc = "minting" => MayRenew(q))
  BY <1>3 DEF MayRenew
<1>4. CASE req'[q].pair = NoPair /\ req'[q].pc = "sent" /\ req'[q].sent = cookie'
  BY <1>4 DEF MayRenew, Admitted, Current, Live
<1> QED
  BY <1>2, <1>3, <1>4 DEF Handles

\* A reason stays one while the tab is at the same answer.
LEMMA ReasonKept ==
    ASSUME TypeInv, TypeInv', Sound, NEW t \in Tabs, Reason(t), UNCHANGED <<last, cookie>>,
           version <= version', expired \subseteq expired',
           pendingRotation'[t] \in {pendingRotation[t], NoCall}, NoNewRenewal
    PROVE  Reason(t)'
<1>1. cookie.version \in Nat /\ version \in Nat /\ version' \in Nat /\ cookie.version <= version
  BY DEF TypeInv, TypeOK, Pair, Sound
<1>2. ~Live => ~Live'
  BY <1>1 DEF Live, Current
<1>3. pendingRotation[t] \in Calls \cup {NoCall} /\ NoCall \notin Slots
  BY LifecycleAssumption DEF TypeInv, TypeOK
<1>4. CASE RenewedUnguarded(t) \/ SessionOver
  <2>1. ~Live /\ ~MayRenew(pendingRotation[t])
    BY <1>4 DEF RenewedUnguarded, SessionOver, MayRenew
  <2>2. ~MayRenew(pendingRotation[t])'
    <3>1. CASE pendingRotation'[t] = NoCall
      BY <1>3, <3>1 DEF MayRenew
    <3>2. CASE pendingRotation'[t] = pendingRotation[t] /\ pendingRotation[t] # NoCall
      <4>1. PICK r \in Calls : pendingRotation'[t] = r /\ ~MayRenew(r)
        BY <1>3, <2>1, <3>2
      <4>2. ~MayRenew(r)'
        BY <1>2, <2>1, <4>1 DEF NoNewRenewal
      <4> QED
        BY <4>1, <4>2 DEF MayRenew
    <3> QED
      BY <3>1, <3>2
  <2>3. RenewedUnguarded(t)'
    BY <1>2, <2>1, <2>2 DEF RenewedUnguarded
  <2>4. SessionOver' \/ RenewedElsewhere(t)' \/ RenewedAside(t)'
    <3>1. CASE \A p \in Slots : ~MayRenew(p)'
      BY <1>2, <2>1, <3>1 DEF SessionOver
    <3>2. ASSUME NEW p \in Slots, MayRenew(p)' PROVE RenewedElsewhere(t)' \/ RenewedAside(t)'
      BY <2>3, <3>2 DEF RenewedElsewhere, RenewedAside, Tab
    <3> QED
      BY <3>1, <3>2
  <2> QED
    BY <2>4 DEF Reason
<1>5. CASE ~(RenewedUnguarded(t) \/ SessionOver)
  BY <1>2, <1>5 DEF Reason, RenewedElsewhere, RenewedAside
<1> QED
  BY <1>4, <1>5

-----------------------------------------------------------------------------
LEMMA QuietNoneClosing == ASSUME Quiet, NEW p \in Slots PROVE ~Closing(p) /\ req[p].pc # "refused"
  BY DEF Quiet, Closing

LEMMA SameClosing ==
    ASSUME NEW p \in Slots, req'[p] = req[p]
    PROVE  (Closing(p)' <=> Closing(p)) /\ AnswerOf(p)' = AnswerOf(p)
  BY DEF Closing, AnswerOf, Top, Tab

\* A step after which no call is refused or about to close its tab.
LEMMA NoneClosing ==
    ASSUME cookie'.version <= version', \A q \in Slots : Due(q)',
           \A q \in Slots : ~Closing(q)' /\ req'[q].pc # "refused"
    PROVE  Grounds'
  BY DEF Grounds, Sound, AtRefusal, Reasons

\* A step of the server, or of a tab that is still at the same answer.
LEMMA StillGrounded ==
    ASSUME TypeInv, TypeInv', Grounds, UNCHANGED <<last, cookie>>,
           version <= version', expired \subseteq expired',
           \A t \in Tabs : pendingRotation'[t] \in {pendingRotation[t], NoCall}, NoNewRenewal,
           \A q \in Slots : Due(q)',
           \A q \in Slots : req'[q].pc = "refused" => req'[q] = req[q],
           \A q \in Slots : Closing(q)' => Reason(Tab(q))
    PROVE  Grounds'
<1>1. Sound'
  BY DEF Grounds, Sound, TypeInv, TypeOK, Pair
<1>2. AtRefusal'
  BY SameClosing DEF Grounds, AtRefusal
<1>3. ASSUME NEW q \in Slots, Closing(q)' PROVE Reason(Tab(q))'
  <2>1. Tab(q) \in Tabs /\ Reason(Tab(q))
    BY <1>3, TabType
  <2>2. ASSUME NEW t \in Tabs, Reason(t) PROVE Reason(t)'
    BY <2>2, ReasonKept DEF Grounds
  <2>3. PICK t \in Tabs : t = Tab(q)
    BY <2>1
  <2>4. Reason(t)'
    BY <2>1, <2>2, <2>3
  <2> QED
    BY <2>3, <2>4 DEF Reason, RenewedElsewhere, RenewedAside, RenewedUnguarded, Tab
<1> QED
  BY <1>1, <1>2, <1>3 DEF Grounds, Reasons

\* One call moves, and is not about to close its tab without a reason.
LEMMA OneGrounded ==
    ASSUME TypeInv, TypeInv', Grounds, NEW p \in Slots,
           \A q \in Slots \ {p} : req'[q] = req[q], Handles(p), Due(p)',
           version <= version', UNCHANGED <<last, cookie, expired, pendingRotation>>,
           req'[p].pc # "refused", Closing(p)' => Reason(Tab(p))
    PROVE  Grounds'
<1>1. \A q \in Slots : Due(q)'
  BY DueKept DEF Grounds, Sound
<1>2. NoNewRenewal
  BY RenewalKept DEF NoNewRenewal, Grounds, Sound, Handles, Slots
<1>3. \A q \in Slots : Closing(q)' => Reason(Tab(q))
  BY SameClosing DEF Grounds, Reasons
<1> QED
  BY <1>1, <1>2, <1>3, StillGrounded

LEMMA StartGrounded ==
    ASSUME TypeInv, TypeInv', Grounds, NEW p \in Calls,
           NEW kind \in {"me", "page", "password"}, start(p, kind)
    PROVE  Grounds'
<1> DEFINE x == Sent([Idle EXCEPT !.kind = kind], <<NewFrame>>, cookie)
<1>1. x.pc = "sent" /\ x.pair = NoPair /\ x.sent = cookie /\ x.kind = kind
  BY DEF Sent, Idle
<1>2. p \in Slots /\ p \notin Tabs /\ Quiet /\ req' = [req EXCEPT ![p] = x]
  BY LifecycleAssumption DEF start, Slots
<1> HIDE DEF x
<1>3. req'[p] = x /\ \A q \in Slots \ {p} : req'[q] = req[q]
  BY <1>2 DEF TypeInv, TypeOK
<1>4. UNCHANGED <<version, cookie, expired>>
  BY DEF start, serverVars
<1>5. version <= version' /\ cookie'.version <= version'
  BY <1>4 DEF TypeInv, TypeOK, Grounds, Sound
<1>6. Due(p)'
  BY <1>1, <1>2, <1>3, <1>4, <1>5, DueMoved DEF Grounds, Sound
<1>7. \A q \in Slots : Due(q)'
  BY <1>3, <1>4, <1>5, <1>6, DueKept DEF Grounds, Sound
<1>8. \A q \in Slots : ~Closing(q)' /\ req'[q].pc # "refused"
  BY <1>1, <1>2, <1>3, QuietNoneClosing, SameClosing DEF Closing
<1> QED
  BY <1>5, <1>7, <1>8, NoneClosing

LEMMA AnswerFields ==
    ASSUME TypeInv, NEW p \in Slots, NEW s, NEW pair, Answer(p, s, pair)
    PROVE  /\ req'[p].pc = "replied" /\ req'[p].status = s /\ req'[p].pair = pair
           /\ req'[p].kind = req[p].kind /\ req'[p].sent = req[p].sent
           /\ \A q \in Slots \ {p} : req'[q] = req[q]
<1>1. req[p] \in Call \cup {Idle} /\ req'[p] = [req[p] EXCEPT !.pc = "replied", !.status = s, !.pair = pair]
  BY DEF Answer, TypeInv, TypeOK
<1>2. \A q \in Slots \ {p} : req'[q] = req[q]
  BY DEF Answer, TypeInv, TypeOK
<1> QED
  BY <1>1, <1>2 DEF Call, Idle

\* The server answers without new tokens: nobody gives up yet.
LEMMA AnswerGrounded ==
    ASSUME TypeInv, TypeInv', Grounds, NEW p \in Slots, NEW s, Answer(p, s, NoPair),
           version <= version', UNCHANGED <<last, cookie, expired, pendingRotation>>, Due(p)'
    PROVE  Grounds'
<1>1. Handles(p) /\ \A q \in Slots \ {p} : req'[q] = req[q]
  BY AnswerHandles
<1>2. req'[p].pc = "replied"
  BY AnswerFields
<1>3. ~Closing(p)'
  BY <1>2 DEF Closing
<1> QED
  BY <1>1, <1>2, <1>3, OneGrounded

\* Or with new tokens, which is no news for the tab.
LEMMA NewPairGrounded ==
    ASSUME TypeInv, TypeInv', Grounds, NEW p \in Slots, Answer(p, "ok", NewPair),
           p \in Calls => MayRenew(p),
           UNCHANGED <<version, last, cookie, expired, pendingRotation>>
    PROVE  Grounds'
<1>1. /\ req'[p].pc = "replied" /\ req'[p].status = "ok" /\ req'[p].pair = NewPair
      /\ req'[p].kind = req[p].kind /\ req'[p].sent = req[p].sent
      /\ \A q \in Slots \ {p} : req'[q] = req[q]
  BY AnswerFields
<1>2. NewPair.version = version /\ version \in Nat /\ version <= version'
  BY DEF NewPair, TypeInv, TypeOK
<1>3. Due(p)'
  BY <1>1, <1>2 DEF Due, Grounds, Sound
<1>4. \A q \in Slots : Due(q)'
  BY <1>1, <1>2, <1>3, DueKept DEF Grounds, Sound
<1>5. ASSUME NEW q \in Calls, ~Live', MayRenew(q)' PROVE MayRenew(q)
  <2>1. CASE q = p
    BY <2>1
  <2>2. CASE q # p
    <3>1. q \in Slots /\ Handles(q)
      BY <1>1, <2>2 DEF Handles, Slots
    <3> QED
      BY <1>2, <1>5, <3>1, RenewalKept DEF Grounds, Sound
  <2> QED
    BY <2>1, <2>2
<1>6. \A q \in Slots : Closing(q)' => Reason(Tab(q))
  BY <1>1, SameClosing DEF Grounds, Reasons, Closing
<1> QED
  BY <1>1, <1>2, <1>4, <1>5, <1>6, StillGrounded DEF NoNewRenewal

\* An error is never out of place.
LEMMA ErrorDue ==
    ASSUME TypeInv, TypeInv', Grounds, NEW p \in Slots, Answer(p, "other", NoPair),
           version <= version', UNCHANGED cookie
    PROVE  Due(p)'
<1>1. cookie'.version <= version'
  BY DEF TypeInv, TypeOK, Pair, Grounds, Sound
<1> QED
  BY <1>1, AnswerFields, DueMoved DEF Grounds, Sound

\* A 401 is for stale tokens, or expired ones.
LEMMA RefusalDue ==
    ASSUME TypeInv, TypeInv', Grounds, NEW p \in Slots, Answer(p, "401", NoPair),
           UNCHANGED <<expired>>, version <= version',
           req[p].sent.version < version' \/ (p \in Calls /\ req[p].sent.id \in expired)
    PROVE  Due(p)'
<1>0. version' \in Nat
  BY DEF TypeInv, TypeOK
<1>1. /\ req'[p].pc = "replied" /\ req'[p].status = "401" /\ req'[p].pair = NoPair
      /\ req'[p].kind = req[p].kind /\ req'[p].sent = req[p].sent
  BY AnswerFields
<1>2. req[p].sent.version \in Nat /\ version \in Nat /\ NoPair.version = 0
  BY DueTypes
<1> QED
  BY <1>0, <1>1, <1>2 DEF Due, Grounds, Sound

\* What is not admitted is stale or has expired.
LEMMA NotAdmitted ==
    ASSUME TypeInv, Grounds, NEW p \in Slots, ~Admitted(req[p].sent)
    PROVE  req[p].sent.version < version \/ req[p].sent.id \in expired
<1>1. req[p].sent.version \in Nat /\ version \in Nat /\ req[p].sent.version <= version
  BY DueTypes DEF Grounds, Sound, Due
<1> QED
  BY <1>1 DEF Admitted, Current

LEMMA ServeGrounded ==
    ASSUME TypeInv, TypeInv', ReplayInv, Grounds, NEW p \in Slots, Serve(p)
    PROVE  Grounds'
<1>1. UNCHANGED <<last, cookie, expired, pendingRotation>>
  BY DEF Serve, serve, update_my_profile, create_tokens, refresh_tokens, browserVars, historyVars
<1>2. version \in Nat /\ version' \in Nat
  BY DEF TypeInv, TypeOK
<1>3. req[p].kind \notin {"none", "refresh"} => p \in Calls
  BY DEF Grounds, Sound, Due, Slots
<1>4. CASE serve(p)
  <2>1. version' = version /\ version <= version' /\ p \in Calls
    BY <1>2, <1>3, <1>4 DEF serve, serverVars
  <2>2. CASE Answer(p, "ok", NoPair)
    <3>1. /\ req'[p].pc = "replied" /\ req'[p].status = "ok" /\ req'[p].pair = NoPair
          /\ req'[p].kind = req[p].kind /\ req'[p].sent = req[p].sent
      BY <2>2, AnswerFields
    <3>2. Due(p)'
      BY <1>2, <2>1, <3>1, DueTypes DEF Due, Grounds, Sound
    <3> QED
      BY <1>1, <2>1, <2>2, <3>2, AnswerGrounded
  <2>3. CASE Answer(p, "401", NoPair) /\ ~Admitted(req[p].sent)
    BY <1>1, <2>1, <2>3, NotAdmitted, RefusalDue, AnswerGrounded
  <2>4. CASE Answer(p, "other", NoPair)
    BY <1>1, <2>1, <2>4, ErrorDue, AnswerGrounded
  <2> QED
    BY <1>4, <2>2, <2>3, <2>4 DEF serve
<1>5. CASE update_my_profile(p)
  <2>1. version <= version' /\ p \in Calls /\ req[p].pc = "sent"
    BY <1>2, <1>3, <1>5 DEF update_my_profile
  <2>2. CASE req' = [req EXCEPT ![p].pc = "minting"] /\ Admitted(req[p].sent)
    <3>1. req[p].pair = NoPair /\ MayRenew(p)
      BY <1>5, <2>1, <2>2, Unloaded DEF MayRenew, update_my_profile
    <3>2. Handles(p)
      <4> DEFINE pc == "minting"
      <4>1. pc # "sent" /\ req' = [req EXCEPT ![p].pc = pc]
        BY <2>2
      <4> HIDE DEF pc
      <4> QED
        BY <3>1, <4>1, GotoHandles
    <3>3. /\ \A q \in Slots \ {p} : req'[q] = req[q]
          /\ req[p] \in Call /\ req'[p] = [req[p] EXCEPT !.pc = "minting"]
      BY <2>1, <2>2, CallsInFlight DEF TypeInv, TypeOK, InFlight
    <3>4. /\ req'[p].pc = "minting" /\ req'[p].pair = NoPair /\ req'[p].sent = req[p].sent
          /\ req'[p].kind = req[p].kind
      BY <3>1, <3>3 DEF Call
    <3>5. cookie'.version <= version'
      BY <1>1, <1>2, <2>1 DEF TypeInv, TypeOK, Pair, Grounds, Sound
    <3>6. Due(p)' /\ ~Closing(p)'
      BY <2>1, <3>4, <3>5, DueMoved DEF Grounds, Sound, Closing
    <3> QED
      BY <1>1, <2>1, <3>2, <3>3, <3>4, <3>6, OneGrounded
  <2>3. CASE Answer(p, "401", NoPair) /\ ~Admitted(req[p].sent) /\ version' = version
    BY <1>1, <2>1, <2>3, NotAdmitted, RefusalDue, AnswerGrounded
  <2>4. CASE Answer(p, "other", NoPair) /\ version' = version
    BY <1>1, <2>1, <2>4, ErrorDue, AnswerGrounded
  <2> QED
    BY <1>5, <2>2, <2>3, <2>4 DEF update_my_profile
<1>6. CASE create_tokens(p)
  <2>1. version' = version /\ version <= version' /\ MayRenew(p)
    BY <1>2, <1>6 DEF create_tokens, MayRenew
  <2>2. CASE Answer(p, "ok", NewPair)
    BY <1>1, <2>1, <2>2, NewPairGrounded
  <2>3. CASE Answer(p, "other", NoPair)
    BY <1>1, <2>1, <2>3, ErrorDue, AnswerGrounded
  <2> QED
    BY <1>6, <2>2, <2>3 DEF create_tokens
<1>7. CASE p \in Tabs /\ refresh_tokens(p)
  <2>1. version <= version' /\ p \notin Calls
    BY <1>2, <1>7, LifecycleAssumption DEF refresh_tokens, serverVars
  <2>2. req[p].sent.version \in Nat /\ req[p].sent.version <= version
    BY DueTypes DEF Grounds, Sound, Due
  <2>3. CASE Answer(p, "401", NoPair) /\ (~Current(req[p].sent) \/ version' = version + 1)
    <3>1. req[p].sent.version < version'
      BY <1>2, <2>1, <2>2, <2>3 DEF Current
    <3> QED
      BY <1>1, <2>1, <2>3, <3>1, RefusalDue, AnswerGrounded
  <2>4. CASE Answer(p, "ok", NewPair) /\ version' = version
    BY <1>1, <2>1, <2>4, NewPairGrounded
  <2>5. CASE Answer(p, "other", NoPair)
    BY <1>1, <2>1, <2>5, ErrorDue, AnswerGrounded
  <2> QED
    BY <1>7, <2>3, <2>4, <2>5 DEF refresh_tokens
<1> QED
  BY <1>4, <1>5, <1>6, <1>7 DEF Serve

-----------------------------------------------------------------------------
LEMMA RetryKind ==
    ASSUME NEW x \in Call, NEW f, NEW c
    PROVE  Retry(x, f, c).kind = x.kind
<1>1. \A g : Sent(x, g, c).kind = x.kind
  BY DEF Sent, Call
<1> QED
  BY <1>1 DEF Retry

\* What becomes of another call when a promise settles.
LEMMA SettleMoves ==
    ASSUME TypeInv, ReplayInv, NEW p \in Slots, NEW ok, Settle(p, ok, cookie'),
           NEW q \in Slots \ {p}, req'[q] # req[q]
    PROVE  /\ req'[q].pair = NoPair /\ req'[q].kind = req[q].kind
           /\ req'[q].sent \in {req[q].sent, cookie'}
           /\ \/ req'[q].pc = "sent"
              \/ ~ok /\ p = Tab(q) /\ req'[q].pc = "denied"
<1>1. CASE req[q].pc = "await_refresh" /\ p = Tab(q) /\ ok
  <2>1. req'[q] = Retry(req[q], [Top(q) EXCEPT !.refreshed = TRUE], cookie')
    BY <1>1 DEF Settle
  <2>2. req[q] \in Call
    BY <1>1, CallsInFlight DEF InFlight
  <2> QED
    BY <2>1, <2>2, RetryFields, RetryKind
<1>2. CASE req[q].pc = "await_refresh" /\ p = Tab(q) /\ ~ok
  <2>1. req'[q] = [req[q] EXCEPT !.pc = "denied"]
    BY <1>2 DEF Settle
  <2>2. req[q] \in Call /\ req[q].pair = NoPair
    BY <1>2, CallsInFlight, Unloaded DEF InFlight
  <2> QED
    BY <1>2, <2>1, <2>2 DEF Call
<1>3. CASE ~(req[q].pc = "await_refresh" /\ p = Tab(q)) /\ req[q].pc = "await_rotation" /\ p = req[q].target
  <2>1. req'[q] = Retry(req[q], Top(q), cookie')
    BY <1>3 DEF Settle
  <2>2. req[q] \in Call
    BY <1>3, CallsInFlight DEF InFlight
  <2> QED
    BY <2>1, <2>2, RetryFields, RetryKind
<1>4. CASE /\ ~(req[q].pc = "await_refresh" /\ p = Tab(q))
           /\ ~(req[q].pc = "await_rotation" /\ p = req[q].target)
  BY <1>4 DEF Settle
<1> QED
  BY <1>1, <1>2, <1>3, <1>4

LEMMA SettleDenies ==
    ASSUME TypeInv, ReplayInv, NEW p \in Slots, NEW ok, Settle(p, ok, cookie'),
           NEW q \in Slots \ {p}, req'[q] # req[q], req'[q].pc # "sent"
    PROVE  p = Tab(q)
<1> QED
  BY SettleMoves

LEMMA SettleDue ==
    ASSUME TypeInv, TypeInv', ReplayInv, Grounds, NEW p \in Slots, NEW ok,
           Settle(p, ok, cookie'), UNCHANGED <<version, expired>>, cookie'.version <= version'
    PROVE  \A q \in Slots : Due(q)'
<1>1. version <= version'
  BY DEF TypeInv, TypeOK
<1>2. ASSUME NEW q \in Slots \ {p} PROVE Due(q)'
  <2>1. CASE req'[q] = req[q]
    BY <1>1, <2>1, DueKept DEF Grounds, Sound
  <2>2. CASE req'[q] # req[q]
    <3>1. /\ req'[q].pair = NoPair /\ req'[q].sent \in {req[q].sent, cookie', NoPair}
          /\ req'[q].pc \notin {"replied", "refused"} /\ req'[q].kind = req[q].kind
      BY <2>2, SettleMoves
    <3> QED
      BY <1>1, <3>1, DueMoved DEF Grounds, Sound
  <2> QED
    BY <2>1, <2>2
<1>3. Due(p)'
  <2>1. req'[p] = Idle
    BY DEF Settle
  <2>2. req'[p].pair = NoPair /\ req'[p].sent = NoPair /\ req'[p].pc = "idle" /\ req'[p].kind = "none"
    BY <2>1 DEF Idle
  <2> QED
    BY <1>1, <2>2, DueMoved DEF Grounds, Sound
<1> QED
  BY <1>2, <1>3

\* An answer arrives: what it brings is at most as new as the server's versions.
LEMMA OkGrounded ==
    ASSUME TypeInv, TypeInv', ReplayInv, Grounds, NEW p \in Slots, receive(p),
           req[p].status = "ok"
    PROVE  Grounds'
<1>1. /\ Quiet /\ Settle(p, TRUE, cookie')
      /\ cookie' = IF req[p].pair = NoPair THEN cookie ELSE req[p].pair
      /\ UNCHANGED <<version, expired>>
  BY DEF receive, serverVars
<1>2. cookie'.version <= version'
  BY <1>1 DEF Grounds, Sound, Due
<1>3. \A q \in Slots : Due(q)'
  BY <1>1, <1>2, SettleDue
<1>4. ASSUME NEW q \in Slots PROVE ~Closing(q)' /\ req'[q].pc # "refused"
  <2>1. ~Closing(q) /\ req[q].pc # "refused"
    BY <1>1, QuietNoneClosing
  <2>2. CASE q = p
    BY <1>1, <2>2 DEF Settle, Closing, Idle
  <2>3. CASE q # p /\ req'[q] # req[q]
    <3>1. req'[q].pc = "sent"
      BY <1>1, <2>3, SettleMoves
    <3> QED
      BY <3>1 DEF Closing
  <2> QED
    BY <2>1, <2>2, <2>3, SameClosing
<1> QED
  BY <1>2, <1>3, <1>4, NoneClosing

\* A call is refused or fails, which the tab now knows of.
LEMMA RefusedGrounded ==
    ASSUME TypeInv, TypeInv', ReplayInv, Grounds, NEW p \in Slots, receive(p),
           req[p].status # "ok"
    PROVE  Grounds'
<1>1. /\ Quiet /\ req[p].pc = "replied" /\ last' = AnswerOf(p)
      /\ UNCHANGED <<version, expired, cookie>>
      /\ \/ req[p].status = "401" /\ req' = [req EXCEPT ![p].pc = "refused"]
         \/ req[p].status = "other" /\ req' = [req EXCEPT ![p].pc = "rejected"]
  BY DEF receive, serverVars
<1>2. version <= version' /\ cookie'.version <= version'
  BY <1>1 DEF TypeInv, TypeOK, Grounds, Sound
<1>3. req[p] \in Call /\ req[p].pair = NoPair
  BY <1>1, CallsInFlight DEF InFlight, ReplayInv, Underway, Carries
<1>4. PICK pc \in {"refused", "rejected"} :
         /\ req' = [req EXCEPT ![p].pc = pc]
         /\ req[p].status = IF pc = "refused" THEN "401" ELSE "other"
  BY <1>1
<1>5. /\ \A q \in Slots \ {p} : req'[q] = req[q]
      /\ req'[p] = [req[p] EXCEPT !.pc = pc]
  BY <1>4 DEF TypeInv, TypeOK
<1>6. /\ req'[p].pc = pc /\ req'[p].pair = NoPair /\ req'[p].sent = req[p].sent
      /\ req'[p].kind = req[p].kind /\ req'[p].frames = req[p].frames
      /\ req'[p].status = req[p].status
  BY <1>3, <1>5 DEF Call
<1>7. Due(p)'
  BY <1>1, <1>2, <1>6, DueTypes DEF Due, Grounds, Sound
<1>8. \A q \in Slots : Due(q)'
  BY <1>1, <1>2, <1>5, <1>7, DueKept DEF Grounds, Sound
<1>9. AnswerOf(p)' = AnswerOf(p)
  BY <1>6 DEF AnswerOf, Top, Tab
<1>10. \A q \in Slots \ {p} : ~Closing(q)' /\ req'[q].pc # "refused"
  BY <1>1, <1>5, QuietNoneClosing, SameClosing
<1>11. AtRefusal'
  BY <1>1, <1>4, <1>6, <1>9, <1>10 DEF AtRefusal
<1>12. ASSUME Closing(p)' PROVE Reason(Tab(p))'
  <2>1. pc = "rejected" /\ req[p].status = "other"
    BY <1>4, <1>6, <1>12 DEF Closing
  <2>2. Len(req[p].frames) > 1 \/ req[p].kind = "me" \/ p \in Tabs
    BY <1>6, <1>12, <2>1 DEF Closing
  <2>3. p \in Tabs => req[p].kind = "refresh"
    BY <1>3 DEF Grounds, Sound, Due, Call
  <2>4. /\ last'.tab = Tab(p) /\ last'.status = "other" /\ last'.kind = req[p].kind
        /\ last'.retried = (Len(req[p].frames) > 1)
    BY <1>1, <2>1 DEF AnswerOf
  <2> QED
    BY <2>2, <2>3, <2>4 DEF Reason, Tab
<1>13. Sound' /\ Reasons'
  BY <1>2, <1>8, <1>10, <1>12 DEF Sound, Reasons
<1> QED
  BY <1>11, <1>13 DEF Grounds

\* Whom the tab gives up for, it has a reason for.
LEMMA GiveUpReason ==
    ASSUME TypeInv, Grounds, NEW p \in Slots, giveUp(p)
    PROVE  Reason(Tab(p))
<1>1. CASE req[p].pc = "denied"
  BY <1>1 DEF Grounds, Reasons, Closing
<1>2. CASE req[p].pc = "refused" /\ ~Eligible(p)
  <2>1. last = AnswerOf(p) /\ req[p].status = "401"
    BY <1>2 DEF Grounds, AtRefusal
  <2>2. /\ last.tab = Tab(p) /\ last.status = "401" /\ last.sent = req[p].sent
        /\ last.kind = req[p].kind
        /\ last.refreshed = Top(p).refreshed /\ last.rotated = Top(p).rotated
    BY <2>1 DEF AnswerOf
  <2>3. req[p] \in Call /\ Top(p) \in Frame /\ Tab(p) \in Tabs
    BY <1>2, CallsInFlight, Frames, TabType DEF InFlight, Top
  <2>4. last.refreshed \in BOOLEAN /\ last.rotated \in BOOLEAN
    BY <2>2, <2>3 DEF Frame
  <2>5. last.kind = "refresh" \/ (p \notin Tabs /\ last.refreshed)
    BY <1>2, <2>2, <2>3 DEF Grounds, Sound, Due, Call, Eligible, Slots
  <2>6. req[p].sent.version < version \/ (p \in Calls /\ req[p].sent.id \in expired)
    BY <1>2, <2>1 DEF Grounds, Sound, Due
  <2>7. p \in Calls => last.refreshed
    BY <2>2, <2>5, LifecycleAssumption DEF Grounds, Sound, Due
  <2>8. CASE req[p].sent # cookie
    BY <2>2, <2>5, <2>8 DEF Reason
  <2>9. CASE req[p].sent.id \in expired /\ p \in Calls
    BY <2>2, <2>7, <2>9 DEF Reason
  <2>10. CASE req[p].sent = cookie /\ req[p].sent.version < version
    <3>1. ~Live
      BY <2>10, DueTypes DEF Live, Current
    <3>2. last.rotated \/ pendingRotation[Tab(p)] = NoCall
      BY <2>2 DEF giveUp, Waits
    <3>3. CASE last.rotated
      BY <2>2, <3>1, <3>3 DEF Reason
    <3>4. CASE pendingRotation[Tab(p)] = NoCall
      <4>1. RenewedUnguarded(Tab(p))
        BY <3>1, <3>4, LifecycleAssumption DEF RenewedUnguarded, MayRenew
      <4>2. SessionOver \/ RenewedElsewhere(Tab(p)) \/ RenewedAside(Tab(p))
        BY <3>1, <4>1 DEF SessionOver, RenewedElsewhere, RenewedAside
      <4> QED
        BY <2>2, <4>2 DEF Reason
    <3> QED
      BY <3>2, <3>3, <3>4
  <2> QED
    BY <2>6, <2>8, <2>9, <2>10
<1> QED
  BY <1>1, <1>2 DEF giveUp

-----------------------------------------------------------------------------
\* What the tab makes of a call it has got an answer for.
LEMMA TabGrounded ==
    ASSUME TypeInv, TypeInv', ReplayInv, Grounds, NEW p \in Slots,
           refreshSession(p) \/ awaitRotation(p) \/ giveUp(p) \/ caught(p) \/ reject(p),
           \A q \in Slots : Due(q)',
           \A q \in Slots : req'[q].pc = "refused" => req'[q] = req[q],
           \A q \in Slots : Closing(q)' => Reason(Tab(q))
    PROVE  Grounds'
<1>1. UNCHANGED <<version, expired, cookie, last>>
  BY DEF refreshSession, awaitRotation, giveUp, caught, reject, serverVars, browserVars, historyVars
<1>2. version <= version' /\ expired \subseteq expired'
  BY <1>1 DEF TypeInv, TypeOK
<1>3. \A t \in Tabs : pendingRotation'[t] \in {pendingRotation[t], NoCall}
  BY DEF refreshSession, awaitRotation, giveUp, caught, reject, Settle, browserVars
<1>4. \A q \in Slots : Handles(q)
  BY TabHandles
<1>5. NoNewRenewal
  BY <1>2, <1>4, RenewalKept DEF NoNewRenewal, Grounds, Sound, Slots
<1> QED
  BY <1>1, <1>2, <1>3, <1>5, StillGrounded

\* A call that its tab sends on: nothing has been answered.
LEMMA MovedDue ==
    ASSUME TypeInv, TypeInv', ReplayInv, Grounds, NEW p \in Slots,
           req[p].pc \in {"refused", "denied", "rejected"}, UNCHANGED <<version, cookie>>,
           req'[p].pc \notin {"replied", "refused"},
           req'[p].pair = req[p].pair, req'[p].sent = req[p].sent, req'[p].kind = req[p].kind
    PROVE  Due(p)'
<1>1. version <= version' /\ cookie'.version <= version'
  BY DEF TypeInv, TypeOK, Grounds, Sound
<1>2. req[p].pair = NoPair
  BY Unloaded
<1> QED
  BY <1>1, <1>2, DueMoved DEF Grounds, Sound

\* One call moves on in its tab.
LEMMA TabMoves ==
    ASSUME TypeInv, TypeInv', ReplayInv, Grounds, NEW p \in Slots,
           awaitRotation(p) \/ giveUp(p) \/ caught(p),
           \A q \in Slots \ {p} : req'[q] = req[q],
           req'[p].pc \notin {"replied", "refused"},
           req'[p].pair = req[p].pair, req'[p].sent = req[p].sent, req'[p].kind = req[p].kind,
           Closing(p)' => Reason(Tab(p))
    PROVE  Grounds'
<1>1. UNCHANGED <<version, expired, cookie>> /\ req[p].pc \in {"refused", "denied", "rejected"}
  BY DEF awaitRotation, giveUp, caught, serverVars, browserVars
<1>2. version <= version'
  BY <1>1 DEF TypeInv, TypeOK
<1>3. Due(p)'
  BY <1>1, MovedDue
<1>4. \A q \in Slots : Due(q)'
  BY <1>1, <1>2, <1>3, DueKept DEF Grounds, Sound
<1>5. \A q \in Slots : Closing(q)' => Reason(Tab(q))
  BY SameClosing DEF Grounds, Reasons
<1> QED
  BY <1>4, <1>5, TabGrounded

LEMMA RefreshGrounded ==
    ASSUME TypeInv, TypeInv', ReplayInv, Grounds, NEW p \in Slots, refreshSession(p)
    PROVE  Grounds'
<1> DEFINE t == Tab(p)
           w == WithTop(req[p], [Top(p) EXCEPT !.in = "refresh"])
           x == [w EXCEPT !.pc = "await_refresh"]
           y == Sent([Idle EXCEPT !.kind = "refresh"], <<NewFrame>>, cookie)
<1>1. /\ req[p].pc = "refused" /\ p \in Calls /\ InFlight(p)
      /\ UNCHANGED <<version, expired, cookie>>
  BY DEF refreshSession, browserVars, serverVars, Eligible, InFlight
<1>2. version <= version' /\ cookie'.version <= version'
  BY <1>1 DEF TypeInv, TypeOK, Grounds, Sound
<1>3. t \in Slots /\ t # p /\ t \in Tabs
  BY <1>1, TabType, LifecycleAssumption DEF Slots
<1>4. w \in Call /\ w.pair = req[p].pair /\ w.sent = req[p].sent /\ w.kind = req[p].kind
  <2>1. req[p] \in Call /\ req[p].frames # <<>> /\ Top(p) \in Frame
    BY <1>1, CallsInFlight, Frames DEF Top
  <2>2. [Top(p) EXCEPT !.in = "refresh"] \in Frame
    BY <2>1 DEF Frame
  <2> QED
    BY <2>1, <2>2, WithTopType, WithTopFields
<1> HIDE DEF w
<1>5. x.pc = "await_refresh" /\ x.pair = req[p].pair /\ x.sent = req[p].sent /\ x.kind = req[p].kind
  BY <1>4 DEF Call
<1>6. y.pc = "sent" /\ y.pair = NoPair /\ y.sent = cookie /\ y.kind = "refresh"
  BY DEF Sent, Idle
<1>7. req' = [req EXCEPT ![p] = x, ![t] = IF InFlight(t) THEN req[t] ELSE y]
  BY <1>3 DEF refreshSession, TypeInv, TypeOK, w
<1> HIDE DEF x, y, t
<1>8. /\ req'[p] = x /\ req'[t] = IF InFlight(t) THEN req[t] ELSE y
      /\ \A q \in Slots \ {p, t} : req'[q] = req[q]
  BY <1>3, <1>7 DEF TypeInv, TypeOK
<1>9. Due(p)'
  BY <1>1, <1>5, <1>8, MovedDue
<1>10. req'[t] # req[t] => Due(t)'
  BY <1>1, <1>2, <1>3, <1>6, <1>8, DueMoved DEF Grounds, Sound
<1>11. \A q \in Slots : Due(q)'
  BY <1>1, <1>2, <1>3, <1>8, <1>9, <1>10, DueKept DEF Grounds, Sound
<1>12. \A q \in Slots : req'[q] = req[q] \/ req'[q].pc \in {"await_refresh", "sent"}
  BY <1>5, <1>6, <1>8
<1>13. \A q \in Slots : Closing(q)' => Reason(Tab(q))
  BY <1>12, SameClosing DEF Grounds, Reasons, Closing
<1> QED
  BY <1>11, <1>12, <1>13, TabGrounded

LEMMA AwaitGrounded ==
    ASSUME TypeInv, TypeInv', ReplayInv, Grounds, NEW p \in Slots, awaitRotation(p)
    PROVE  Grounds'
<1> DEFINE c == pendingRotation[Tab(p)]
           w == WithTop(req[p], [Top(p) EXCEPT !.rotated = TRUE, !.in = "rotation"])
           x == [w EXCEPT !.pc = "await_rotation", !.target = c]
<1>1. InFlight(p)
  BY DEF awaitRotation, InFlight
<1>2. w \in Call /\ w.pair = req[p].pair /\ w.sent = req[p].sent /\ w.kind = req[p].kind
  <2>1. req[p] \in Call /\ req[p].frames # <<>> /\ Top(p) \in Frame
    BY <1>1, CallsInFlight, Frames DEF Top
  <2>2. [Top(p) EXCEPT !.rotated = TRUE, !.in = "rotation"] \in Frame
    BY <2>1 DEF Frame
  <2> QED
    BY <2>1, <2>2, WithTopType, WithTopFields
<1> HIDE DEF w, c
<1>3. x.pc = "await_rotation" /\ x.pair = req[p].pair /\ x.sent = req[p].sent /\ x.kind = req[p].kind
  BY <1>2 DEF Call
<1>4. req' = [req EXCEPT ![p] = x]
  BY DEF awaitRotation, w, c
<1> HIDE DEF x
<1>5. req'[p] = x /\ \A q \in Slots \ {p} : req'[q] = req[q]
  BY <1>4 DEF TypeInv, TypeOK
<1>6. ~Closing(p)'
  BY <1>3, <1>5 DEF Closing
<1> QED
  BY <1>3, <1>5, <1>6, TabMoves

LEMMA GiveUpGrounded ==
    ASSUME TypeInv, TypeInv', ReplayInv, Grounds, NEW p \in Slots, giveUp(p)
    PROVE  Grounds'
<1>1. InFlight(p) /\ req' = [req EXCEPT ![p].pc = "rejected"]
  BY DEF giveUp, InFlight
<1>2. /\ \A q \in Slots \ {p} : req'[q] = req[q]
      /\ req[p] \in Call /\ req'[p] = [req[p] EXCEPT !.pc = "rejected"]
  BY <1>1, CallsInFlight DEF TypeInv, TypeOK
<1>3. /\ req'[p].pc = "rejected" /\ req'[p].pair = req[p].pair /\ req'[p].sent = req[p].sent
      /\ req'[p].kind = req[p].kind
  BY <1>2 DEF Call
<1> QED
  BY <1>2, <1>3, GiveUpReason, TabMoves

LEMMA CaughtGrounded ==
    ASSUME TypeInv, TypeInv', ReplayInv, Grounds, NEW p \in Slots, caught(p)
    PROVE  Grounds'
<1> DEFINE g == SubSeq(req[p].frames, 1, Len(req[p].frames) - 1)
           pc == IF g[Len(g)].in = "refresh" THEN "denied" ELSE "rejected"
           x == [req[p] EXCEPT !.frames = g, !.pc = pc]
<1>1. InFlight(p) /\ Closing(p) /\ req' = [req EXCEPT ![p].frames = g, ![p].pc = pc]
  BY DEF caught, InFlight, Closing
<1>2. pc \in {"denied", "rejected"}
  OBVIOUS
<1> HIDE DEF g, pc
<1>3. req[p] \in Call
  BY <1>1, CallsInFlight
<1>4. x.pc = pc /\ x.pair = req[p].pair /\ x.sent = req[p].sent /\ x.kind = req[p].kind
  BY <1>3 DEF Call
<1>5. req' = [req EXCEPT ![p] = x]
  BY <1>1
<1> HIDE DEF x
<1>6. req'[p] = x /\ \A q \in Slots \ {p} : req'[q] = req[q]
  BY <1>5 DEF TypeInv, TypeOK
<1>7. Reason(Tab(p))
  BY <1>1 DEF Grounds, Reasons
<1> QED
  BY <1>2, <1>4, <1>6, <1>7, TabMoves

\* A refresh that fails takes its reason to the calls that wait for it.
LEMMA RejectGrounded ==
    ASSUME TypeInv, TypeInv', ReplayInv, Grounds, NEW p \in Slots, reject(p)
    PROVE  Grounds'
<1>1. /\ req[p].pc = "rejected" /\ Settle(p, FALSE, cookie')
      /\ UNCHANGED <<version, expired, cookie>>
  BY DEF reject, serverVars
<1>2. cookie'.version <= version'
  BY <1>1 DEF Grounds, Sound
<1>3. \A q \in Slots : Due(q)'
  BY <1>1, <1>2, SettleDue
<1>4. req'[p] = Idle
  BY <1>1 DEF Settle
<1>5. req'[p].pc = "idle"
  BY <1>4 DEF Idle
<1>6. \A q \in Slots : req'[q].pc = "refused" => req'[q] = req[q]
  BY <1>1, <1>5, SettleMoves
<1>7. ASSUME NEW q \in Slots, Closing(q)' PROVE Reason(Tab(q))
  <2>1. q # p
    BY <1>5, <1>7 DEF Closing
  <2>2. CASE req'[q] = req[q]
    BY <1>7, <2>2, SameClosing DEF Grounds, Reasons
  <2>3. CASE req'[q] # req[q]
    <3>1. p = Tab(q)
      <4>1. req'[q].pc # "sent"
        BY <1>7 DEF Closing
      <4> QED
        BY <1>1, <2>1, <2>3, <4>1, SettleDenies
    <3>2. p \in Tabs /\ Tab(p) = Tab(q)
      BY <3>1, TabType DEF Tab
    <3>3. Closing(p)
      BY <1>1, <3>2 DEF Closing
    <3> QED
      BY <3>2, <3>3 DEF Grounds, Reasons
  <2> QED
    BY <2>2, <2>3
<1> QED
  BY <1>3, <1>6, <1>7, TabGrounded

\* A connection breaks, the session is revoked, or its access token expires,
\* while the tabs wait.
LEMMA OutsideGrounded ==
    ASSUME TypeInv, TypeInv', ReplayInv, Grounds, NEW p \in Slots,
           lose(p) \/ revoke_elsewhere \/ expire_access
    PROVE  Grounds'
<1>1. Quiet /\ UNCHANGED cookie /\ version' \in {version, version + 1} /\ expired \subseteq expired'
  BY DEF lose, revoke_elsewhere, expire_access, serverVars, browserVars
<1>2. version <= version' /\ cookie'.version <= version'
  BY <1>1 DEF TypeInv, TypeOK, Pair, Grounds, Sound
<1>3. CASE Answer(p, "other", NoPair) /\ UNCHANGED <<version, expired>>
  <2>1. Due(p)'
    BY <1>1, <1>2, <1>3, ErrorDue
  <2>2. req'[p].pc = "replied" /\ \A q \in Slots \ {p} : req'[q] = req[q]
    BY <1>3, AnswerFields
  <2>3. \A q \in Slots : Due(q)'
    BY <1>2, <1>3, <2>1, <2>2, DueKept DEF Grounds, Sound
  <2>4. \A q \in Slots : ~Closing(q)' /\ req'[q].pc # "refused"
    BY <1>1, <2>2, QuietNoneClosing, SameClosing DEF Closing
  <2> QED
    BY <1>2, <2>3, <2>4, NoneClosing
<1>4. CASE UNCHANGED req
  <2>1. \A q \in Slots : Due(q)'
    BY <1>1, <1>2, <1>4, DueKept DEF Grounds, Sound
  <2>2. \A q \in Slots : ~Closing(q)' /\ req'[q].pc # "refused"
    BY <1>1, <1>4, QuietNoneClosing, SameClosing
  <2> QED
    BY <1>2, <2>1, <2>2, NoneClosing
<1> QED
  BY <1>3, <1>4 DEF lose, revoke_elsewhere, expire_access, serverVars, browserVars

LEMMA NextGrounded == TypeInv /\ TypeInv' /\ ReplayInv /\ Grounds /\ [Next]_vars => Grounds'
<1> SUFFICES ASSUME TypeInv, TypeInv', ReplayInv, Grounds, [Next]_vars PROVE Grounds'
  OBVIOUS
<1>1. CASE UNCHANGED vars
  <2>1. UNCHANGED <<version, cookie, expired, last, pendingRotation, req>>
    BY <1>1 DEF vars
  <2>2. \A q \in Slots : req'[q] = req[q] /\ Handles(q)
    BY <2>1 DEF Handles
  <2>3. version <= version'
    BY <2>1 DEF TypeInv, TypeOK
  <2>4. \A q \in Slots : Due(q)'
    BY <2>1, <2>2, <2>3, DueKept DEF Grounds, Sound
  <2>5. NoNewRenewal
    BY <2>1, <2>2, <2>3, RenewalKept DEF NoNewRenewal, Grounds, Sound, Slots
  <2>6. \A q \in Slots : Closing(q)' => Reason(Tab(q))
    BY <2>2, SameClosing DEF Grounds, Reasons
  <2> QED
    BY <2>1, <2>2, <2>3, <2>4, <2>5, <2>6, StillGrounded
<1>2. ASSUME NEW p \in Slots, receive(p) PROVE Grounds'
  BY <1>2, OkGrounded, RefusedGrounded
<1>3. ASSUME NEW p \in Slots, React(p) PROVE Grounds'
  BY <1>2, <1>3, RefreshGrounded, AwaitGrounded, GiveUpGrounded, CaughtGrounded, RejectGrounded
     DEF React
<1>4. CASE \E p \in Calls, kind \in {"me", "page", "password"} : start(p, kind)
  BY <1>4, StartGrounded
<1>5. CASE revoke_elsewhere \/ expire_access
  <2>1. CASE \E p \in Slots : TRUE
    BY <1>5, <2>1, OutsideGrounded
  <2>2. CASE Slots = {}
    <3>1. cookie.version <= version /\ UNCHANGED cookie /\ version' \in {version, version + 1}
      BY <1>5 DEF Grounds, Sound, revoke_elsewhere, expire_access, serverVars, browserVars
    <3>2. cookie'.version <= version'
      BY <3>1 DEF TypeInv, TypeOK, Pair
    <3> QED
      BY <2>2, <3>2 DEF Grounds, Sound, AtRefusal, Reasons
  <2> QED
    BY <2>1, <2>2
<1> QED
  BY <1>1, <1>3, <1>4, <1>5, ServeGrounded, OutsideGrounded DEF Next

\* Only a call with a reason closes its tab.
LEMMA ClosedForReason ==
    ASSUME TypeInv, Grounds, [Next]_vars, NEW t \in authenticated \ authenticated'
    PROVE  Reason(t)
<1>1. PICK p \in Slots : giveUp(p) \/ caught(p) \/ reject(p)
  BY DEF Next, vars, start, Serve, serve, update_my_profile, create_tokens, refresh_tokens, React,
     receive, refreshSession, awaitRotation, lose, revoke_elsewhere, expire_access, browserVars
<1>2. t = Tab(p)
  BY <1>1 DEF giveUp, caught, reject
<1>3. CASE giveUp(p)
  BY <1>2, <1>3, GiveUpReason
<1>4. CASE caught(p) \/ reject(p)
  <2>1. Closing(p)
    BY <1>4 DEF caught, reject, Closing
  <2> QED
    BY <1>2, <2>1 DEF Grounds, Reasons
<1> QED
  BY <1>1, <1>3, <1>4

\* A tab gives up only at an answer of its own, and only for the reasons that
\* Reason lists: never while a password change that its guard holds is bringing
\* it valid cookies, unless the call has waited for one before, however many
\* tabs and calls there are and whatever expires, is revoked or is lost.
THEOREM TabsGiveUpForAReason == Spec => GivesUpForAReason
<1>1. Init => Grounds
  BY DEF Init, Grounds, Sound, Due, AtRefusal, Reasons, Closing, Idle, NoPair
<1>2. TypeInv /\ Grounds /\ [Next]_vars =>
        [\A t \in authenticated \ authenticated' : Reason(t)]_vars
  BY ClosedForReason
<1> QED
  BY <1>1, <1>2, InitType, InitHandled, NextType, NextHandled, NextGrounded, PTL
     DEF Spec, GivesUpForAReason

=============================================================================
