----------------------------- MODULE ArrivalProofs -----------------------------
(* What a callee hears, for every number of callers and of requests under way,*)
(* every skew, time-out and lifetime, and any delay.                          *)
EXTENDS Arrival, UnaryCredsProofs

USE TokenSourceAssumption, CredentialsAssumption, ArrivalAssumption

--------------------------------------------------------------------------------
\* The bearer that the callee takes off a request.
LEMMA Heard ==
  ASSUME NEW m, Departed(m)
  PROVE  /\ m.carried = <<>> => BearerFromMetadata(Outgoing(m)) = m.own
         /\ m.carried # <<>> => BearerFromMetadata(Outgoing(m)) \in Guests \cup {NoToken}
<1>1. m.own \in Token \cup {NoToken, Fixed} /\ m.own # Basic
  BY DEF Departed
<1>2. CASE m.carried = <<>> /\ m.own = NoToken
  BY <1>2 DEF Outgoing, BearerFromMetadata
<1>3. CASE m.carried = <<>> /\ m.own # NoToken
  <2>1. Outgoing(m) = <<m.own>>
    BY <1>3 DEF Outgoing
  <2> QED
    BY <1>1, <1>3, <2>1 DEF BearerFromMetadata, Bearer
<1>4. ASSUME NEW e \in Guests \cup {Basic}, m.carried = <<e>>
      PROVE  BearerFromMetadata(Outgoing(m)) \in Guests \cup {NoToken}
  <2>1. Outgoing(m) # <<>> /\ Outgoing(m)[1] = e
    BY <1>4 DEF Outgoing
  <2> QED
    BY <2>1 DEF BearerFromMetadata, Bearer
<1> QED
  BY <1>2, <1>3, <1>4 DEF Departed

--------------------------------------------------------------------------------
\* Nothing is cached, held or under way at the start.
LEMMA ArrInitInv == ArrInit => ArrInv
BY CredsInitInv DEF ArrInit, ArrInv, CredsInit, Init

\* Time alone takes nothing back.
LEMMA DepartedStays ==
  ASSUME NEW m, Departed(m), now \in Nat, now' \in Nat, now <= now'
  PROVE  Departed(m)'
BY DEF Departed

\* A token that Token() returns, out of the cache or fetched, is in the margin.
LEMMA ReturnsInMargin ==
  ASSUME CredsInv, NEW c \in Callers, Step(c), pc'[c] = "returned", ret'[c] # NoToken
  PROVE  InMargin(ret'[c], now)
<1> USE DEF CredsInv, IInv, TypeOK
<1>1. Hit(c) \/ Store(c)
  BY DEF Step, Lock, Miss, FetchFails, Return
<1>2. CASE Hit(c)
  <2>1. Returns(c) /\ pc[c] = "checking"
    BY <1>2 DEF Hit, Returns
  <2>2. MarginLeft(c)
    BY HitLeavesMargin DEF Next
  <2> QED
    BY <2>1, <2>2 DEF MarginLeft, ReturnsCached, InMargin
<1>3. CASE Store(c)
  <2> DEFINE tok == reply[c]
  <2>1. ret'[c] = tok /\ tok # NoToken /\ tok \in Token
    BY <1>3 DEF Store, Return
  <2>2. /\ tok.says \in Nat /\ tok.life \in Nat /\ tok.dies \in Nat
        /\ sent[c] \in Nat /\ now \in Nat
    BY <2>1 DEF Token
  <2>3. sent[c] + tok.life <= tok.dies /\ now <= sent[c] + FetchLimit
    BY <2>1 DEF ReplyIsNews, FetchInTime
  <2>4. TTL(tok.says) \in Nat \ {0}
    BY <2>2, TTLPositive
  <2>5. SkewOf(TTL(tok.says)) \in Nat /\ SkewOf(TTL(tok.says)) < TTL(tok.says)
    BY <2>4, SkewBelowTTL
  <2> QED
    BY <2>1, <2>2, <2>3, <2>4, <2>5 DEF InMargin
<1> QED
  BY <1>1, <1>2, <1>3

\* A caller enters with what the source holds.
LEMMA EnterInv ==
  ASSUME ArrInv, NEW c \in Callers, Enter(c)
  PROVE  ArrInv'
<1>1. CredsInv'
  BY InterceptInv DEF ArrInv, Enter
<1>2. now' = now /\ now \in Nat /\ UNCHANGED <<got, flight, ret>> /\ heard' = Nothing
  BY DEF Enter, Intercept, Call, vars, ArrInv, CredsInv, IInv, TypeOK
<1>3. \A d \in Callers : pc'[d] = "returned" => pc[d] = "returned"
  BY DEF Enter, Intercept, Call, vars, ArrInv, CredsInv, IInv, TypeOK
<1>4. onBehalf' \in [Callers -> {<<>>} \cup {<<e>> : e \in Guests \cup {Basic}}]
  BY DEF Enter, ArrInv
<1>5. \A m \in flight' : Departed(m)'
  BY <1>2, DepartedStays DEF ArrInv
<1> QED
  BY <1>1, <1>2, <1>3, <1>4, <1>5 DEF ArrInv

\* A fetch stores what Auth answered.
LEMMA FetchInv ==
  ASSUME ArrInv, NEW c \in Callers, Fetch(c)
  PROVE  ArrInv'
<1> USE DEF ArrInv
<1>1. CredsInv'
  BY SourceInv DEF Fetch
<1>2. now' = now /\ now \in Nat /\ UNCHANGED <<onBehalf, flight>> /\ heard' = Nothing
  BY DEF Fetch, Step, Lock, Hit, Miss, Store, FetchFails, Answer, Mint, CredsInv, IInv, TypeOK
<1>3. ASSUME NEW d \in Callers, pc'[d] = "returned", ret'[d] # NoToken
      PROVE  InMargin(ret'[d], got'[d])
  <2>1. CASE d = c
    <3>1. Step(c)
      BY <1>3, <2>1 DEF Fetch, Answer, Mint, CredsInv, IInv, TypeOK
    <3> QED
      BY <1>3, <2>1, <3>1, ReturnsInMargin DEF Fetch
  <2>2. CASE d # c
    <3>1. pc'[d] = pc[d] /\ ret'[d] = ret[d]
      BY <2>2 DEF Fetch, Step, Lock, Hit, Miss, Store, FetchFails, Return, Answer, Mint,
                  CredsInv, IInv, TypeOK
    <3> QED
      BY <1>3, <2>2, <3>1 DEF Fetch
  <2> QED
    BY <2>1, <2>2
<1>4. got' \in [Callers -> Nat] /\ \A d \in Callers : got'[d] <= now
  BY <1>2 DEF Fetch
<1>5. \A m \in flight' : Departed(m)'
  BY <1>2, DepartedStays
<1> QED
  BY <1>1, <1>2, <1>3, <1>4, <1>5

\* A call leaves with the token its interceptor attached.
LEMMA DepartInv ==
  ASSUME ArrInv, NEW c \in Callers, Depart(c)
  PROVE  ArrInv'
<1> USE DEF ArrInv
<1> DEFINE m == [by |-> c, carried |-> onBehalf[c], own |-> TokenOf(c), got |-> got[c]]
<1>1. CredsInv'
  BY InvokeInv DEF Depart
<1>2. /\ UNCHANGED <<now, pc, ret, got, onBehalf>> /\ now \in Nat
      /\ heard' = Nothing /\ flight' = flight \cup {m}
  BY DEF Depart, Invoke, Send, vars, CredsInv, IInv, TypeOK
<1>3. Departed(m)
  <2>1. /\ c \in Cached => m.own = ret[c] /\ pc[c] = "returned"
        /\ c \notin Cached => m.own \in {NoToken, Fixed}
    BY DEF Depart, Invoke, Answered, TokenOf
  <2>2. ret[c] \in Token \cup {NoToken}
    BY DEF CredsInv, IInv, TypeOK
  <2> QED
    BY <2>1, <2>2 DEF Departed
<1> HIDE DEF m
<1>4. \A n \in flight' : Departed(n)'
  BY <1>2, <1>3, DepartedStays
<1> QED
  BY <1>1, <1>2, <1>4

\* A delivery takes a call that left.
LEMMA DeliverInv ==
  ASSUME ArrInv, NEW m \in flight, Deliver(m)
  PROVE  ArrInv'
<1>1. CredsInv'
  <2>1. UNCHANGED allvars
    BY DEF Deliver
  <2> QED
    BY <2>1, CredsNextInv DEF ArrInv
<1>2. /\ UNCHANGED <<now, pc, ret, got, onBehalf>> /\ now \in Nat
      /\ flight' = flight \ {m}
      /\ heard' = [req |-> m, bearer |-> BearerFromMetadata(Outgoing(m)), at |-> now]
  BY DEF Deliver, allvars, vars, ArrInv, CredsInv, IInv, TypeOK
<1>3. \A n \in flight : Departed(n)'
  BY <1>2, DepartedStays DEF ArrInv
<1> QED
  BY <1>1, <1>2, <1>3 DEF ArrInv, Departed

\* Every step keeps the invariant.
LEMMA ArrNextInv ==
  ASSUME ArrInv, [ArrNext]_arrvars
  PROVE  ArrInv'
<1>1. CASE UNCHANGED arrvars
  <2>1. CredsInv'
    BY <1>1, CredsNextInv DEF ArrInv, arrvars
  <2> QED
    BY <1>1, <2>1, Zenon DEF ArrInv, Departed, arrvars, allvars, vars
<1>2. CASE Tick /\ heard' = Nothing /\ UNCHANGED <<rpcvars, got, onBehalf, flight>>
  <2>1. CredsInv'
    BY <1>2, SourceInv DEF ArrInv
  <2>2. now \in Nat /\ now' = now + 1 /\ UNCHANGED <<pc, ret>>
    BY <1>2 DEF Tick, ArrInv, CredsInv, IInv, TypeOK
  <2>3. \A m \in flight : Departed(m)'
    BY <2>2, DepartedStays DEF ArrInv
  <2> QED
    BY <1>2, <2>1, <2>2, <2>3 DEF ArrInv
<1> QED
  BY <1>1, <1>2, EnterInv, FetchInv, DepartInv, DeliverInv DEF ArrNext

--------------------------------------------------------------------------------
\* Every token that a caller holds, that is under way or that has arrived was in the
\* margin when its source returned it (ArrInv; Token, unaryCredsInterceptor).
THEOREM ArrivalInvariance == ArrSpec => []ArrInv
BY ArrInitInv, ArrNextInv, PTL DEF ArrSpec

\* The refresh margin, less one fetch, is the delay that a request can have and still
\* find its token alive (TimelyRequestsAreAlive).
THEOREM MarginPaysForTheWay == ArrSpec => []TimelyRequestsAreAlive
<1>1. ASSUME ArrInv PROVE TimelyRequestsAreAlive
  <2> DEFINE m == heard.req
             tok == heard.bearer
  <2> SUFFICES ASSUME heard # Nothing, m.by \in Cached, tok \notin Guests \cup {NoToken},
                      TTL(tok.says) <= tok.life,
                      (heard.at - m.got) + FetchLimit <= SkewOf(TTL(tok.says))
               PROVE  heard.at < tok.dies
    BY DEF TimelyRequestsAreAlive
  <2>1. Departed(m) /\ heard.at \in Nat /\ tok = m.own /\ tok # NoToken
    BY <1>1, Heard DEF ArrInv
  <2>2. tok \in Token /\ InMargin(tok, m.got) /\ m.got \in Nat
    BY <2>1 DEF Departed
  <2>3. tok.says \in Nat /\ tok.dies \in Nat
    BY <2>2 DEF Token
  <2>4. SkewOf(TTL(tok.says)) \in Nat
    BY <2>3, TTLPositive, SkewBelowTTL
  <2>5. tok.dies - m.got > SkewOf(TTL(tok.says)) - FetchLimit
    BY <2>2 DEF InMargin
  <2> HIDE DEF m, tok
  <2> QED
    BY <2>1, <2>2, <2>3, <2>4, <2>5
<1> QED
  BY <1>1, ArrivalInvariance, PTL

\* A call is decided under one identity: the context's, where it carries one, and the
\* client's otherwise (ForwardedIdentityWins).
THEOREM OneIdentity == ArrSpec => []ForwardedIdentityWins
<1>1. ArrInv => ForwardedIdentityWins
  BY Heard DEF ArrInv, ForwardedIdentityWins
<1> QED
  BY <1>1, ArrivalInvariance, PTL

\* With contexts and a network around them, callers and their source do what CredsSpec
\* lets them, so the order of bearers holds here too (RequestsKeepTokenOrder).
THEOREM ArrivalKeepsOrder == ArrSpec => RequestsKeepTokenOrder
<1>1. ArrInit => CredsInit
  BY DEF ArrInit
<1>2. [ArrNext]_arrvars => [CredsNext]_allvars
  BY DEF ArrNext, Enter, Fetch, Depart, Deliver, CredsNext, arrvars
<1>3. ArrSpec => CredsSpec
  BY <1>1, <1>2, PTL DEF ArrSpec, CredsSpec
<1> QED
  BY <1>3, RequestOrder, PTL

================================================================================
