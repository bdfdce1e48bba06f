---------------------------- MODULE VerifierProofs -----------------------------
(* Clients, verifiers and gates, for any number of clients, keys and requests,*)
(* any tokens that keep Auth's contract, and any chains of gates over any     *)
(* tables.                                                                    *)
EXTENDS Verifier, TLAPS

USE ClientAssumption

--------------------------------------------------------------------------------
(* Clients.                                                                   *)

\* There is nothing of the client before New.
LEMMA ClientInitInv == ClientInit => ClientInv
BY DEF ClientInit, ClientInv, ClientTypeOK, Staged

\* A step of one client keeps the invariant of all.
LEMMA LiveInv ==
  ASSUME ClientInv, NEW c \in Clients, Live(c)
  PROVE  ClientInv'
<1> USE DEF ClientInv, ClientTypeOK, Staged
<1>1. CASE New(c)
  BY <1>1 DEF New, cache
<1>2. CASE Dial(c)
  <2>1. CASE config[c].secret
    <3>1. /\ conn' = [conn EXCEPT ![c] = "open"]
          /\ secret' = [secret EXCEPT ![c] = TRUE]
          /\ phase' = [phase EXCEPT ![c] = "preparing"]
          /\ UNCHANGED <<published, ctx, config, verifier, known, refreshing>>
      BY <1>2, <2>1 DEF Dial, cache
    <3>2. Staged(c)'
      BY <1>2, <2>1, <3>1 DEF Dial
    <3>3. ASSUME NEW d \in Clients, d # c PROVE Staged(d)'
      BY <3>1, <3>3
    <3> QED
      BY <3>1, <3>2, <3>3
  <2>2. CASE ~config[c].secret
    BY <1>2, <2>2 DEF Dial, cache
  <2> QED
    BY <2>1, <2>2
<1>3. CASE DialFails(c)
  BY <1>3 DEF DialFails, Fail, Shut, cache
<1>4. CASE Prepare(c)
  BY <1>4 DEF Prepare, NewVerifier, FirstRead, cache
<1>5. CASE PrepareFails(c)
  BY <1>5 DEF PrepareFails, Fail, Shut, cache
<1>6. CASE Close(c)
  BY <1>6 DEF Close, Shut, cache
<1>7. CASE EndContext(c)
  BY <1>7 DEF EndContext
<1>8. CASE Refresh(c)
  BY <1>8 DEF Refresh
<1> QED
  BY <1>1, <1>2, <1>3, <1>4, <1>5, <1>6, <1>7, <1>8 DEF Live

\* Every step of New and Close keeps its invariant.
LEMMA ClientNextInv ==
  ASSUME ClientInv, [ClientNext]_clientvars
  PROVE  ClientInv'
<1>1. CASE UNCHANGED clientvars
  BY <1>1 DEF clientvars, cache, ClientInv, ClientTypeOK, Staged
<1>2. ASSUME NEW k \in Keys, Publish(k) \/ Withdraw(k)
      PROVE  ClientInv'
  BY <1>2 DEF Publish, Withdraw, cache, ClientInv, ClientTypeOK, Staged
<1>3. ASSUME NEW c \in Clients, Live(c)
      PROVE  ClientInv'
  BY <1>3, LiveInv
<1> QED
  BY <1>1, <1>2, <1>3 DEF ClientNext

\* A client that has a verifier keeps it, and its Config.
LEMMA VerifierStays ==
  ASSUME ClientInv, [ClientNext]_clientvars, NEW c \in Clients, verifier[c] # None
  PROVE  verifier'[c] = verifier[c] /\ config'[c] = config[c]
<1> USE DEF ClientInv, ClientTypeOK, Staged, cache
<1>1. ASSUME NEW d \in Clients, Live(d)
      PROVE  verifier'[c] = verifier[c] /\ config'[c] = config[c]
  BY <1>1 DEF Live, New, Dial, DialFails, Prepare, NewVerifier, PrepareFails, Fail, Close,
              EndContext, Refresh
<1> QED
  BY <1>1 DEF ClientNext, Publish, Withdraw, clientvars

--------------------------------------------------------------------------------
(* Tokens and gates.                                                          *)

\* No request has passed a gate.
LEMMA InitInv == Init => IInv
<1> SUFFICES ASSUME Init PROVE IInv
  OBVIOUS
<1>1. ClientInv
  BY ClientInitInv DEF Init
<1> QED
  BY <1>1 DEF Init, ClientInit, IInv, TypeOK, KeysAreIssued, Vouched, ClientInv

\* A token that a verifier accepts is Auth's, for this client.
LEMMA VerifiedIsGenuine ==
  ASSUME IInv, NEW c \in Clients, verifier[c] # None,
         NEW t \in Tokens \cup {NoBearer}, Verifies(c, t)
  PROVE  Genuine(c, t)
BY DEF IInv, ClientInv, ClientTypeOK, Staged, KeysAreIssued, Verifies, Genuine

\* By Auth's contract, the kind that the claims of a token give tells the class of
\* flows it was minted in.
LEMMA KindTellsFlow ==
  ASSUME NEW t \in Tokens, NEW actor,
         Permits(actor, ActorKindFromClaims(t.claims))
  PROVE  OfClass(actor, t)
<1> DEFINE service == TrimSpace(stringClaim(t.claims, "svc"))
           stamp == Downcase[TrimSpace(stringClaim(t.claims, "sub_type"))]
<1>1. IF t.flow \in HumanFlows
      THEN service = <<>> /\ stamp \in {<<>>} \cup humanSubjectTypes
      ELSE service # <<>> \/ stamp \notin {<<>>} \cup humanSubjectTypes
  BY AuthContract, Zenon
<1>2. ActorKindFromClaims(t.claims) =
        IF service # <<>> THEN "service"
        ELSE IF stamp = <<>> \/ stamp \in humanSubjectTypes THEN "user" ELSE "service"
  BY DEF ActorKindFromClaims
<1> HIDE DEF service, stamp
<1> QED
  BY <1>1, <1>2 DEF Permits, OfClass

\* What holds of a request holds whatever Auth, the clock and the clients do next.
LEMMA VouchedStays ==
  ASSUME NEW r \in Requests, Vouched(r), UNCHANGED reqvars, issued \subseteq issued',
         \A c \in Clients : verifier[c] # None =>
           verifier'[c] = verifier[c] /\ config'[c] = config[c]
  PROVE  Vouched(r)'
<1>1. CASE status[r] = "none"
  BY <1>1 DEF Vouched, reqvars
<1>2. CASE status[r] # "none"
  <2> DEFINE q == req[r]
  <2>1. q.client \in Clients /\ verifier[q.client] # None
    BY <1>2 DEF Vouched, Request
  <2>2. config'[q.client] = config[q.client] /\ verifier'[q.client] # None
    BY <2>1
  <2>3. q' = q /\ (Genuine(q.client, q.token) => Genuine(q.client, q.token)')
    BY <2>2 DEF Genuine, reqvars
  <2>4. \A i \in Gates(q) : Ensured(q, i) => Ensured(q, i)'
    BY <2>3 DEF Ensured, ScopeIsHeld, PermissionIsHeld, ActorIsOfClass, Authenticated, Guarding,
                Nearest, HolderAt, Exempts, Admits, OfClass
  <2> HIDE DEF q
  <2> QED
    BY <1>2, <2>1, <2>2, <2>3, <2>4
       DEF Vouched, reqvars, Authenticated, Guarding, Nearest, HolderAt, Exempts, Gates, q
<1> QED
  BY <1>1, <1>2

\* What holds of a request holds while nothing happens to it.
LEMMA VouchedAlone ==
  ASSUME NEW d \in Requests, Vouched(d), UNCHANGED <<clientvars, issued>>,
         req'[d] = req[d], at'[d] = at[d], claims'[d] = claims[d],
         holder'[d] = holder[d], status'[d] = status[d]
  PROVE  Vouched(d)'
BY Zenon DEF Vouched, Ensured, Genuine, clientvars

\* A step of one request leaves all others as they are.
LEMMA Apart ==
  ASSUME TypeOK, NEW r \in Requests, Arrive(r) \/ Pass(r),
         NEW d \in Requests, d # r
  PROVE  /\ req'[d] = req[d] /\ at'[d] = at[d] /\ claims'[d] = claims[d]
         /\ holder'[d] = holder[d] /\ status'[d] = status[d]
BY DEF TypeOK, Arrive, Pass, Authenticate, RequireScope, Enforce, RequirePermission,
       Handle, Advance, Refuse

\* A request that is inside, seen from its gate.
LEMMA Inside ==
  ASSUME IInv, NEW r \in Requests, status[r] = "inside"
  PROVE  /\ req[r] \in Request /\ at[r] \in Nat \ {0}
         /\ req[r].client \in Clients /\ verifier[req[r].client] # None
         /\ Len(Chain(req[r])) \in Nat
BY ChainAssumption DEF IInv, Vouched, Request, Chain

\* What is in the context when a gate that is no guard, or a guard that exempts, has
\* been passed is the principal of the same guard as before.
LEMMA NearestStays ==
  ASSUME NEW q, NEW i \in Nat \ {0}, Chain(q)[i].gate # "guard" \/ Exempts(q, i)
  PROVE  \A j : Nearest(q, i, j) => Nearest(q, i + 1, j)
<1>1. Guarding(q, i + 1) = Guarding(q, i)
  BY DEF Guarding
<1> QED
  BY <1>1, Zenon DEF Nearest

\* A guard that puts a principal in the context is the nearest afterwards.
LEMMA NearestIsNew ==
  ASSUME NEW q, NEW i \in Nat \ {0}, Chain(q)[i].gate = "guard", ~Exempts(q, i)
  PROVE  Nearest(q, i + 1, i)
BY DEF Guarding, Nearest

\* Behind Middleware a request is authenticated.
LEMMA AuthenticatedIsNew ==
  ASSUME NEW q, NEW i \in Nat \ {0}, Chain(q)[i].gate = "authenticate"
  PROVE  Authenticated(q, i + 1)
BY SMT DEF Authenticated

\* A gate that lets a request pass, and what it puts in the context, keep the
\* invariant, if the gate has ensured what it is there for.
LEMMA AdvanceInv ==
  ASSUME IInv, NEW r \in Requests, status[r] = "inside", Advance(r),
         UNCHANGED <<clientvars, issued, expired>>,
         DOMAIN claims' = Requests, DOMAIN holder' = Requests,
         LET q == req[r]
             gate == GateOf(r).gate
         IN  /\ Ensured(q, at[r])
             /\ IF gate = "authenticate" THEN claims'[r] = ClaimsOf(q.token.claims)
                ELSE claims'[r] = claims[r]
             /\ IF gate = "guard" /\ ~Exempts(q, at[r]) THEN holder'[r] = HolderAt(q, at[r])
                ELSE holder'[r] = holder[r]
  PROVE  TypeOK' /\ Vouched(r)'
<1> DEFINE q == req[r]
           i == at[r]
           gate == GateOf(r).gate
<1>1. /\ q \in Request /\ i \in Nat \ {0} /\ verifier[q.client] # None
      /\ Len(Chain(q)) \in Nat
  BY Inside
<1>2. TypeOK'
  BY <1>1 DEF IInv, TypeOK, ClientTypeOK, Advance, clientvars, cache
<1>3. at'[r] = i + 1 /\ req' = req /\ status' = status
  BY DEF Advance, IInv, TypeOK
<1>4. /\ \A k : Ensured(q, k) => Ensured(q, k)'
      /\ Genuine(q.client, q.token) => Genuine(q.client, q.token)'
  BY <1>3, Zenon DEF Ensured, Genuine, clientvars
<1>5. Vouched(r) /\ gate = Chain(q)[i].gate
  BY DEF IInv, GateOf
<1>6. \A k \in Gates(q) : k < i + 1 => Ensured(q, k)
  BY <1>1, <1>5 DEF Vouched, Gates
<1>7. claims'[r] # None =>
        /\ Genuine(q.client, q.token) /\ Authenticated(q, i + 1)
        /\ claims'[r] = ClaimsOf(q.token.claims)
  <2>1. CASE gate = "authenticate"
    <3>1. Genuine(q.client, q.token)
      BY <1>5, <2>1 DEF Ensured, Exempts
    <3>2. Authenticated(q, i + 1)
      BY <1>1, <1>5, <2>1, AuthenticatedIsNew
    <3>3. claims'[r] = ClaimsOf(q.token.claims)
      BY <2>1
    <3> QED
      BY <3>1, <3>2, <3>3
  <2>2. CASE gate # "authenticate"
    <3>1. Authenticated(q, i) => Authenticated(q, i + 1)
      BY <1>1 DEF Authenticated
    <3>2. claims'[r] = claims[r]
      BY <2>2
    <3> QED
      BY <1>5, <3>1, <3>2, Zenon DEF Vouched
  <2> QED
    BY <2>1, <2>2
<1>8. holder'[r] # None =>
        /\ Genuine(q.client, q.token)
        /\ \E j \in Guarding(q, i + 1) : Nearest(q, i + 1, j) /\ holder'[r] = HolderAt(q, j)
  <2>1. CASE gate = "guard" /\ ~Exempts(q, i)
    <3>1. Nearest(q, i + 1, i)
      BY <1>1, <1>5, <2>1, NearestIsNew
    <3> QED
      BY <2>1, <3>1 DEF Ensured, Nearest
  <2>2. CASE ~(gate = "guard" /\ ~Exempts(q, i))
    <3>1. \A j : Nearest(q, i, j) => Nearest(q, i + 1, j)
      BY <1>1, <1>5, <2>2, NearestStays
    <3>2. holder'[r] = holder[r]
      BY <2>2
    <3>3. holder[r] # None =>
            /\ Genuine(q.client, q.token)
            /\ \E j \in Guarding(q, i) : Nearest(q, i, j) /\ holder[r] = HolderAt(q, j)
      BY <1>5 DEF Vouched
    <3> QED
      BY <3>1, <3>2, <3>3, Zenon DEF Nearest
  <2> QED
    BY <2>1, <2>2
<1>9. i + 1 \in Nat \ {0}
  BY <1>1
<1>10. /\ verifier' = verifier /\ q' = q
       /\ \A k, j : /\ Authenticated(q, k)' = Authenticated(q, k)
                    /\ Guarding(q, k)' = Guarding(q, k)
                    /\ Nearest(q, k, j)' = Nearest(q, k, j)
                    /\ HolderAt(q, j)' = HolderAt(q, j)
       /\ Gates(q)' = Gates(q) /\ Len(Chain(q))' = Len(Chain(q))
  BY <1>3 DEF clientvars, Authenticated, Guarding, Nearest, HolderAt, Exempts, Gates
<1>11. status'[r] # "served" /\ Request' = Request
  BY <1>3 DEF Request
<1> HIDE DEF q, i, gate
<1> QED
  BY <1>1, <1>2, <1>3, <1>4, <1>6, <1>7, <1>8, <1>9, <1>10, <1>11 DEF Vouched, q

\* A refused request keeps what it had.
LEMMA RefuseInv ==
  ASSUME IInv, NEW r \in Requests, status[r] = "inside", Refuse(r),
         UNCHANGED <<clientvars, issued, expired>>
  PROVE  TypeOK' /\ Vouched(r)'
<1>1. TypeOK'
  BY DEF IInv, TypeOK, ClientTypeOK, Refuse, clientvars, cache
<1>2. status'[r] = "refused" /\ UNCHANGED <<req, at, claims, holder>>
  BY DEF IInv, TypeOK, Refuse
<1>3. Vouched(r)
  BY DEF IInv
<1> QED
  BY <1>1, <1>2, <1>3, Zenon DEF Vouched, Ensured, Genuine, clientvars

\* One step of one request: each gate ensures what it is there for.
LEMMA RequestInv ==
  ASSUME IInv, NEW r \in Requests, Arrive(r) \/ Pass(r)
  PROVE  TypeOK' /\ Vouched(r)'
<1> DEFINE q == req[r]
           t == q.token
           g == GateOf(r)
<1> USE DEF Pass
<1>1. CASE Arrive(r)
  <2>1. PICK d \in Clients, h \in Handlers, u \in Tokens \cup {NoBearer} :
          /\ verifier[d] # None
          /\ req' = [req EXCEPT ![r] = [client |-> d, handler |-> h, token |-> u]]
    BY <1>1 DEF Arrive
  <2>2. TypeOK'
    BY <1>1, <2>1 DEF IInv, TypeOK, ClientTypeOK, Arrive, Request, clientvars, cache
  <2>3. /\ req'[r] = [client |-> d, handler |-> h, token |-> u]
        /\ at'[r] = 1 /\ claims'[r] = None /\ holder'[r] = None /\ status'[r] = "inside"
        /\ verifier' = verifier
    BY <1>1, <2>1 DEF IInv, TypeOK, Arrive, clientvars
  <2>4. req'[r] \in Request /\ \A i \in Gates(req'[r]) : ~(i < 1)
    BY <2>3 DEF Request, Gates
  <2> QED
    BY <2>1, <2>2, <2>3, <2>4 DEF Vouched, Gates
<1>2. CASE Authenticate(r)
  <2>1. status[r] = "inside" /\ g.gate = "authenticate"
    BY <1>2 DEF Authenticate, AtGate
  <2>2. CASE Verifies(q.client, t)
    <3>1. Genuine(q.client, t)
      BY <2>1, <2>2, Inside, VerifiedIsGenuine DEF Request
    <3>2. Ensured(q, at[r])
      BY <2>1, <3>1 DEF Ensured, ScopeIsHeld, PermissionIsHeld, ActorIsOfClass, GateOf
    <3>3. /\ claims' = [claims EXCEPT ![r] = ClaimsOf(t.claims)] /\ Advance(r)
          /\ UNCHANGED <<clientvars, issued, expired, holder>>
      BY <1>2, <2>2 DEF Authenticate
    <3>4. /\ DOMAIN claims' = Requests /\ claims'[r] = ClaimsOf(t.claims)
          /\ DOMAIN holder' = Requests /\ holder'[r] = holder[r]
      BY <3>3 DEF IInv, TypeOK
    <3> QED
      BY <2>1, <3>2, <3>3, <3>4, AdvanceInv
  <2> QED
    BY <1>2, <2>1, <2>2, RefuseInv DEF Authenticate
<1>3. CASE RequireScope(r)
  <2>1. status[r] = "inside" /\ g.gate = "scope"
    BY <1>3 DEF RequireScope, AtGate
  <2>2. CASE claims[r] # None /\ g.scope \in claims[r].scopes
    <3>1. /\ Genuine(q.client, t) /\ Authenticated(q, at[r])
          /\ claims[r] = ClaimsOf(t.claims)
      BY <2>1, <2>2 DEF IInv, Vouched
    <3>2. claims[r].scopes = ScopesOf(t)
      BY <3>1 DEF ClaimsOf, ScopesOf
    <3>3. Ensured(q, at[r])
      BY <2>1, <2>2, <3>1, <3>2
         DEF Ensured, ScopeIsHeld, PermissionIsHeld, ActorIsOfClass, GateOf
    <3>4. Advance(r) /\ UNCHANGED <<clientvars, issued, expired, claims, holder>>
      BY <1>3, <2>2 DEF RequireScope
    <3> QED
      BY <2>1, <3>3, <3>4, AdvanceInv DEF IInv, TypeOK
  <2> QED
    BY <1>3, <2>1, <2>2, RefuseInv DEF RequireScope
<1>4. CASE Enforce(r)
  <2>1. status[r] = "inside" /\ g.gate = "guard"
    BY <1>4 DEF Enforce, AtGate
  <2> DEFINE s == q.handler.surface
             p == HolderAt(q, at[r])
  <2>2. /\ IF IsExempt(g.map, s) THEN Advance(r) /\ UNCHANGED <<claims, holder>>
           ELSE IF Verifies(q.client, t) /\ Admits(g, p, s)
           THEN /\ holder' = [holder EXCEPT ![r] = p]
                /\ Advance(r) /\ UNCHANGED claims
           ELSE Refuse(r)
        /\ UNCHANGED <<clientvars, issued, expired>>
    BY <1>4, Zenon DEF Enforce, HolderAt, PrincipalOf, GateOf
  <2>3. Exempts(q, at[r]) <=> IsExempt(g.map, s)
    BY <2>1 DEF Exempts, GateOf
  <2>4. CASE IsExempt(g.map, s)
    <3>1. Ensured(q, at[r])
      BY <2>1, <2>3, <2>4 DEF Ensured, ScopeIsHeld, PermissionIsHeld, ActorIsOfClass, GateOf
    <3> QED
      BY <2>1, <2>2, <2>3, <2>4, <3>1, AdvanceInv DEF IInv, TypeOK
  <2>5. CASE ~IsExempt(g.map, s) /\ Verifies(q.client, t) /\ Admits(g, p, s)
    <3>1. Genuine(q.client, t)
      BY <2>1, <2>5, Inside, VerifiedIsGenuine DEF Request
    <3>2. p.kind = ActorKindFromClaims(t.claims)
      BY DEF HolderAt, Adopted, PrincipalOf, PrincipalFromClaims, ClaimsOf
    <3>3. OfClass(Resolve(g.map, s).actor, t)
      BY <2>5, <3>1, <3>2, KindTellsFlow DEF Genuine, Admits
    <3>4. Ensured(q, at[r])
      BY <2>1, <2>5, <3>1, <3>3
         DEF Ensured, ScopeIsHeld, PermissionIsHeld, ActorIsOfClass, GateOf
    <3>5. /\ DOMAIN holder' = Requests /\ holder'[r] = p
          /\ DOMAIN claims' = Requests /\ claims'[r] = claims[r]
      BY <2>2, <2>5 DEF IInv, TypeOK
    <3> QED
      BY <2>1, <2>2, <2>3, <2>5, <3>4, <3>5, AdvanceInv
  <2> QED
    BY <2>1, <2>2, <2>4, <2>5, RefuseInv
<1>5. CASE RequirePermission(r)
  <2>1. status[r] = "inside" /\ g.gate = "permission"
    BY <1>5 DEF RequirePermission, AtGate
  <2>2. CASE holder[r] # None /\ HasAction(holder[r], g.permission)
    <3>1. /\ Genuine(q.client, t)
          /\ \E j \in Guarding(q, at[r]) : Nearest(q, at[r], j) /\ holder[r] = HolderAt(q, j)
      BY <2>1, <2>2 DEF IInv, Vouched
    <3>2. PermissionIsHeld(q, at[r])
      BY <2>2, <3>1, Zenon DEF PermissionIsHeld, GateOf
    <3>3. Ensured(q, at[r])
      BY <2>1, <3>1, <3>2 DEF Ensured, ScopeIsHeld, ActorIsOfClass, GateOf
    <3>4. Advance(r) /\ UNCHANGED <<clientvars, issued, expired, claims, holder>>
      BY <1>5, <2>2 DEF RequirePermission
    <3> QED
      BY <2>1, <3>3, <3>4, AdvanceInv DEF IInv, TypeOK
  <2> QED
    BY <1>5, <2>1, <2>2, RefuseInv DEF RequirePermission
<1>6. CASE Handle(r)
  <2>1. /\ status[r] = "inside" /\ at[r] > Len(Chain(q)) /\ status'[r] = "served"
        /\ UNCHANGED <<clientvars, issued, expired, req, at, claims, holder>>
    BY <1>6 DEF Handle, IInv, TypeOK
  <2>2. TypeOK'
    BY <1>6, <2>1 DEF Handle, IInv, TypeOK, ClientTypeOK, clientvars, cache
  <2>3. Vouched(r)
    BY DEF IInv
  <2> QED
    BY <2>1, <2>2, <2>3, Zenon DEF Vouched, Ensured, Genuine, clientvars
<1> QED
  BY <1>1, <1>2, <1>3, <1>4, <1>5, <1>6

\* Every step, of a request or of the keys, keeps the invariant.
LEMMA NextInv ==
  ASSUME IInv, [Next]_vars
  PROVE  IInv'
<1>1. CASE UNCHANGED vars
  <2>1. ClientInv'
    BY <1>1, ClientNextInv DEF vars, IInv
  <2>2. \A r \in Requests : Vouched(r)'
    BY <1>1, VouchedAlone DEF vars, reqvars, IInv
  <2>3. TypeOK' /\ KeysAreIssued'
    BY <1>1 DEF vars, reqvars, clientvars, cache, IInv, TypeOK, ClientTypeOK, KeysAreIssued
  <2> QED
    BY <2>1, <2>2, <2>3 DEF IInv
<1>2. CASE ClientNext /\ issued' = issued \cup published' /\ UNCHANGED <<expired, reqvars>>
  <2>1. ClientInv'
    BY <1>2, ClientNextInv DEF IInv
  <2>2. \A r \in Requests : Vouched(r)'
    BY <1>2, VerifierStays, VouchedStays DEF IInv
  <2>3. KeysAreIssued'
    <3> SUFFICES ASSUME NEW c \in Clients PROVE known'[c] \subseteq issued'
      BY DEF KeysAreIssued
    <3>1. known'[c] \in {{}, known[c], published}
      BY <1>2 DEF IInv, ClientInv, ClientTypeOK, ClientNext, Publish, Withdraw, Live, New,
                  Dial, DialFails, Prepare, NewVerifier, FirstRead, PrepareFails, Fail,
                  Close, EndContext, Refresh, cache
    <3> QED
      BY <1>2, <3>1 DEF IInv, TypeOK, KeysAreIssued
  <2>4. TypeOK'
    BY <1>2, <2>1 DEF ClientInv, ClientTypeOK, IInv, TypeOK, reqvars
  <2> QED
    BY <2>1, <2>2, <2>3, <2>4 DEF IInv
<1>3. ASSUME NEW t \in Mortal, Expire(t)
      PROVE  IInv'
  <2>1. ClientInv'
    BY <1>3, ClientNextInv DEF Expire, IInv
  <2>2. \A r \in Requests : Vouched(r)'
    BY <1>3, VouchedAlone DEF Expire, reqvars, IInv
  <2>3. TypeOK' /\ KeysAreIssued'
    BY <1>3 DEF Expire, reqvars, clientvars, cache, IInv, TypeOK, ClientTypeOK, KeysAreIssued
  <2> QED
    BY <2>1, <2>2, <2>3 DEF IInv
<1>4. ASSUME NEW r \in Requests, Arrive(r) \/ Pass(r)
      PROVE  IInv'
  <2>1. UNCHANGED <<clientvars, issued, expired>>
    BY <1>4 DEF Arrive, Pass, Authenticate, RequireScope, Enforce, RequirePermission, Handle
  <2>2. ClientInv'
    BY <2>1, ClientNextInv DEF IInv
  <2>3. TypeOK' /\ Vouched(r)'
    BY <1>4, RequestInv
  <2>4. ASSUME NEW d \in Requests, d # r PROVE Vouched(d)'
    BY <1>4, <2>1, <2>4, Apart, VouchedAlone DEF IInv
  <2>5. KeysAreIssued'
    BY <2>1 DEF IInv, KeysAreIssued, clientvars, cache
  <2> QED
    BY <2>2, <2>3, <2>4, <2>5 DEF IInv
<1> QED
  BY <1>1, <1>2, <1>3, <1>4 DEF Next

--------------------------------------------------------------------------------
\* In every run, clients are what their phase says, verifiers know Auth's keys and
\* no others, and a request is vouched for by the gates behind it (IInv).
THEOREM Invariance == Spec => []IInv
BY InitInv, NextInv, PTL DEF Spec

\* New and Close leave no connection open behind a client that failed or was closed,
\* wherever New failed (NothingLeftOpen; sdk.go).
THEOREM NothingIsLeftOpen == Spec => []NothingLeftOpen
<1>1. IInv => NothingLeftOpen
  BY DEF IInv, ClientInv, Staged, NothingLeftOpen
<1> QED
  BY <1>1, Invariance, PTL

\* A request that was served has passed every gate of its handler.
LEMMA ServedPassedAll ==
  ASSUME IInv, NEW r \in Requests, status[r] = "served", NEW i \in Gates(req[r])
  PROVE  Ensured(req[r], i)
<1>1. Vouched(r) /\ Len(Chain(req[r])) \in Nat
  BY ChainAssumption DEF IInv, Vouched, Request, Chain
<1>2. i < at[r]
  BY <1>1 DEF Vouched, Gates
<1> QED
  BY <1>1, <1>2 DEF Vouched

\* Whatever the gates and their order, behind one that does not exempt the surface there
\* are only tokens that Auth signed for this issuer and audience (OnlyAuthsTokens;
\* Verify, Middleware).
THEOREM TokensAreAuths == Spec => []OnlyAuthsTokens
<1>1. IInv => OnlyAuthsTokens
  BY ServedPassedAll DEF OnlyAuthsTokens, Ensured
<1> QED
  BY <1>1, Invariance, PTL

\* Gates that ask the context for claims or a principal refuse when no gate of their own
\* package put one there, and a permission comes from the token with the blanket actions
\* of the nearest guard (MissingGatesFailClosed; RequireScope, RequirePermission, Check).
THEOREM GatesFailClosed == Spec => []MissingGatesFailClosed
<1>1. IInv => MissingGatesFailClosed
  BY ServedPassedAll DEF MissingGatesFailClosed, Ensured
<1> QED
  BY <1>1, Invariance, PTL

\* By Auth's contract about sub_type and svc, no machine flow reaches a surface for
\* humans, and no human one for services (ActorsAreToldApart; ActorKindFromClaims).
THEOREM FlowsAreToldApart == Spec => []ActorsAreToldApart
<1>1. IInv => ActorsAreToldApart
  BY ServedPassedAll DEF ActorsAreToldApart, Ensured
<1> QED
  BY <1>1, Invariance, PTL

================================================================================
