------------------------------- MODULE Verifier --------------------------------
(****************************************************************************)
(* The handlers of a service behind the SDK's gates: auth.Verifier's         *)
(* Middleware and RequireScope (auth/verifier.go), and authz's Middleware    *)
(* over SDKVerify and RequirePermission (authz/guard.go, authz/adapter.go).  *)
(* Gates are wrapped around a handler in whatever order a service writes;    *)
(* those of package auth hand Claims on in the request's context, those of   *)
(* package authz a Principal, each under a key of its own.  The guards       *)
(* enforce (other postures are Guard's affair); they may be several, each    *)
(* with its own table, blanket actions and targets.                          *)
(*                                                                          *)
(* The verifiers are those of SdkClient, so keys are rotated, and contexts   *)
(* end, between one gate of a request and the next.  Auth mints the tokens   *)
(* (external).                                                               *)
(****************************************************************************)
EXTENDS SdkClient, ClaimsAdapter, SurfaceMap

CONSTANTS
  Requests,     \* the requests that are made
  Tokens,       \* bearers: well-formed JWTs
  NoBearer,     \* a request without one
  Flows,        \* the flows in which Auth mints tokens
  HumanFlows,   \* those of them in which a human takes part
  Mortal,       \* bound: the tokens whose exp comes while the model runs
  Handlers,     \* a surface each, and the chain of gates around it, outermost first
  NoTarget,     \* ok=false, or no resolver
  NoCheck       \* an issuer or audience left empty in a Config

ASSUME ChainAssumption == \A h \in Handlers : Len(h.chain) \in Nat

(* A token names the key kid in its header; signer is the key that made its  *)
(* signature.  What Auth promises of its claims (adapter.go, ClaimSubjectType*)
(* and ClaimService): a human's flow carries no svc and a human's sub_type or*)
(* none, every other flow has svc or a sub_type of its own.                  *)
ASSUME AuthContract ==
  /\ HumanFlows \subseteq Flows /\ Mortal \subseteq Tokens /\ NoBearer \notin Tokens
  /\ \A t \in Tokens :
       /\ DOMAIN t.claims = ClaimKeys
       /\ LET service == TrimSpace(stringClaim(t.claims, "svc"))
              stamp == Downcase[TrimSpace(stringClaim(t.claims, "sub_type"))]
          IN  IF t.flow \in HumanFlows
              THEN service = <<>> /\ stamp \in {<<>>} \cup humanSubjectTypes
              ELSE service # <<>> \/ stamp \notin {<<>>} \cup humanSubjectTypes

VARIABLES
  issued,    \* history: the keys that Auth has ever published
  expired,   \* the tokens whose exp has passed
  req,       \* what each request brings, and to which handler
  at,        \* the gate that each request is at
  claims,    \* auth's value in its context
  holder,    \* authz's value in its context
  status     \* "none", "inside", "refused" or "served"

reqvars == <<req, at, claims, holder, status>>
vars == <<clientvars, issued, expired, reqvars>>

--------------------------------------------------------------------------------
Init ==
  /\ ClientInit
  /\ issued = published
  /\ expired = {}
  /\ req = [r \in Requests |-> None]
  /\ at = [r \in Requests |-> 0]
  /\ claims = [r \in Requests |-> None]
  /\ holder = [r \in Requests |-> None]
  /\ status = [r \in Requests |-> "none"]

\* External: the clock reaches the exp of a token.
Expire(t) ==
  /\ t \notin expired
  /\ expired' = expired \cup {t}
  /\ UNCHANGED <<clientvars, issued, reqvars>>

\* Mutant of Verifies: a signature is enough.
VerifiesForAnyone(c, t) ==
  /\ t # NoBearer /\ t \notin expired
  /\ t.alg \in {"RS256", "ES256"} /\ t.kid \in known[c] /\ t.signer = t.kid

\* Client c's Verify returns no error: jwt.Parse with the options it is given.
Verifies(c, t) ==
  /\ t # NoBearer /\ t \notin expired
  /\ t.alg \in {"RS256", "ES256"} /\ t.kid \in known[c] /\ t.signer = t.kid
  /\ verifier[c].issuer \in {NoCheck, t.issuer}
  /\ verifier[c].audience \in {NoCheck, t.audience}

\* A request comes to a handler of a client that has a verifier.
Arrive(r) ==
  /\ status[r] = "none"
  /\ \E c \in Clients, h \in Handlers, t \in Tokens \cup {NoBearer} :
       /\ verifier[c] # None
       /\ req' = [req EXCEPT ![r] = [client |-> c, handler |-> h, token |-> t]]
  /\ at' = [at EXCEPT ![r] = 1]
  /\ claims' = [claims EXCEPT ![r] = None]
  /\ holder' = [holder EXCEPT ![r] = None]
  /\ status' = [status EXCEPT ![r] = "inside"]
  /\ UNCHANGED <<clientvars, issued, expired>>

Chain(q) == q.handler.chain

GateOf(r) == Chain(req[r])[at[r]]

\* Request r is inside, at a gate of the given sort.
AtGate(r, sort) ==
  status[r] = "inside" /\ at[r] <= Len(Chain(req[r])) /\ GateOf(r).gate = sort

Advance(r) == at' = [at EXCEPT ![r] = @ + 1] /\ UNCHANGED <<req, status>>

Refuse(r) ==
  /\ status' = [status EXCEPT ![r] = "refused"]
  /\ UNCHANGED <<req, at, claims, holder>>

\* Verifier.Middleware: 401, or the claims go into the context.
Authenticate(r) ==
  /\ AtGate(r, "authenticate")
  /\ IF Verifies(req[r].client, req[r].token)
     THEN /\ claims' = [claims EXCEPT ![r] = ClaimsOf(req[r].token.claims)]
          /\ Advance(r) /\ UNCHANGED holder
     ELSE Refuse(r)
  /\ UNCHANGED <<clientvars, issued, expired>>

\* Mutant of RequireScope: without claims in the context there is nothing to check.
RequireScopeOfClaims(r) ==
  /\ AtGate(r, "scope")
  /\ IF claims[r] = None \/ GateOf(r).scope \in claims[r].scopes
     THEN Advance(r) /\ UNCHANGED <<claims, holder>>
     ELSE Refuse(r)
  /\ UNCHANGED <<clientvars, issued, expired>>

\* RequireScope.
RequireScope(r) ==
  /\ AtGate(r, "scope")
  /\ IF claims[r] # None /\ GateOf(r).scope \in claims[r].scopes
     THEN Advance(r) /\ UNCHANGED <<claims, holder>>
     ELSE Refuse(r)
  /\ UNCHANGED <<clientvars, issued, expired>>

\* Principal p with the blanket actions of guard g, if it has none.
Adopted(g, p) ==
  IF ~p.filled /\ g.map.blanket # {}
  THEN [p EXCEPT !.blanket = g.map.blanket, !.filled = TRUE] ELSE p

\* Check, from the allowlist to the end: guard g lets p through to surface s.
Admits(g, p, s) ==
  LET rule == Resolve(g.map, s)
      target == g.target[s]
  IN  /\ Mapped(g.map, s)
      /\ Permits(rule.actor, p.kind)
      /\ \/ rule.permission = <<>>
         \/ target # NoTarget /\ Allows(p, rule.permission, target)
         \/ target = NoTarget /\ HasAction(p, rule.permission)

\* Mutant of Enforce: the principal of an outer guard is kept.
EnforceOnce(r) ==
  /\ AtGate(r, "guard")
  /\ LET g == GateOf(r)
         s == req[r].handler.surface
         p == Adopted(g, PrincipalFromClaims(ClaimsOf(req[r].token.claims)))
     IN  IF IsExempt(g.map, s) THEN Advance(r) /\ UNCHANGED <<claims, holder>>
         ELSE IF Verifies(req[r].client, req[r].token) /\ Admits(g, p, s)
         THEN /\ holder' = [holder EXCEPT ![r] = IF @ = None THEN p ELSE @]
              /\ Advance(r) /\ UNCHANGED claims
         ELSE Refuse(r)
  /\ UNCHANGED <<clientvars, issued, expired>>

\* Guard.Middleware of an enforcing guard whose VerifyFunc is SDKVerify of the
\* client's verifier.  A surface that is exempt is let through with what other guards
\* put in the context, if any.
Enforce(r) ==
  /\ AtGate(r, "guard")
  /\ LET g == GateOf(r)
         s == req[r].handler.surface
         p == Adopted(g, PrincipalFromClaims(ClaimsOf(req[r].token.claims)))
     IN  IF IsExempt(g.map, s) THEN Advance(r) /\ UNCHANGED <<claims, holder>>
         ELSE IF Verifies(req[r].client, req[r].token) /\ Admits(g, p, s)
         THEN /\ holder' = [holder EXCEPT ![r] = p]
              /\ Advance(r) /\ UNCHANGED claims
         ELSE Refuse(r)
  /\ UNCHANGED <<clientvars, issued, expired>>

\* RequirePermission.
RequirePermission(r) ==
  /\ AtGate(r, "permission")
  /\ IF holder[r] # None /\ HasAction(holder[r], GateOf(r).permission)
     THEN Advance(r) /\ UNCHANGED <<claims, holder>>
     ELSE Refuse(r)
  /\ UNCHANGED <<clientvars, issued, expired>>

\* Behind the last gate, the handler.
Handle(r) ==
  /\ status[r] = "inside" /\ at[r] > Len(Chain(req[r]))
  /\ status' = [status EXCEPT ![r] = "served"]
  /\ UNCHANGED <<clientvars, issued, expired, req, at, claims, holder>>

Pass(r) ==
  Authenticate(r) \/ RequireScope(r) \/ Enforce(r) \/ RequirePermission(r) \/ Handle(r)

Next ==
  \/ ClientNext /\ issued' = issued \cup published' /\ UNCHANGED <<expired, reqvars>>
  \/ \E t \in Mortal : Expire(t)
  \/ \E r \in Requests : Arrive(r) \/ Pass(r)

Spec == Init /\ [][Next]_vars

\* The library refreshes at an interval for as long as it may.
FairSpec == Spec /\ \A c \in Clients : WF_vars(Refresh(c) /\ UNCHANGED <<issued, expired, reqvars>>)

--------------------------------------------------------------------------------
Request == [client : Clients, handler : Handlers, token : Tokens \cup {NoBearer}]

\* Every variable has its type.
TypeOK ==
  /\ ClientTypeOK
  /\ published \subseteq issued /\ issued \subseteq Keys
  /\ expired \subseteq Mortal
  /\ req \in [Requests -> {None} \cup Request]
  /\ at \in [Requests -> Nat]
  /\ DOMAIN claims = Requests /\ DOMAIN holder = Requests
  /\ status \in [Requests -> {"none", "inside", "refused", "served"}]

\* Token t is one of Auth's, for the issuer and the audience that client c is for.
Genuine(c, t) ==
  /\ t \in Tokens
  /\ t.signer = t.kid /\ t.kid \in issued
  /\ config[c].issuer \in {NoCheck, t.issuer}
  /\ config[c].audience \in {NoCheck, t.audience}

\* The words of token t's scope string, and what the token says of its bearer.
ScopesOf(t) == Fields(stringClaim(t.claims, "scope"))
PrincipalOf(t) == PrincipalFromClaims(ClaimsOf(t.claims))

\* The class of callers that actor names, by the flow in which Auth minted token t.
OfClass(actor, t) ==
  CASE actor = "user-only"    -> t.flow \in HumanFlows
    [] actor = "service-only" -> t.flow \notin HumanFlows
    [] OTHER                  -> TRUE

\* The gate at place i of request q's chain exempts its surface.
Exempts(q, i) == Chain(q)[i].gate = "guard" /\ IsExempt(Chain(q)[i].map, q.handler.surface)

\* The places before i of the guards that put a principal in q's context; the nearest
\* of them is the one whose principal is there; what the guard at place j makes of q's
\* token.
Guarding(q, i) == {j \in 1..(i - 1) : Chain(q)[j].gate = "guard" /\ ~Exempts(q, j)}
Nearest(q, i, j) == j \in Guarding(q, i) /\ \A k \in Guarding(q, i) : k <= j
HolderAt(q, j) == Adopted(Chain(q)[j], PrincipalOf(q.token))

Authenticated(q, i) == \E j \in 1..(i - 1) : Chain(q)[j].gate = "authenticate"

\* A scope that is asked for at place i is one of the token's own, and Middleware came
\* before; a permission is one that the nearest guard before grants.
ScopeIsHeld(q, i) ==
  Chain(q)[i].gate = "scope" =>
    Chain(q)[i].scope \in ScopesOf(q.token) /\ Authenticated(q, i)
PermissionIsHeld(q, i) ==
  Chain(q)[i].gate = "permission" =>
    \E j \in Guarding(q, i) :
      Nearest(q, i, j) /\ HasAction(HolderAt(q, j), Chain(q)[i].permission)

\* A guard at place i lets in the class of callers that its table names.
ActorIsOfClass(q, i) ==
  LET g == Chain(q)[i]
  IN  g.gate = "guard" /\ ~Exempts(q, i) =>
        OfClass(Resolve(g.map, q.handler.surface).actor, q.token)

\* What the gate at place i is there to ensure of a request q that gets past it.
Ensured(q, i) ==
  LET g == Chain(q)[i]
  IN  /\ ~Exempts(q, i) => Genuine(q.client, q.token)
      /\ ScopeIsHeld(q, i) /\ PermissionIsHeld(q, i) /\ ActorIsOfClass(q, i)
      /\ g.gate = "guard" /\ ~Exempts(q, i) => Admits(g, HolderAt(q, i), q.handler.surface)

\* The places of the gates in q's chain.
Gates(q) == 1..Len(Chain(q))

\* Whatever is wrapped around a handler, in whatever order, a request that reaches it
\* behind a gate that does not exempt its surface carries a token that Auth signed,
\* for this issuer and this audience (Verify, and the order of Middleware and
\* RequireScope).
OnlyAuthsTokens ==
  \A r \in Requests :
    status[r] = "served" /\ (\E i \in Gates(req[r]) : ~Exempts(req[r], i)) =>
      Genuine(req[r].client, req[r].token)

\* A handler behind RequireScope is reached only behind Middleware, by a token that
\* has the scope.  One behind RequirePermission is reached only behind a guard that did
\* not exempt the surface, by a token whose grants, with the blanket actions of the
\* nearest such guard and of no other, come to the permission.  Where the gate that was
\* to verify is missing, is of the other package or comes too late, nothing is served
\* ("Chain it after Middleware", "placed by Middleware").
MissingGatesFailClosed ==
  \A r \in Requests : status[r] = "served" =>
    \A i \in Gates(req[r]) : ScopeIsHeld(req[r], i) /\ PermissionIsHeld(req[r], i)

\* A surface for one class of callers is reached by tokens of that class's flows
\* only: no machine flow of Auth, not even one that the SDK does not know, passes for
\* a human, and no human for a workload (ActorKindFromClaims, Actor.Permits).
ActorsAreToldApart ==
  \A r \in Requests : status[r] = "served" =>
    \A i \in Gates(req[r]) : ActorIsOfClass(req[r], i)

--------------------------------------------------------------------------------
(* The inductive invariant behind the safety properties.                     *)

\* Verifiers know keys that Auth once published, and no others.
KeysAreIssued == \A c \in Clients : known[c] \subseteq issued

\* A request that is under way or was served has passed the gates before the one it
\* is at, and what is in its context is what they made of its token.
Vouched(r) ==
  LET q == req[r]
  IN  status[r] # "none" =>
        /\ q \in Request /\ at[r] \in Nat \ {0} /\ verifier[q.client] # None
        /\ claims[r] # None =>
             /\ Genuine(q.client, q.token) /\ Authenticated(q, at[r])
             /\ claims[r] = ClaimsOf(q.token.claims)
        /\ holder[r] # None =>
             /\ Genuine(q.client, q.token)
             /\ \E j \in Guarding(q, at[r]) : Nearest(q, at[r], j) /\ holder[r] = HolderAt(q, j)
        /\ \A i \in Gates(q) : i < at[r] => Ensured(q, i)
        /\ status[r] = "served" => at[r] > Len(Chain(q))

\* What verifiers know, and what gates have ensured of each request.
IInv ==
  /\ TypeOK /\ ClientInv /\ KeysAreIssued
  /\ \A r \in Requests : Vouched(r)

================================================================================
