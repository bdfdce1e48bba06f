--------------------------------- MODULE Guard ---------------------------------
(****************************************************************************)
(* The guards of a service at work (authz/guard.go, authz/startup.go).       *)
(* Guards are built by Resolve from the environment or put together by hand; *)
(* requests pass through Check concurrently, wait for the VerifyFunc, and    *)
(* reach a handler that makes its own checks.                                *)
(*                                                                          *)
(* The VerifyFunc is external.  SDKVerify makes a principal per call; one    *)
(* "backed by a decision cache" hands the same principal to every request    *)
(* with the token, whichever guard it passes.                                *)
(****************************************************************************)
EXTENDS SurfaceMap

CONSTANTS
  Requests,      \* request slots
  Guards,        \* the guards of the process
  Surfaces,      \* surfaces that requests address
  Tokens,        \* bearer tokens that verify
  Forged,        \* bearer tokens that do not
  NoBearer,      \* a request without one
  Says,          \* the principal that each of Tokens verifies to
  Environments,  \* the Config values a process may be started with
  Resolving,     \* the guards that Resolve may build
  Verifiers,     \* the VerifyFuncs each may be given by hand: "cache", "none" (nil)
  MapOf,         \* the Map of each guard
  TargetOf,      \* the ResourceResolver of each guard: a text per surface
  NoTarget,      \* ok=false, or no resolver
  Checks,        \* the checks that handlers make: an action and a target
  None           \* a nil pointer; nothing yet

VARIABLES
  guard,   \* the guards that have been built
  env,     \* history: the Config from which Resolve built them
  heap,    \* the principals that the verifier's cache holds, by token
  req,     \* what each request brings
  pc,      \* where each request is
  who,     \* what each request holds of a principal
  out,     \* the denial code of each request, or "served"
  op       \* the check that its handler made

vars == <<guard, env, heap, req, pc, who, out, op>>

--------------------------------------------------------------------------------
(* Startup.                                                                  *)

ZeroMap ==
  [prefix |-> <<>>, exact |-> <<>>, routes |-> <<>>, methods |-> <<>>, actors |-> <<>>,
   operations |-> {}, blanket |-> {}, exemptPaths |-> {}, exemptMethods |-> {},
   exempt |-> {}, routeKey |-> NoHook]

\* Guard{}, what is left when Resolve returns an error: its Mode is ModeEnforced.
ZeroGuard ==
  [mode |-> "enforced", verify |-> "none", map |-> ZeroMap,
   target |-> [s \in Surfaces |-> NoTarget]]

\* Mutant of Complete: the JWKS endpoint alone makes a configuration.
HasKeys(e) == TrimSpace(e.jwks) # <<>>

\* All three of the variables are set to more than blanks.
Complete(e) ==
  \A x \in {e.jwks, e.issuer, e.audience} : TrimSpace(x) # <<>>

Wired(g, mode, verify) ==
  [mode |-> mode, verify |-> verify, map |-> MapOf[g], target |-> TargetOf[g]]

\* Mutant of Resolved: in development an unreachable JWKS endpoint is forgiven.
ResolvedKindly(g, e) ==
  CASE Complete(e) /\ e.reachable -> Wired(g, "enforced", "sdk")
    [] e.development /\ ~(Complete(e) /\ e.reachable) -> Wired(g, "dev-open", "none")
    [] OTHER -> Wired(g, "unavailable", "none")

\* Resolve.
Resolved(g, e) ==
  CASE Complete(e) /\ e.reachable     -> Wired(g, "enforced", "sdk")
    [] Complete(e) /\ ~e.reachable    -> ZeroGuard
    [] ~Complete(e) /\ e.development  -> Wired(g, "dev-open", "none")
    [] ~Complete(e) /\ ~e.development -> Wired(g, "unavailable", "none")

\* Guard{Mode: ModeEnforced, Verify: ..., ...}, or a Resolve'd guard.
Wirings ==
  [g \in Guards |->
     {Wired(g, "enforced", v) : v \in Verifiers[g]}
       \cup (IF g \in Resolving THEN {Resolved(g, e) : e \in Environments} ELSE {})]

\* A built guard is not a nil pointer, nor is an answer.
ASSUME GuardAssumption ==
  /\ \A g \in Guards : None \notin Wirings[g]
  /\ None # "served"

--------------------------------------------------------------------------------
(* What a request holds: no principal, one of its own, or the cache's.       *)

Nobody == [holds |-> "nobody"]
Own(p) == [holds |-> "own", principal |-> p]
Shared == [holds |-> "cache"]

Init ==
  /\ guard = [g \in Guards |-> None]
  /\ env = [g \in Guards |-> None]
  /\ heap = [t \in Tokens |-> None]
  /\ req = [r \in Requests |-> None]
  /\ pc = [r \in Requests |-> "idle"]
  /\ who = [r \in Requests |-> Nobody]
  /\ out = [r \in Requests |-> None]
  /\ op = [r \in Requests |-> None]

\* The service calls Resolve at boot.  One that goes on after an error holds Guard{}.
Boot(g) ==
  /\ guard[g] = None /\ g \in Resolving
  /\ \E e \in Environments :
       /\ guard' = [guard EXCEPT ![g] = Resolved(g, e)]
       /\ env' = [env EXCEPT ![g] = e]
  /\ UNCHANGED <<heap, req, pc, who, out, op>>

\* The service fills in a Guard itself: an enforcing one, with a VerifyFunc or nil.
Assemble(g) ==
  /\ guard[g] = None
  /\ \E v \in Verifiers[g] : guard' = [guard EXCEPT ![g] = Wired(g, "enforced", v)]
  /\ UNCHANGED <<env, heap, req, pc, who, out, op>>

Arrive(r) ==
  /\ pc[r] \in {"idle", "done"}
  /\ \E g \in Guards, t \in Tokens \cup Forged \cup {NoBearer}, s \in Surfaces :
       /\ guard[g] # None
       /\ req' = [req EXCEPT ![r] = [guard |-> g, token |-> t, surface |-> s]]
  /\ pc' = [pc EXCEPT ![r] = "arrived"]
  /\ who' = [who EXCEPT ![r] = Nobody]
  /\ out' = [out EXCEPT ![r] = None]
  /\ op' = [op EXCEPT ![r] = None]
  /\ UNCHANGED <<guard, env, heap>>

GuardOf(r) == guard[req[r].guard]

\* What its pointer points to now.
Principal(r) ==
  IF who[r].holds = "cache" THEN heap[req[r].token] ELSE who[r].principal

DevPrincipal(g) ==
  [scopes |-> {WildcardAction},
   grants |-> {[action |-> WildcardAction, resource |-> <<>>]},
   kind |-> "service", blanket |-> g.map.blanket, filled |-> TRUE]

Deny(r, code) ==
  /\ out' = [out EXCEPT ![r] = code]
  /\ pc' = [pc EXCEPT ![r] = "done"]
  /\ UNCHANGED <<guard, env, heap, req, who, op>>

\* The handler runs, with w in its context.
Serve(r, w) ==
  /\ out' = [out EXCEPT ![r] = "served"]
  /\ pc' = [pc EXCEPT ![r] = "handling"]
  /\ who' = [who EXCEPT ![r] = w]
  /\ UNCHANGED <<guard, env, heap, req, op>>

CallVerify(r) ==
  /\ pc' = [pc EXCEPT ![r] = "verifying"]
  /\ UNCHANGED <<guard, env, heap, req, who, out, op>>

\* Mutant of Admit: the allowlist is consulted before the caller is known.
AdmitMappedFirst(r) ==
  /\ pc[r] = "arrived"
  /\ LET g == GuardOf(r)
         s == req[r].surface
     IN  IF IsExempt(g.map, s) THEN Serve(r, Nobody)
         ELSE IF g.mode = "dev-open" THEN Serve(r, Own(DevPrincipal(g)))
         ELSE IF g.mode = "unavailable" \/ g.verify = "none" THEN Deny(r, "auth_unavailable")
         ELSE IF ~Mapped(g.map, s) THEN Deny(r, "no_permission_mapping")
         ELSE IF req[r].token = NoBearer THEN Deny(r, "missing_token")
         ELSE CallVerify(r)

\* Check, up to the call of Verify.
Admit(r) ==
  /\ pc[r] = "arrived"
  /\ LET g == GuardOf(r)
     IN  IF IsExempt(g.map, req[r].surface) THEN Serve(r, Nobody)
         ELSE IF g.mode = "dev-open" THEN Serve(r, Own(DevPrincipal(g)))
         ELSE IF g.mode = "unavailable" \/ g.verify = "none" THEN Deny(r, "auth_unavailable")
         ELSE IF req[r].token = NoBearer THEN Deny(r, "missing_token")
         ELSE CallVerify(r)

\* External: Verify returns a principal.  The cache fills at the token's first use.
Verified(r) ==
  /\ pc[r] = "verifying" /\ req[r].token \in Tokens
  /\ LET t == req[r].token
     IN  IF GuardOf(r).verify = "cache"
         THEN /\ heap' = [heap EXCEPT ![t] = IF @ = None THEN Says[t] ELSE @]
              /\ who' = [who EXCEPT ![r] = Shared]
         ELSE /\ who' = [who EXCEPT ![r] = Own(Says[t])]
              /\ UNCHANGED heap
  /\ pc' = [pc EXCEPT ![r] = "verified"]
  /\ UNCHANGED <<guard, env, req, out, op>>

\* Mutant of Refused: the caller is told what was wrong with its token.
RefusedByName(r) ==
  /\ pc[r] = "verifying"
  /\ Deny(r, IF req[r].token \in Forged THEN req[r].token ELSE "invalid_token")

\* Verify returns an error, or no principal: always for a forged token, and for a
\* good one when the verifier itself is in trouble.
Refused(r) ==
  /\ pc[r] = "verifying"
  /\ Deny(r, "invalid_token")

\* p with the guard's blanket actions.
Filled(p, g) == [p EXCEPT !.blanket = g.map.blanket, !.filled = TRUE]

\* Mutant of Adopt: the blanket actions are written through the pointer.
AdoptInPlace(r) ==
  /\ pc[r] = "verified"
  /\ LET p == Principal(r)
         g == GuardOf(r)
     IN  IF p.filled \/ g.map.blanket = {} THEN UNCHANGED <<who, heap>>
         ELSE IF who[r].holds = "cache"
         THEN heap' = [heap EXCEPT ![req[r].token] = Filled(p, g)] /\ UNCHANGED who
         ELSE who' = [who EXCEPT ![r] = Own(Filled(p, g))] /\ UNCHANGED heap
  /\ pc' = [pc EXCEPT ![r] = "adopted"]
  /\ UNCHANGED <<guard, env, req, out, op>>

\* A principal without blanket actions is copied and gets the service's.
Adopt(r) ==
  /\ pc[r] = "verified"
  /\ LET p == Principal(r)
         g == GuardOf(r)
     IN  IF p.filled \/ g.map.blanket = {} THEN UNCHANGED who
         ELSE who' = [who EXCEPT ![r] = Own(Filled(p, g))]
  /\ pc' = [pc EXCEPT ![r] = "adopted"]
  /\ UNCHANGED <<guard, env, heap, req, out, op>>

\* Check, from the allowlist to the end.
Judge(r) ==
  /\ pc[r] = "adopted"
  /\ LET g == GuardOf(r)
         s == req[r].surface
         p == Principal(r)
         rule == Resolve(g.map, s)
         target == g.target[s]
     IN  IF ~Mapped(g.map, s) THEN Deny(r, "no_permission_mapping")
         ELSE IF ~Permits(rule.actor, p.kind) THEN Deny(r, "actor_kind_not_permitted")
         ELSE IF rule.permission = <<>> THEN Serve(r, who[r])
         ELSE IF target # NoTarget
              THEN IF Allows(p, rule.permission, target) THEN Serve(r, who[r])
                   ELSE Deny(r, "insufficient_permission")
         ELSE IF HasAction(p, rule.permission) THEN Serve(r, who[r])
         ELSE Deny(r, "insufficient_permission")

\* The handler makes a check on the principal it finds in its context: Allows on a
\* target, or RequirePermission.
Handle(r) ==
  /\ pc[r] = "handling"
  /\ \E c \in Checks :
       op' = [op EXCEPT ![r] =
                [check |-> c,
                 passed |-> /\ who[r] # Nobody
                            /\ IF c.target = NoTarget THEN HasAction(Principal(r), c.action)
                               ELSE Allows(Principal(r), c.action, c.target)]]
  /\ pc' = [pc EXCEPT ![r] = "done"]
  /\ UNCHANGED <<guard, env, heap, req, who, out>>

Pass(r) == Admit(r) \/ Verified(r) \/ Refused(r) \/ Adopt(r) \/ Judge(r) \/ Handle(r)

Next ==
  \/ \E g \in Guards : Boot(g) \/ Assemble(g)
  \/ \E r \in Requests : Arrive(r) \/ Pass(r)

Spec == Init /\ [][Next]_vars

--------------------------------------------------------------------------------
Bearers == Tokens \cup Forged \cup {NoBearer}

Request == [guard : Guards, token : Bearers, surface : Surfaces]

\* Every variable has its type: a guard is None or one that could be built, and the
\* cache holds for a token what the token says.
TypeOK ==
  /\ DOMAIN guard = Guards
  /\ \A g \in Guards : guard[g] = None \/ guard[g] \in Wirings[g]
  /\ env \in [Guards -> {None} \cup Environments]
  /\ DOMAIN heap = Tokens
  /\ \A t \in Tokens : heap[t] \in {None, Says[t]}
  /\ req \in [Requests -> {None} \cup Request]
  /\ pc \in [Requests -> {"idle", "arrived", "verifying", "verified", "adopted",
                          "handling", "done"}]
  /\ DOMAIN who = Requests /\ DOMAIN out = Requests /\ DOMAIN op = Requests

\* However requests overlap, and whichever guards and tokens they share, every
\* decision and every handler's check is the one GuardPromise states for the request
\* alone (Check, NewContext, Allows, RequirePermission).
Promise == INSTANCE GuardPromise WITH
  phase <- [r \in Requests |->
              IF pc[r] \in {"arrived", "verifying", "verified", "adopted"}
              THEN "asked" ELSE pc[r]]

KeepsPromise == Promise!Spec

\* A guard that Resolve built is what Resolve makes of its Config.
GuardsResolve ==
  \A g \in Guards :
    env[g] # None => guard[g] # None /\ guard[g] = Resolved(g, env[g])

\* A request under way has a built guard.
GuardsStand ==
  \A r \in Requests :
    pc[r] # "idle" => req[r] \in Request /\ guard[req[r].guard] # None

\* A request waits for Verify, or goes on from it, only where Check calls it.
Enforcing(r) ==
  LET g == GuardOf(r)
  IN  /\ ~IsExempt(g.map, req[r].surface)
      /\ g.mode \notin {"dev-open", "unavailable"} /\ g.verify # "none"
      /\ req[r].token # NoBearer

\* What a request holds is what its token says, as its guard adopts it: nothing that
\* other requests do to the cache, or other guards add, reaches it.
HoldsItsOwn(r) ==
  LET t == req[r].token
      g == GuardOf(r)
  IN  /\ who[r].holds = "cache" => t \in Tokens /\ heap[t] = Says[t]
      /\ pc[r] \in {"verifying", "verified", "adopted"} => Enforcing(r)
      /\ pc[r] \in {"verified", "adopted"} => t \in Tokens /\ who[r] # Nobody
      /\ pc[r] = "verified" => Principal(r) = Says[t]
      /\ pc[r] = "adopted" => Principal(r) = Promise!Adopted(g, Says[t])
      /\ pc[r] = "handling" =>
           IF IsExempt(g.map, req[r].surface) THEN who[r] = Nobody
           ELSE /\ who[r] # Nobody
                /\ Principal(r) = IF g.mode = "dev-open" THEN DevPrincipal(g)
                                  ELSE Promise!Adopted(g, Says[t])

\* What a request was told is the promise's verdict on it.
ToldTheVerdict(r) ==
  IF pc[r] \in {"handling", "done"}
  THEN \E verified \in BOOLEAN :
         /\ verified => req[r].token \in Tokens
         /\ out[r] = Promise!Verdict(GuardOf(r), req[r].token, req[r].surface, verified)
  ELSE out[r] = None

\* The inductive invariant: the guards are Resolve's, what each request holds is its
\* own, and what it was told follows from that alone.
IInv ==
  /\ TypeOK /\ GuardsResolve /\ GuardsStand
  /\ \A r \in Requests : HoldsItsOwn(r) /\ ToldTheVerdict(r)

\* What a caller without a good token is told depends on nothing but the guard's
\* posture and whether it brought a token: not on what is wrong with the token it
\* brought, nor on which surfaces exist and what they demand (the order of Check: "WHICH
\* check a forged token failed is oracle material").
UnverifiedLearnNothing ==
  \A r, q \in Requests :
    /\ out[r] \notin {None, "served"} /\ out[q] \notin {None, "served"}
    /\ req[r].guard = req[q].guard
    /\ req[r].token \notin Tokens /\ req[q].token \notin Tokens
    /\ req[r].token = NoBearer <=> req[q].token = NoBearer
    => out[r] = out[q]

\* A guarded surface is served by a guard that Resolve built only to a caller with a
\* good token under a complete configuration, or to anybody in development without
\* one: no partial configuration enforces, and none that was to enforce and could not
\* opens up (Resolve: "there is no fourth rung").
ServedByTheLadder ==
  \A r \in Requests :
    out[r] = "served" /\ env[req[r].guard] # None /\ ~IsExempt(GuardOf(r).map, req[r].surface)
      => LET e == env[req[r].guard]
             blank == \E x \in {e.jwks, e.issuer, e.audience} : TrimSpace(x) = <<>>
         IN  IF blank THEN e.development ELSE e.reachable /\ req[r].token \in Tokens

================================================================================
