------------------------------ MODULE GuardPromise ------------------------------
(****************************************************************************)
(* What the guards of a service promise (authz/guard.go, the comments on     *)
(* Guard and Check): each request is decided at one moment, from the wiring  *)
(* of its guard, the surface it addresses and what its token says, and from  *)
(* nothing else - not from other requests, other guards, or what a verifier  *)
(* remembers.  The same holds for every check a handler makes later.         *)
(*                                                                          *)
(* What the table and the grants say is not the promise's affair: it takes   *)
(* their decisions as operators.                                             *)
(****************************************************************************)
CONSTANTS
  Requests,      \* request slots
  Guards,        \* the guards of the process
  Surfaces,      \* surfaces that requests address
  Tokens,        \* bearer tokens that verify
  Forged,        \* bearer tokens that do not
  NoBearer,      \* a request without one
  Says,          \* the principal that each of Tokens verifies to
  NoTarget,      \* ok=false, or no resolver
  Wirings,       \* the ways in which each guard can be built
  Checks,        \* the checks that handlers make: an action and a target
  None           \* nothing yet

CONSTANTS
  IsExempt(_, _), Mapped(_, _), Resolve(_, _),  \* of a map and a surface
  Permits(_, _),                                \* of an actor and a kind
  Allows(_, _, _), HasAction(_, _),             \* of a principal
  DevPrincipal(_)                               \* of a guard

VARIABLES guard, req, phase, out, op

promisevars == <<guard, req, phase, out, op>>

--------------------------------------------------------------------------------
(* A principal has scopes, grants, a kind and blanket actions; filled says   *)
(* whether BlanketActions is non-nil, so that the guard leaves it alone.     *)

\* The principal that guard g works with when a token verifies to p.
Adopted(g, p) ==
  IF ~p.filled /\ g.map.blanket # {}
  THEN [p EXCEPT !.blanket = g.map.blanket, !.filled = TRUE] ELSE p

\* p holds permission at surface s: on the surface's target, if it has one.
Holds(g, p, permission, s) ==
  IF g.target[s] = NoTarget THEN HasAction(p, permission)
  ELSE Allows(p, permission, g.target[s])

\* What p lacks at surface s, if anything.
Shortfall(g, p, s) ==
  LET rule == Resolve(g.map, s)
  IN  IF ~Mapped(g.map, s) THEN "no_permission_mapping"
      ELSE IF ~Permits(rule.actor, p.kind) THEN "actor_kind_not_permitted"
      ELSE IF rule.permission = <<>> \/ Holds(g, p, rule.permission, s) THEN "served"
      ELSE "insufficient_permission"

\* What the caller gets to see of a request with bearer t for surface s.
Verdict(g, t, s, verified) ==
  IF IsExempt(g.map, s) \/ g.mode = "dev-open" THEN "served"
  ELSE IF g.mode = "unavailable" \/ g.verify = "none" THEN "auth_unavailable"
  ELSE IF t = NoBearer THEN "missing_token"
  ELSE IF ~verified THEN "invalid_token"
  ELSE Shortfall(g, Adopted(g, Says[t]), s)

\* A handler's check of c.action on p: on c.target with Allows, or with
\* RequirePermission if there is no target.
Passes(p, c) ==
  IF c.target = NoTarget THEN HasAction(p, c.action) ELSE Allows(p, c.action, c.target)

\* The check of a handler behind guard g; no check passes on an exempt surface.
PassesBehind(g, t, s, c) ==
  /\ ~IsExempt(g.map, s)
  /\ Passes(IF g.mode = "dev-open" THEN DevPrincipal(g) ELSE Adopted(g, Says[t]), c)

--------------------------------------------------------------------------------
Init ==
  /\ guard = [g \in Guards |-> None]
  /\ req = [r \in Requests |-> None]
  /\ phase = [r \in Requests |-> "idle"]
  /\ out = [r \in Requests |-> None]
  /\ op = [r \in Requests |-> None]

Build(g) ==
  /\ guard[g] = None
  /\ \E w \in Wirings[g] : guard' = [guard EXCEPT ![g] = w]
  /\ UNCHANGED <<req, phase, out, op>>

Ask(r) ==
  /\ phase[r] \in {"idle", "done"}
  /\ phase' = [phase EXCEPT ![r] = "asked"]
  /\ out' = [out EXCEPT ![r] = None]
  /\ op' = [op EXCEPT ![r] = None]
  /\ UNCHANGED guard
  /\ \E g \in Guards :
       /\ guard[g] # None /\ req'[r].guard = g
       /\ \E t \in Tokens \cup Forged \cup {NoBearer}, s \in Surfaces :
            req' = [req EXCEPT ![r] = [guard |-> g, token |-> t, surface |-> s]]

\* A good token may fail to verify, for the verifier's own reasons; a forged one
\* always does.
Decide(r) ==
  /\ phase[r] = "asked"
  /\ \E next \in {"handling", "done"} : phase' = [phase EXCEPT ![r] = next]
  /\ UNCHANGED <<guard, req, op>>
  /\ \E verified \in BOOLEAN :
       /\ verified => req[r].token \in Tokens
       /\ out' = [out EXCEPT ![r] =
                    Verdict(guard[req[r].guard], req[r].token, req[r].surface, verified)]
  /\ phase'[r] = "handling" <=> out'[r] = "served"

Handle(r) ==
  /\ phase[r] = "handling"
  /\ phase' = [phase EXCEPT ![r] = "done"]
  /\ UNCHANGED <<guard, req, out>>
  /\ \E c \in Checks :
       op' = [op EXCEPT ![r] =
                [check |-> c,
                 passed |-> PassesBehind(guard[req[r].guard], req[r].token,
                                         req[r].surface, c)]]

Next ==
  \/ \E g \in Guards : Build(g)
  \/ \E r \in Requests : Ask(r) \/ Decide(r) \/ Handle(r)

Spec == Init /\ [][Next]_promisevars

================================================================================
