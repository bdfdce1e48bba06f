-------------------------------- MODULE MCGuard --------------------------------
(* An instance of Guard for TLC: the API of a secret service and its admin    *)
(* surface, with different blanket actions and one verifier cache.            *)
EXTENDS Guard, TLC

CONSTANTS api, admin, human, robot, forged, stale

Get == <<"secret", ":", "Get">>
Purge == <<"secret", ":", "Purge">>
Root == <<"secret", ":", "Root">>
Admin == <<"secret", ":", "Admin">>

Name(tenant, path) == Prefix \o <<"secret", ":", tenant, ":", ":">> \o path
Staging == Name("acme", <<"staging", "/", "db">>)
Prod == Name("acme", <<"prod", "/", "db">>)

\* A user who may read staging, and a service with the admin action in acme.
MCSays ==
  LET principal(kind, scopes) ==
        [scopes |-> scopes, grants |-> ParseGrants(scopes), kind |-> kind,
         blanket |-> {}, filled |-> FALSE]
  IN  [t \in {human, robot} |->
         IF t = human
         THEN principal("user", {Get \o <<"=">> \o Name("acme", <<"staging", "/", "*">>)})
         ELSE principal("service", {Admin \o <<"=">> \o Name("acme", Wild)})]

Http(verb, path) == [path |-> path, verb |-> verb, method |-> ""]
Health == Http("GET", <<"/", "healthz">>)
Reveal == Http("POST", <<"/", "secrets", "/", "reveal">>)
Projects == Http("POST", <<"/", "projects">>)
PurgeRPC == [path |-> <<>>, verb |-> "", method |-> "Secret.Purge"]

MCSurfaces == {Health, Reveal, Projects, PurgeRPC}

Nothing == [x \in {} |-> {}]

\* The admin surface maps no gRPC method.
MCMapOf ==
  [g \in {api, admin} |->
     [prefix |-> <<"/">>,
      exact |-> <<"POST", Reveal.path>> :> [permission |-> Get, actor |-> "any"],
      routes |-> <<"projects">> :> [read |-> [permission |-> <<>>, actor |-> "any"],
                                    write |-> [permission |-> <<>>, actor |-> "user-only"]],
      methods |-> IF g = api THEN "Secret.Purge" :> Purge ELSE Nothing, actors |-> Nothing, operations |-> {Get},
      blanket |-> IF g = api THEN {Admin} ELSE {Root},
      exemptPaths |-> {<<"/", "healthz">>}, exemptMethods |-> {},
      exempt |-> {}, routeKey |-> NoHook]]

\* The admin surface resolves no targets.
MCTargetOf ==
  [g \in {api, admin} |->
     [s \in MCSurfaces |-> IF g = api /\ s = Reveal THEN Prod ELSE NoTarget]]

Set == <<"set">>
Env(issuer, development, reachable) ==
  [jwks |-> Set, issuer |-> issuer, audience |-> Set,
   development |-> development, reachable |-> reachable]
MCEnvironments ==
  {Env(Set, FALSE, TRUE), Env(Set, TRUE, FALSE), Env(<<" ">>, TRUE, TRUE),
   Env(<<>>, FALSE, TRUE)}

MCVerifiers == [g \in {api, admin} |-> IF g = api THEN {"cache", "none"} ELSE {"cache"}]

MCChecks == {[action |-> Get, target |-> Staging], [action |-> Purge, target |-> NoTarget]}

MCUpcase == [v \in {"GET", "POST", ""} |-> v]

\* What is wrong with a bad token matters to nothing in the model.
SlotSymmetry == Permutations(Requests) \cup Permutations(Forged)
================================================================================
