------------------------------ MODULE MCVerifier -------------------------------
(* An instance of Verifier for TLC: one client, two signing keys, handlers    *)
(* behind gates of both packages in the right order and in wrong ones, and    *)
(* two guards with different blanket actions.                                 *)
EXTENDS Verifier, TLC

CONSTANTS client, k1, k2, rogue

Get == <<"secret", ":", "Get">>
Purge == <<"secret", ":", "Purge">>
Admin == <<"secret", ":", "Admin">>
Root == <<"secret", ":", "Root">>

Name(path) == Prefix \o <<"secret", ":", "acme", ":", ":">> \o path
Staging == Name(<<"staging">>)
Prod == Name(<<"prod">>)

MCConfigs ==
  {[secret |-> TRUE, jwks |-> TRUE, issuer |-> "auth", audience |-> "api"],
   [secret |-> FALSE, jwks |-> TRUE, issuer |-> NoCheck, audience |-> NoCheck],
   [secret |-> TRUE, jwks |-> FALSE, issuer |-> NoCheck, audience |-> NoCheck]}

Minted(kid, flow, sub_type, svc) ==
  [kid |-> kid, signer |-> kid, alg |-> "RS256", issuer |-> "auth", audience |-> "api",
   flow |-> flow,
   claims |-> [NoClaims EXCEPT !["scope"] = Text(Get \o <<" ">> \o Purge),
                               !["sub_type"] = sub_type, !["svc"] = svc]]

login == Minted(k1, "login", Other, Other)
listed ==
  [Minted(k1, "login", Other, Other) EXCEPT
     !.claims["scope"] = Other, !.claims["permissions"] = ListOf({Text(Get), Other})]
device == Minted(k2, "device", Text(<<"device">>), Other)
admin ==
  [Minted(k1, "login", Other, Other) EXCEPT
     !.claims["scope"] = Text(Admin \o <<"=">> \o Staging)]
service == Minted(k2, "service", Other, Text(<<"secret">>))
exchange == Minted(k1, "exchange", Text(<<" ", "Exchange">>), Text(<<" ">>))
agent == Minted(k1, "agent", Text(<<"agent">>), Other)
foreign == [login EXCEPT !.audience = "billing"]
forged == [login EXCEPT !.signer = rogue]

MCTokens == {login, listed, admin, device, service, exchange, agent, foreign, forged}
MCMortal == {device}
MCFlows == {"login", "device", "service", "exchange", "agent"}
MCHumanFlows == {"login", "device"}
MCDowncase ==
  [t \in {<<>>, <<"device">>, <<"Exchange">>, <<"agent">>} |->
     IF t = <<"Exchange">> THEN <<"exchange">> ELSE t]

Http(verb, path) == [path |-> path, verb |-> verb, method |-> ""]
Health == Http("GET", <<"/", "healthz">>)
Console == Http("POST", <<"/", "console">>)
Reveal(name) == Http("POST", <<"/", "reveal", "/", name>>)
Rotate == Http("POST", <<"/", "rotate">>)
Stray == Http("POST", <<"/", "stray">>)
Surfaces == {Health, Console, Reveal("staging"), Reveal("prod"), Rotate, Stray}

Open == [permission |-> <<>>, actor |-> "user-only"]
Closed == [permission |-> Get, actor |-> "any"]
Automatic == [permission |-> Get, actor |-> "service-only"]
Table(blanket) ==
  [prefix |-> <<"/">>, exact |-> <<"POST", Rotate.path>> :> Automatic,
   routes |-> <<"console">> :> [read |-> Open, write |-> Open]
                @@ <<"reveal">> :> [read |-> Closed, write |-> Closed],
   methods |-> <<>>, actors |-> <<>>, operations |-> {}, blanket |-> blanket,
   exemptPaths |-> {Health.path}, exemptMethods |-> {}, exempt |-> {}, routeKey |-> NoHook]

Targets ==
  [s \in Surfaces |-> CASE s = Reveal("staging") -> Staging
                       [] s = Reveal("prod")    -> Prod
                       [] OTHER                 -> NoTarget]

authenticate == [gate |-> "authenticate"]
scope == [gate |-> "scope", scope |-> Get]
purge == [gate |-> "permission", permission |-> Purge]
api == [gate |-> "guard", map |-> Table({Admin}), target |-> Targets]
ops == [gate |-> "guard", map |-> Table({Root}), target |-> [s \in Surfaces |-> NoTarget]]

MCHandlers ==
  [surface : {Console}, chain : {<<authenticate, scope>>, <<scope, authenticate>>,
                                 <<purge, api>>, <<authenticate, purge>>, <<api, ops, purge>>}]
  \cup [surface : {Reveal("staging"), Reveal("prod")}, chain : {<<api, purge>>}]
  \cup {[surface |-> Rotate, chain |-> <<authenticate, api, scope>>],
        [surface |-> Health, chain |-> <<api, purge>>],
        [surface |-> Stray, chain |-> <<api>>]}

MCUpcase == [v \in {"GET", "POST", ""} |-> v]
================================================================================
