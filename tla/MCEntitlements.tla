---------------------------- MODULE MCEntitlements -----------------------------
(* An instance of Entitlements for TLC: a secret service and a storage        *)
(* service, tenants acme and acmecorp, and grants of every shape.             *)
EXTENDS Entitlements

Get == <<"secret", ":", "Get">>
Purge == <<"secret", ":", "Purge">>
Admin == <<"secret", ":", "Admin">>

Name(service, tenant, project, path) ==
  Prefix \o <<service>> \o <<":">> \o tenant \o <<":">> \o project \o <<":">> \o path

acme == <<"acme">>
acmecorp == <<"acme", "corp">>
billing == <<"billing">>

Staging == Name("secret", acme, billing, <<"staging", "/", "db">>)
Odd == Name("secret", acme, billing, <<"a", "=", "b">>)

MCResources ==
  {Staging, Odd,
   Name("secret", acme, billing, <<"prod", "/", "db">>),
   Name("secret", acme, <<>>, <<"staging", "/", "db">>),
   Name("secret", acmecorp, billing, <<"staging", "/", "db">>),
   Name("storage", acme, billing, <<"staging", "/", "db">>),
   Name("secret", acme, billing, Wild),
   <<"staging", "/", "db">>}

On(action, pattern) == action \o <<"=">> \o pattern

MCEntries ==
  {Get,
   On(Get, <<>>),
   On(Get, Name("secret", acme, billing, <<"staging", "/", "*">>)),
   On(Get, Name("secret", acmecorp, Wild, Wild)),
   On(Get, Prefix \o <<"secret", ":", "acme", ":", "*">>),
   On(Get, Name("secret", acme, billing, <<"staging", "/", "*", "/", "db">>)),
   On(Admin, Name("secret", acme, Wild, Wild)),
   On(Wild, Name("*", acme, <<>>, Wild)),
   <<" ">> \o Purge \o <<" ", "=", " ">> \o Name("storage", acme, Wild, Wild) \o <<" ">>,
   On(Purge, Odd),
   On(<<>>, Name("secret", Wild, Wild, Wild))}

\* Each word with a blank behind it.
MCScopeOf ==
  [said \in SUBSET Words |-> FoldSet(LAMBDA e, s : e \o <<" ">> \o s, <<>>, said)]

\* The claims minted here have no sub_type.
MCDowncase == [t \in {<<>>} |-> t]

MCActions == {Get, Purge}
MCVocabularies == {{}, {Admin}}
================================================================================
