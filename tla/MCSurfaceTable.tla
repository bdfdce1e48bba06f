---------------------------- MODULE MCSurfaceTable -----------------------------
(* An instance of SurfaceTable for TLC: a secrets segment that mixes          *)
(* privileges, a neighbour of an exempt path, and requests in every spelling. *)
EXTENDS SurfaceTable

Get == <<"secret", ":", "Get">>
Read == <<"secret", ":", "Read">>

api == <<"/", "api", "/">>
secrets == api \o <<"secrets">>
reveal == secrets \o <<"/", "reveal">>
setup == api \o <<"setup">>

MCPathPrefixes == {api, <<>>}
MCKeys == {<<"POST", reveal>>, <<"GET", secrets>>}
MCSegments == {<<"secrets">>}
MCMethods == {"Secret.Get"}
MCPrefixes == {setup, api \o <<"setup", "/">>, <<"/">>}
MCRules == {[permission |-> Get, actor |-> "user-only"],
            [permission |-> Read, actor |-> "any"],
            [permission |-> <<>>, actor |-> "any"]}
MCBlanket == {<<"secret", ":", "Admin">>, WildcardAction}
MCOperations == {Get}
MCUpcase ==
  [v \in {"GET", "HEAD", "post"} |-> IF v = "post" THEN "POST" ELSE v]

MCSurfaces ==
  [path : {<<"/">>, api, secrets, secrets \o <<"/">>, reveal, reveal \o <<"s">>, setup,
           setup \o <<"/", "status">>, setup \o <<"-admin">>, <<"/", "secrets", "/", "x">>},
   verb : DOMAIN MCUpcase, method : {""}]
  \cup [path : {<<>>}, verb : {""}, method : {"Secret.Get", "Secret.List"}]
================================================================================
