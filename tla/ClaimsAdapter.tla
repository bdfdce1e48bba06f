----------------------------- MODULE ClaimsAdapter -----------------------------
(****************************************************************************)
(* From the claims of a verified token to the Principal that the guard works *)
(* with (auth/verifier.go, Verify from the decoded claims on;                *)
(* authz/adapter.go).                                                        *)
(*                                                                          *)
(* The code reads a claim by asserting its Go type, so a claim is a text, a  *)
(* list, or Other: absent, or a value of another type.                       *)
(****************************************************************************)
EXTENDS Grants

CONSTANT Downcase   \* strings.ToLower, for every sub_type minted

Text(s) == [is |-> "text", text |-> s]
ListOf(entries) == [is |-> "list", entries |-> entries]
Other == [is |-> "other"]

\* The claims that are read; the last four are not of the registered JWT set.
ClaimKeys ==
  {"sub", "tenant", "scope", "permissions", "sub_type", "svc", "tenant_slug"}

\* A token without any of them.
NoClaims == [key \in ClaimKeys |-> Other]

stringClaim(raw, key) == IF raw[key].is = "text" THEN raw[key].text ELSE <<>>

\* The words of s: its longest parts without a blank.
Fields(s) ==
  LET IsWord(i, j) ==
        /\ \A k \in i..j : s[k] # " "
        /\ i = 1 \/ s[i - 1] = " "
        /\ j = Len(s) \/ s[j + 1] = " "
  IN  {SubSeq(s, w[1], w[2]) :
         w \in {v \in (1..Len(s)) \X (1..Len(s)) : v[1] <= v[2] /\ IsWord(v[1], v[2])}}

\* Claims: what Verify makes of the decoded claims.
ClaimsOf(raw) ==
  [subject |-> stringClaim(raw, "sub"), tenant |-> stringClaim(raw, "tenant"),
   scopes |-> Fields(stringClaim(raw, "scope")), raw |-> raw]

--------------------------------------------------------------------------------
(* The principal.                                                            *)

\* The texts of the permissions array; blank ones and other values are skipped.
Permissions(raw) ==
  IF raw["permissions"].is # "list" THEN {}
  ELSE {e.text : e \in {x \in raw["permissions"].entries :
                          x.is = "text" /\ TrimSpace(x.text) # <<>>}}

machineSubjectTypes == {<<"service">>, <<"client">>, <<"exchange">>}
humanSubjectTypes == {<<"user">>, <<"device">>, <<"ciba">>}

\* Mutant of ActorKindFromClaims: a flow that is not known to be a machine's is a
\* human's.
KindUnlessMachine(raw) ==
  LET subjectType == Downcase[TrimSpace(stringClaim(raw, "sub_type"))]
  IN  IF TrimSpace(stringClaim(raw, "svc")) # <<>> \/ subjectType \in machineSubjectTypes
      THEN "service" ELSE "user"

\* A service identity is a service's; a flow stamped by anything but a human's
\* sub_type is a machine's; a flow that stamps nothing is an interactive login.
ActorKindFromClaims(raw) ==
  LET subjectType == Downcase[TrimSpace(stringClaim(raw, "sub_type"))]
  IN  IF TrimSpace(stringClaim(raw, "svc")) # <<>> THEN "service"
      ELSE IF subjectType = <<>> \/ subjectType \in humanSubjectTypes THEN "user"
      ELSE "service"

\* Mutant of EntitlementsIn: only one of the two shapes is read.
ScopeEntries(c) == c.scopes

\* The entries of both claim shapes.
EntitlementsIn(c) == c.scopes \cup Permissions(c.raw)

PrincipalFromClaims(c) ==
  [subject |-> c.subject,
   tenant  |-> IF c.tenant # <<>> THEN c.tenant ELSE stringClaim(c.raw, "tenant_slug"),
   scopes  |-> EntitlementsIn(c),
   grants  |-> ParseGrants(EntitlementsIn(c)),
   kind    |-> ActorKindFromClaims(c.raw),
   blanket |-> {}, filled |-> FALSE]

================================================================================
