------------------------------ MODULE Entitlements ------------------------------
(****************************************************************************)
(* What a subject may do as the claim list of its token changes from one    *)
(* minting to the next: Auth adds entries and takes them away, and mints    *)
(* them in one claim shape or the other (external); every service reads the *)
(* list with ParseGrants and decides with Allows and HasAction under its    *)
(* own blanket actions (authz/authz.go, authz/adapter.go).                  *)
(****************************************************************************)
EXTENDS ClaimsAdapter

CONSTANTS
  Entries,       \* raw claim entries Auth is seen to mint
  Actions,       \* the actions that services require
  Resources,     \* texts that services pass as the target of an operation
  Vocabularies,  \* the blanket actions of one service or another
  ScopeOf        \* external: the scope string in which Auth mints a set of words

Letters == {":", "*", "/", "=", " "} \cup Lower \cup Upper \cup Unprintable

ASSUME EntitlementsAssumption ==
  /\ <<>> \notin Actions
  /\ {} \in Vocabularies
  /\ Entries \subseteq Seq(Letters)

\* The entries that can stand in a scope string.
Words == {e \in Entries : e # <<>> /\ \A i \in 1..Len(e) : e[i] # " "}

\* Entry e is in s at place i, apart from what is around it.
StandsAt(e, s, i) ==
  /\ i + Len(e) <= Len(s) + 1 /\ SubSeq(s, i, i + Len(e) - 1) = e
  /\ i > 1 => s[i - 1] = " "
  /\ i + Len(e) <= Len(s) => s[i + Len(e)] = " "

\* A scope string names the words that were said, in any order, and has nothing
\* between them but blanks.
ASSUME ScopeContract ==
  \A said \in SUBSET Words :
    LET s == ScopeOf[said]
    IN  /\ s \in Seq(Letters)
        /\ \A e \in said : \E i \in 1..Len(s) : StandsAt(e, s, i)
        /\ \A k \in 1..Len(s) : s[k] # " " =>
             \E e \in said, i \in 1..k : StandsAt(e, s, i) /\ k < i + Len(e)

VARIABLE scopes   \* the claim list of the subject's token

--------------------------------------------------------------------------------
Init == scopes = {}

\* External: the next token carries one entry more, or one entry less.
Widen == \E e \in Entries \ scopes : scopes' = scopes \cup {e}
Narrow == \E e \in scopes : scopes' = scopes \ {e}

Next == Widen \/ Narrow

Spec == Init /\ [][Next]_scopes

--------------------------------------------------------------------------------
\* The principal of a token with these entries, at a service with these blanket
\* actions.
PrincipalOf(entries, blanket) ==
  [scopes |-> entries, grants |-> ParseGrants(entries), blanket |-> blanket]

\* The surface guard asks no more than the operation check: whoever may perform an
\* action on some resource passes the check that comes before the resource is known
\* (HasAction and Allows read the same grants through the same actionCovers).
Layer1CoversLayer2 ==
  \A v \in Vocabularies, a \in Actions, r \in Resources :
    Allows(PrincipalOf(scopes, v), a, r) => HasAction(PrincipalOf(scopes, v), a)

\* Every entry counts for itself: one that cannot be evaluated neither grants nor
\* takes away what another grants (the continue in Allows).
EntriesAreIndependent ==
  \A v \in Vocabularies, a \in Actions, r \in Resources :
    Allows(PrincipalOf(scopes, v), a, r)
      <=> \E e \in scopes : Allows(PrincipalOf({e}, v), a, r)

\* The resources a principal reaches by any action that is required somewhere or
\* that it was granted.
Reach(p) ==
  {r \in Resources : \E a \in Actions \cup {g.action : g \in p.grants} : Allows(p, a, r)}

\* A service's blanket actions widen what a grant does, never what it reaches: "a
\* blanket grant written for one tenant is still confined to that tenant's MRNs"
\* (Map.BlanketActions).
BlanketWidensActionsOnly ==
  \A v \in Vocabularies :
    Reach(PrincipalOf(scopes, v)) = Reach(PrincipalOf(scopes, {}))

\* The text of entry e behind its first "=".
PatternText(e) ==
  TrimSpace(SubSeq(e, (CHOOSE i \in Equals(e) : \A j \in Equals(e) : i <= j) + 1, Len(e)))

\* Entry e is written for tenant t, be the rest of its pattern well-formed or not.
WrittenFor(e, t) ==
  /\ Equals(e) # {}
  /\ LET p == PatternText(e)
     IN  /\ IsMRN(p) /\ Cardinality(Colons(p)) >= 3
         /\ SubSeq(p, Colon(p, 2) + 1, Colon(p, 3) - 1) = t

\* Whoever may act on a resource holds an entry for it that is service-wide, wild in
\* the tenant, or written for the resource's tenant: no entry for one tenant, and no
\* malformed one, reaches another tenant or the platform (Matches, and the error
\* path of ParsePattern in Allows).
TenantIsolation ==
  \A r \in {x \in Resources : Parses(x)}, v \in Vocabularies, a \in Actions :
    Allows(PrincipalOf(scopes, v), a, r)
      => \E e \in scopes : Equals(e) = {} \/ PatternText(e) = <<>>
                           \/ WrittenFor(e, Wild) \/ WrittenFor(e, split(r).tenant)

\* External: the claims in which Auth mints a scope string of the words in said and
\* a permissions array of the entries in listed, among values it has no use for.
MintedAs(said, listed) ==
  [NoClaims EXCEPT
     !["scope"] = IF said = {} THEN Other
                  ELSE Text(ScopeOf[said]),
     !["permissions"] = IF listed = {} THEN Other
                        ELSE ListOf({Text(e) : e \in listed} \cup {Other, Text(<<" ">>)})]

GrantsOf(raw) == PrincipalFromClaims(ClaimsOf(raw)).grants

\* An entry is the same grant in either claim shape and in both: a scope string of
\* those entries that can stand in one, an array of the others or of all of them,
\* values of other types beside them (Verify, PrincipalFromClaims).
ShapesAgree ==
  LET words == scopes \cap Words
  IN  /\ GrantsOf(MintedAs({}, scopes)) = ParseGrants(scopes)
      /\ GrantsOf(MintedAs(words, scopes \ words)) = ParseGrants(scopes)
      /\ GrantsOf(MintedAs(words, scopes)) = ParseGrants(scopes)

ServiceOf(action) == SubSeq(action, 1, 1)

\* "A BARE action is SERVICE-WIDE (equivalent to =mrn:<service>:*:*:*)" (the grant
\* grammar of package authz): the two forms allow the same.
BareIsServiceWide ==
  \A e \in scopes \cap Actions, r \in Resources :
    LET wide == e \o <<"=">> \o Prefix \o ServiceOf(e) \o <<":", "*", ":", "*", ":", "*">>
    IN  Allows(PrincipalOf({e}, {}), e, r) <=> Allows(PrincipalOf({wide}, {}), e, r)

\* "A malformed grant pattern is treated as no grant, never as a wildcard" (the
\* comment of Allows and its test): an entry that has an "=" grants nothing if
\* ParsePattern refuses what is behind it.
MalformedIsNoGrant ==
  \A e \in scopes, v \in Vocabularies, a \in Actions, r \in Resources :
    Equals(e) # {} /\ ~ParsesAsPattern(PatternText(e))
      => ~Allows(PrincipalOf({e}, v), a, r)

================================================================================
