-------------------------------- MODULE Grants ---------------------------------
(****************************************************************************)
(* The grant grammar and the decisions of a Principal (authz/authz.go).     *)
(* Texts are the token sequences of Mrn; an action such as secret:Get is    *)
(* <<"secret", ":", "Get">>.  A claim list is a set of texts: no decision    *)
(* depends on the order or the repetition of its entries.                   *)
(****************************************************************************)
EXTENDS Mrn

WildcardAction == Wild

--------------------------------------------------------------------------------
(* Parsing.                                                                  *)

TrimSpace(s) ==
  LET kept == {i \in 1..Len(s) : s[i] # " "}
  IN  IF kept = {} THEN <<>>
      ELSE SubSeq(s, CHOOSE i \in kept : \A j \in kept : i <= j,
                     CHOOSE i \in kept : \A j \in kept : i >= j)

\* Where "=" stands in s.
Equals(s) == {i \in 1..Len(s) : s[i] = "="}

\* The first "=" splits; a text without one is an action, service-wide.
ParseGrant(raw) ==
  LET s == TrimSpace(raw)
  IN  IF Equals(s) = {} THEN [action |-> s, resource |-> <<>>]
      ELSE LET i == CHOOSE k \in Equals(s) : \A j \in Equals(s) : k <= j
           IN  [action   |-> TrimSpace(SubSeq(s, 1, i - 1)),
                resource |-> TrimSpace(SubSeq(s, i + 1, Len(s)))]

\* ParseGrants: entries without an action are skipped.
ParseGrants(raws) == {g \in {ParseGrant(raw) : raw \in raws} : g.action # <<>>}

\* Grant.String.
GrantString(g) ==
  IF g.resource = <<>> THEN g.action ELSE g.action \o <<"=">> \o g.resource

--------------------------------------------------------------------------------
(* Decisions.  A principal has the grants of its token and the blanket       *)
(* actions of the service that guards it.                                    *)

actionCovers(p, granted, required) ==
  \/ granted = required
  \/ granted = WildcardAction
  \/ granted # <<>> /\ granted \in p.blanket

\* Mutant of Allows: a blanket action settles the question.
AllowsAdmin(p, action, resource) ==
  /\ action # <<>> /\ Parses(resource)
  /\ \E g \in p.grants :
       /\ actionCovers(p, g.action, action)
       /\ g.resource = <<>> \/ g.action \in p.blanket \/ MatchPattern(g.resource, resource)

\* Mutant of Allows: a grant that cannot be parsed ends the search.
AllowsUntilMalformed(p, action, resource) ==
  /\ action # <<>> /\ Parses(resource)
  /\ \A g \in p.grants :
       actionCovers(p, g.action, action) /\ g.resource # <<>> => ParsesAsPattern(g.resource)
  /\ \E g \in p.grants :
       /\ actionCovers(p, g.action, action)
       /\ g.resource = <<>> \/ MatchPattern(g.resource, resource)

\* Mutant of Allows: a pattern that cannot be parsed is read as no pattern.
AllowsMalformed(p, action, resource) ==
  /\ action # <<>> /\ Parses(resource)
  /\ \E g \in p.grants :
       /\ actionCovers(p, g.action, action)
       /\ ~ParsesAsPattern(g.resource) \/ MatchPattern(g.resource, resource)

\* The operation check.
Allows(p, action, resource) ==
  /\ action # <<>> /\ Parses(resource)
  /\ \E g \in p.grants :
       /\ actionCovers(p, g.action, action)
       /\ g.resource = <<>> \/ MatchPattern(g.resource, resource)

\* AllowsAny of a set of actions.
AllowsAny(p, resource, actions) == \E a \in actions : Allows(p, a, resource)

\* Mutant of HasAction: only a grant that names the action counts.
HasActionByName(p, action) ==
  action # <<>> /\ \E g \in p.grants : g.action = action

\* The check before the target is known.
HasAction(p, action) ==
  action # <<>> /\ \E g \in p.grants : actionCovers(p, g.action, action)

\* HasScope: the entry, verbatim.
HasScope(p, scope) == scope \in p.scopes

HasAnyScope(p, scopes) == \E s \in scopes : HasScope(p, s)

================================================================================
