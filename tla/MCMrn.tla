--------------------------------- MODULE MCMrn ---------------------------------
(****************************************************************************)
(* The mrn package over every text up to a length: a text is written token  *)
(* by token, from each of the Starts, and read at every length as a         *)
(* resource and as a grant pattern over the Probes.                         *)
(****************************************************************************)
EXTENDS Mrn

CONSTANTS
  MaxLength   \* bound: the longest text

VARIABLE text

Starts == {Prefix, <<"a", ":">>}

Tokens == {":", "*", "/"} \cup Lower \cup Upper \cup Unprintable

\* Resources against which every text is tried: each scope, paths that extend
\* one another, a path with colons, and texts that are no resource.
Probes ==
  LET mrn(service, tenant, project, path) ==
        Prefix \o service \o <<":">> \o tenant \o <<":">> \o project \o <<":">> \o path
  IN  {mrn(<<"a">>, <<>>, <<>>, <<"a">>),
       mrn(<<"a">>, <<"a">>, <<>>, <<"a">>),
       mrn(<<"a">>, <<>>, <<"a">>, <<"a">>),
       mrn(<<"a">>, <<>>, <<>>, <<"a", "/", "B">>),
       mrn(<<"a">>, <<>>, <<>>, <<"a", ":", "a">>),
       mrn(<<"a">>, <<>>, <<>>, <<":", "a">>),
       mrn(<<"mrn">>, <<>>, <<>>, <<"B">>),
       mrn(<<"a">>, <<>>, <<>>, <<"*">>),
       mrn(<<>>, <<>>, <<>>, <<"a">>)}

Init == text \in Starts

Write == \E t \in Tokens : Len(text) < MaxLength /\ text' = Append(text, t)

Spec == Init /\ [][Write]_text

--------------------------------------------------------------------------------
(* Reference definitions.                                                    *)

Stars(p) == {i \in 1..Len(p) : p[i] = "*"}

\* The "*"s before the fourth colon of p.
HeadStars(p) == {i \in Stars(p) : Cardinality({j \in Colons(p) : j < i}) < 4}

\* Where the first i characters of p end when p is laid over a text, one character
\* on one place, and the "*" at j ends at to[j].
End(p, to, i) ==
  LET before == {j \in Stars(p) : j <= i}
  IN  IF before = {} THEN i ELSE to[Max(before)] + (i - Max(before))

\* Character i of p is on one like it in r, or is a "*" on a run of characters, with
\* no colon among them if it is a "*" of the head.
Lies(p, r, to, i) ==
  IF i \in Stars(p)
  THEN /\ End(p, to, i - 1) <= to[i]
       /\ i \in HeadStars(p) => \A k \in (End(p, to, i - 1) + 1)..to[i] : r[k] # ":"
  ELSE End(p, to, i) \in 1..Len(r) /\ r[End(p, to, i)] = p[i]

\* The glob reading of a pattern: p, with its "*"s stretched, covers r.
Denotes(p, r) ==
  \E to \in [Stars(p) -> 0..Len(r)] :
    End(p, to, Len(p)) = Len(r) /\ \A i \in 1..Len(p) : Lies(p, r, to, i)

--------------------------------------------------------------------------------
\* Matching is exactly the glob whose wildcards stop at the colons of the head:
\* a pattern that parses reaches the resources it denotes and no others (Matches
\* and "a wildcard never spans a colon boundary").
MatchIsSegmentGlob ==
  ParsesAsPattern(text) =>
    \A r \in Probes : MatchPattern(text, r) <=> Parses(r) /\ Denotes(text, r)

\* No two texts are the same resource or the same pattern: what was parsed is
\* rendered as it was written (String, and Parse's promise that visually
\* different strings never authorize as one).
OneSpelling ==
  Parses(text) \/ ParsesAsPattern(text) => String(split(text)) = text

\* A resource used as a grant reaches itself and nothing else, so no resource
\* text can pass for a wider grant (validResourcePath).
ResourceIsNoWildcard ==
  Parses(text) =>
    /\ MatchPattern(text, text)
    /\ \A r \in Probes : MatchPattern(text, r) => r = text

================================================================================
