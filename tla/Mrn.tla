---------------------------------- MODULE Mrn ----------------------------------
(****************************************************************************)
(* The mrn package: parsing resource names and grant patterns, and matching *)
(* one against the other.                                                   *)
(*                                                                          *)
(* A text is a sequence of tokens.  ":", "*", "/", "=" and " " stand for    *)
(* themselves and "mrn" for the scheme; the rest are the letters of CONSTANT*)
(* classes that the grammar tells apart.  The empty text is the empty       *)
(* string.                                                                  *)
(****************************************************************************)
EXTENDS Integers, Sequences, FiniteSets, SequencesExt

CONSTANTS
  Lower,        \* lower-case letters, digits, hyphens
  Upper,        \* other printable characters
  Unprintable   \* bytes that unicode.IsPrint refuses, invalid UTF-8 included

ASSUME MrnAssumption ==
  /\ {":", "*", "/", "=", " "} \cap (Lower \cup Upper \cup Unprintable) = {}
  /\ "mrn" \in Lower
  /\ Lower \cap Upper = {} /\ Unprintable \cap (Lower \cup Upper) = {}

Prefix == <<"mrn", ":">>

IsMRN(s) == IsPrefix(Prefix, s)

--------------------------------------------------------------------------------
(* split: the "mrn:" prefix and at least four colons; the fifth part keeps   *)
(* the colons beyond them.                                                   *)

Colons(s) == {i \in 1..Len(s) : s[i] = ":"}

\* Where the k-th colon of s is.
Colon(s, k) ==
  CHOOSE i \in Colons(s) : Cardinality({j \in Colons(s) : j <= i}) = k

Splits(s) == IsMRN(s) /\ Cardinality(Colons(s)) >= 4

\* Mutant of split: strings.Split, without the limit of 5.
splitEverywhere(s) ==
  [service  |-> SubSeq(s, Colon(s, 1) + 1, Colon(s, 2) - 1),
   tenant   |-> SubSeq(s, Colon(s, 2) + 1, Colon(s, 3) - 1),
   project  |-> SubSeq(s, Colon(s, 3) + 1, Colon(s, 4) - 1),
   path     |-> SubSeq(s, Colon(s, 4) + 1,
                  IF Cardinality(Colons(s)) > 4 THEN Colon(s, 5) - 1 ELSE Len(s))]

\* The parts of a text that splits.
split(s) ==
  [service  |-> SubSeq(s, Colon(s, 1) + 1, Colon(s, 2) - 1),
   tenant   |-> SubSeq(s, Colon(s, 2) + 1, Colon(s, 3) - 1),
   project  |-> SubSeq(s, Colon(s, 3) + 1, Colon(s, 4) - 1),
   path     |-> SubSeq(s, Colon(s, 4) + 1, Len(s))]

\* MRN.String and Pattern.String.
String(m) ==
  Prefix \o m.service \o <<":">> \o m.tenant \o <<":">> \o m.project
         \o <<":">> \o m.path

--------------------------------------------------------------------------------
(* What a part may be.                                                       *)

Wild == <<"*">>

validSegment(s) == \A i \in 1..Len(s) : s[i] \in Lower

\* Mutant of validResourcePath: a "*" in a resource is taken literally.
starsAllowed(path) ==
  /\ path # <<>> /\ path[1] # "/"
  /\ \A i \in 1..Len(path) : path[i] \notin Unprintable

validResourcePath(path) ==
  /\ path # <<>> /\ path[1] # "/"
  /\ \A i \in 1..Len(path) : path[i] \notin Unprintable \cup {"*"}

EndsInStar(path) == path # <<>> /\ Last(path) = "*"

\* One "*" is the whole path or its last character.
validPathPattern(path) ==
  \/ path = Wild
  \/ validResourcePath(IF EndsInStar(path) THEN Front(path) ELSE path)

\* Parse(s) returns split(s) and no error.
Parses(s) ==
  /\ Splits(s)
  /\ LET m == split(s)
     IN  /\ m.service # <<>>
         /\ validSegment(m.service)
         /\ validSegment(m.tenant)
         /\ validSegment(m.project)
         /\ validResourcePath(m.path)

\* ParsePattern(s) returns split(s) and no error.
ParsesAsPattern(s) ==
  /\ Splits(s)
  /\ LET p == split(s)
     IN  /\ p.service # <<>>
         /\ \A part \in {p.service, p.tenant, p.project} :
              part = Wild \/ validSegment(part)
         /\ validPathPattern(p.path)

--------------------------------------------------------------------------------
(* Matching.                                                                 *)

segmentMatches(pattern, value) == pattern = Wild \/ pattern = value

\* Mutant of pathMatches: any path that holds the literal part matches.
pathContains(pattern, value) ==
  IF EndsInStar(pattern)
  THEN \E i \in 0..Len(value) : IsPrefix(Front(pattern), SubSeq(value, i + 1, Len(value)))
  ELSE pattern = value

pathMatches(pattern, value) ==
  IF EndsInStar(pattern) THEN IsPrefix(Front(pattern), value) ELSE pattern = value

Matches(p, r) ==
  /\ segmentMatches(p.service, r.service)
  /\ segmentMatches(p.tenant, r.tenant)
  /\ segmentMatches(p.project, r.project)
  /\ pathMatches(p.path, r.path)

\* MatchPattern(pattern, resource) returns true and no error.
MatchPattern(pattern, resource) ==
  /\ ParsesAsPattern(pattern) /\ Parses(resource)
  /\ Matches(split(pattern), split(resource))

================================================================================
