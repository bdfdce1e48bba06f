------------------------------- MODULE MrnProofs -------------------------------
(* Texts of any length and of any letters read back as they were written, and *)
(* a resource is no wider grant than itself.                                  *)
EXTENDS MCMrn, FiniteSetTheorems, SequenceTheorems, WellFoundedInduction, TLAPS

--------------------------------------------------------------------------------
(* Colons.                                                                    *)

\* A set of places that is not empty has a first one.
LEMMA LeastExists ==
  ASSUME NEW S \in SUBSET Nat, S # {}
  PROVE  \E i \in S : \A j \in S : i <= j
<1>1. \E i \in S : \A j \in S : ~(<<j, i>> \in OpToRel(<, Nat))
  BY WFMin, NatLessThanWellFounded, Zenon
<1>2. \E i \in S : \A j \in S : ~(j < i)
  BY <1>1, Zenon DEF OpToRel
<1> QED
  BY <1>2

\* The colons of s up to place i.
UpTo(s, i) == {j \in Colons(s) : j <= i}

\* A text has finitely many colons.
LEMMA ColonsFinite ==
  ASSUME NEW T, NEW s \in Seq(T)
  PROVE  /\ Colons(s) \in SUBSET Nat
         /\ IsFiniteSet(Colons(s)) /\ Cardinality(Colons(s)) \in Nat
         /\ \A i : IsFiniteSet(UpTo(s, i)) /\ Cardinality(UpTo(s, i)) \in Nat
<1>1. Len(s) \in Nat /\ Colons(s) \in SUBSET (1..Len(s)) /\ IsFiniteSet(1..Len(s))
  BY FS_Interval DEF Colons
<1>2. IsFiniteSet(Colons(s))
  BY <1>1, FS_Subset
<1>3. \A i : UpTo(s, i) \in SUBSET Colons(s)
  BY DEF UpTo
<1>4. \A i : IsFiniteSet(UpTo(s, i))
  BY <1>2, <1>3, FS_Subset
<1> QED
  BY <1>1, <1>2, <1>4, FS_CardinalityType

\* A longer part has the colons of a shorter one.
LEMMA UpToGrows ==
  ASSUME NEW T, NEW s \in Seq(T), NEW n \in Nat, NEW m \in Nat, n <= m
  PROVE  UpTo(s, n) \in SUBSET UpTo(s, m)
<1>1. ASSUME NEW j \in Colons(s), j <= n PROVE j <= m
  <2>1. j \in Nat
    BY ColonsFinite
  <2> QED
    BY <1>1, <2>1
<1> QED
  BY <1>1 DEF UpTo

\* Behind place i, the next colon.
LEMMA NextColon ==
  ASSUME NEW T, NEW s \in Seq(T), NEW i \in Nat,
         Cardinality(UpTo(s, i)) < Cardinality(Colons(s))
  PROVE  \E m \in Colons(s) :
           m > i /\ Cardinality(UpTo(s, m)) = Cardinality(UpTo(s, i)) + 1
<1> DEFINE R == {j \in Colons(s) : ~(j <= i)}
<1>1. R # {}
  <2>1. R = {} => UpTo(s, i) = Colons(s)
    BY DEF UpTo
  <2> QED
    BY <2>1, ColonsFinite
<1>2. R \in SUBSET Nat
  BY ColonsFinite
<1>3. PICK m \in R : \A j \in R : m <= j
  BY <1>1, <1>2, LeastExists
<1>4. m \in Colons(s) /\ m > i /\ m \in Nat
  BY <1>2
<1>5. UpTo(s, m) = UpTo(s, i) \cup {m}
  <2>1. ASSUME NEW j \in Colons(s) PROVE j <= m <=> j <= i \/ j = m
    <3>1. j \in Nat
      BY ColonsFinite
    <3>2. CASE j <= i
      BY <1>4, <3>1, <3>2
    <3>3. CASE ~(j <= i)
      BY <1>3, <1>4, <3>1, <3>3
    <3> QED
      BY <3>2, <3>3
  <2> QED
    BY <1>4, <2>1 DEF UpTo
<1>6. m \notin UpTo(s, i)
  BY <1>4 DEF UpTo
<1> QED
  BY <1>4, <1>5, <1>6, ColonsFinite, FS_AddElement

\* Colon(s, k) is the colon that has k up to it.
LEMMA ColonIs ==
  ASSUME NEW T, NEW s \in Seq(T), NEW m \in Colons(s)
  PROVE  Colon(s, Cardinality(UpTo(s, m))) = m
<1>1. ASSUME NEW n \in Colons(s), Cardinality(UpTo(s, n)) = Cardinality(UpTo(s, m)), n <= m
      PROVE  n = m
  <2>1. UpTo(s, n) \in SUBSET UpTo(s, m)
    BY <1>1, ColonsFinite, UpToGrows
  <2>2. UpTo(s, m) = UpTo(s, n)
    BY <1>1, <2>1, ColonsFinite, FS_Subset
  <2>3. m \in Nat /\ n \in Nat
    BY ColonsFinite
  <2> QED
    BY <1>1, <2>2, <2>3 DEF UpTo
<1>2. ASSUME NEW n \in Colons(s), Cardinality(UpTo(s, n)) = Cardinality(UpTo(s, m)), m <= n
      PROVE  n = m
  <2>1. UpTo(s, m) \in SUBSET UpTo(s, n)
    BY <1>2, ColonsFinite, UpToGrows
  <2>2. UpTo(s, m) = UpTo(s, n)
    BY <1>2, <2>1, ColonsFinite, FS_Subset
  <2>3. m \in Nat /\ n \in Nat
    BY ColonsFinite
  <2> QED
    BY <1>2, <2>2, <2>3 DEF UpTo
<1>3. ASSUME NEW n \in Colons(s), Cardinality(UpTo(s, n)) = Cardinality(UpTo(s, m))
      PROVE  n = m
  <2>1. n \in Nat /\ m \in Nat
    BY ColonsFinite
  <2> QED
    BY <1>1, <1>2, <1>3, <2>1
<1>4. Colon(s, Cardinality(UpTo(s, m)))
        = CHOOSE i \in Colons(s) : Cardinality(UpTo(s, i)) = Cardinality(UpTo(s, m))
  BY DEF Colon, UpTo
<1> QED
  BY <1>3, <1>4

\* Where the first four colons of a text are that splits, and how many are up to each.
LEMMA ColonsInOrder ==
  ASSUME NEW T, NEW s \in Seq(T), Splits(s)
  PROVE  /\ s[1] = "mrn" /\ Colon(s, 1) = 2
         /\ \A k \in 1..4 : Colon(s, k) \in 1..Len(s) /\ s[Colon(s, k)] = ":"
         /\ Colon(s, 1) < Colon(s, 2) /\ Colon(s, 2) < Colon(s, 3)
         /\ Colon(s, 3) < Colon(s, 4)
         /\ \A k \in 1..4 : Cardinality(UpTo(s, Colon(s, k))) = k
<1>1. s[1] = "mrn" /\ s[2] = ":" /\ Len(s) >= 2 /\ Len(s) \in Nat
  <2>1. Len(Prefix) = 2 /\ Prefix[1] = "mrn" /\ Prefix[2] = ":"
    BY DEF Prefix
  <2>2. Len(s) >= 2 /\ SubSeq(Prefix, 1, 2) = SubSeq(s, 1, 2)
    BY <2>1 DEF Splits, IsMRN, IsPrefix
  <2>3. SubSeq(s, 1, 2)[1] = s[1] /\ SubSeq(s, 1, 2)[2] = s[2]
    BY <2>2, SubSeqProperties
  <2>4. SubSeq(Prefix, 1, 2)[1] = "mrn" /\ SubSeq(Prefix, 1, 2)[2] = ":"
    BY <2>1 DEF Prefix
  <2> QED
    BY <2>2, <2>3, <2>4
<1>2. 2 \in Colons(s) /\ UpTo(s, 2) = {2}
  BY <1>1 DEF Colons, UpTo
<1>3. Cardinality(UpTo(s, 2)) = 1
  BY <1>2, FS_Singleton
<1>4. Cardinality(Colons(s)) \in Nat /\ Cardinality(Colons(s)) >= 4
  BY ColonsFinite DEF Splits
<1>5. PICK c2 \in Colons(s) : c2 > 2 /\ Cardinality(UpTo(s, c2)) = 2
  BY <1>3, <1>4, NextColon
<1>6. c2 \in Nat
  BY ColonsFinite
<1>7. PICK c3 \in Colons(s) : c3 > c2 /\ Cardinality(UpTo(s, c3)) = 3
  BY <1>4, <1>5, <1>6, NextColon
<1>8. c3 \in Nat
  BY ColonsFinite
<1>9. PICK c4 \in Colons(s) : c4 > c3 /\ Cardinality(UpTo(s, c4)) = 4
  BY <1>4, <1>7, <1>8, NextColon
<1>10. Colon(s, 1) = 2 /\ Colon(s, 2) = c2 /\ Colon(s, 3) = c3 /\ Colon(s, 4) = c4
  BY <1>2, <1>3, <1>5, <1>7, <1>9, ColonIs
<1>11. \A c \in Colons(s) : c \in 1..Len(s) /\ s[c] = ":"
  BY DEF Colons
<1>12. \A k \in 1..4 : Cardinality(UpTo(s, Colon(s, k))) = k
  <2>1. \A k \in 1..4 : k = 1 \/ k = 2 \/ k = 3 \/ k = 4
    OBVIOUS
  <2> QED
    BY <1>3, <1>5, <1>7, <1>9, <1>10, <2>1
<1>13. \A k \in 1..4 : Colon(s, k) \in 1..Len(s) /\ s[Colon(s, k)] = ":"
  <2>1. \A k \in 1..4 : k = 1 \/ k = 2 \/ k = 3 \/ k = 4
    OBVIOUS
  <2> QED
    BY <1>2, <1>10, <1>11, <2>1
<1> QED
  BY <1>1, <1>5, <1>7, <1>9, <1>10, <1>12, <1>13

--------------------------------------------------------------------------------
(* Reading back.                                                              *)

\* A part and the place behind it.
LEMMA OneMore ==
  ASSUME NEW T, NEW s \in Seq(T), NEW n \in 1..Len(s)
  PROVE  SubSeq(s, 1, n - 1) \o <<s[n]>> = SubSeq(s, 1, n)
BY SubSeqRecursiveSecond

\* A part and the part behind it.
LEMMA Grow ==
  ASSUME NEW T, NEW s \in Seq(T), NEW n \in 0..Len(s), NEW m \in n..Len(s)
  PROVE  SubSeq(s, 1, n) \o SubSeq(s, n + 1, m) = SubSeq(s, 1, m)
BY ConcatAdjacentSubSeq

\* A text that splits is its parts with the colons between them.
LEMMA SplitReadsBack ==
  ASSUME NEW T, NEW s \in Seq(T), Splits(s)
  PROVE  String(split(s)) = s
<1> DEFINE c2 == Colon(s, 2)
           c3 == Colon(s, 3)
           c4 == Colon(s, 4)
           L == Len(s)
<1>1. /\ L \in Nat /\ c2 \in 1..L /\ c3 \in 1..L /\ c4 \in 1..L
      /\ s[1] = "mrn" /\ s[2] = ":" /\ s[c2] = ":" /\ s[c3] = ":" /\ s[c4] = ":"
      /\ Colon(s, 1) = 2 /\ 2 < c2 /\ c2 < c3 /\ c3 < c4
  BY ColonsInOrder
<1>2. String(split(s))
        = ((((((Prefix \o SubSeq(s, 3, c2 - 1)) \o <<":">>) \o SubSeq(s, c2 + 1, c3 - 1))
             \o <<":">>) \o SubSeq(s, c3 + 1, c4 - 1)) \o <<":">>) \o SubSeq(s, c4 + 1, L)
  <2>1. split(s).service = SubSeq(s, Colon(s, 1) + 1, c2 - 1) /\ Colon(s, 1) + 1 = 3
    <3>1. Colon(s, 1) + 1 = 3
      BY <1>1
    <3> QED
      BY <3>1, Zenon DEF split
  <2>2. /\ split(s).tenant = SubSeq(s, c2 + 1, c3 - 1)
        /\ split(s).project = SubSeq(s, c3 + 1, c4 - 1)
        /\ split(s).path = SubSeq(s, c4 + 1, L)
    BY Zenon DEF split
  <2> QED
    BY <2>1, <2>2, Zenon DEF String
<1> HIDE DEF c2, c3, c4, L
<1>3. Prefix = SubSeq(s, 1, 2)
  <2>1. SubSeq(s, 1, 2) = SubSeq(s, 1, 1) \o <<s[2]>>
    BY <1>1, OneMore DEF L
  <2>2. SubSeq(s, 1, 1) = SubSeq(s, 1, 0) \o <<s[1]>>
    BY <1>1, OneMore DEF L
  <2>3. SubSeq(s, 1, 0) = <<>>
    BY SubSeqEmpty
  <2> QED
    BY <1>1, <2>1, <2>2, <2>3 DEF Prefix
<1>4. Prefix \o SubSeq(s, 3, c2 - 1) = SubSeq(s, 1, c2 - 1)
  BY <1>1, <1>3, Grow DEF L
<1>5. SubSeq(s, 1, c2 - 1) \o <<":">> = SubSeq(s, 1, c2)
  BY <1>1, OneMore DEF L
<1>6. SubSeq(s, 1, c2) \o SubSeq(s, c2 + 1, c3 - 1) = SubSeq(s, 1, c3 - 1)
  BY <1>1, Grow DEF L
<1>7. SubSeq(s, 1, c3 - 1) \o <<":">> = SubSeq(s, 1, c3)
  BY <1>1, OneMore DEF L
<1>8. SubSeq(s, 1, c3) \o SubSeq(s, c3 + 1, c4 - 1) = SubSeq(s, 1, c4 - 1)
  BY <1>1, Grow DEF L
<1>9. SubSeq(s, 1, c4 - 1) \o <<":">> = SubSeq(s, 1, c4)
  BY <1>1, OneMore DEF L
<1>10. SubSeq(s, 1, c4) \o SubSeq(s, c4 + 1, L) = SubSeq(s, 1, L)
  BY <1>1, Grow DEF L
<1>11. SubSeq(s, 1, L) = s
  BY SubSeqFull DEF L
<1> QED
  BY <1>2, <1>4, <1>5, <1>6, <1>7, <1>8, <1>9, <1>10, <1>11

--------------------------------------------------------------------------------
(* Resources as patterns.                                                     *)

\* The path of a text that splits is a sequence, and one without a "*" anywhere does
\* not end in one.
LEMMA NoStarInPath ==
  ASSUME NEW T, NEW s \in Seq(T), Splits(s), validResourcePath(split(s).path)
  PROVE  ~EndsInStar(split(s).path)
<1> DEFINE path == split(s).path
<1>1. path = SubSeq(s, Colon(s, 4) + 1, Len(s)) /\ Colon(s, 4) \in 1..Len(s)
  BY ColonsInOrder DEF split
<1>2. path \in Seq(T)
  <2>1. \A i \in (Colon(s, 4) + 1)..Len(s) : s[i] \in T
    BY <1>1, ElementOfSeq
  <2> QED
    BY <1>1, <2>1, SubSeqProperties
<1> HIDE DEF path
<1>3. path # <<>> => Len(path) \in 1..Len(path)
  BY <1>2, EmptySeq
<1> QED
  BY <1>3 DEF validResourcePath, EndsInStar, Last, path

\* A segment is not the wildcard.
LEMMA NoWildSegment ==
  ASSUME NEW s, validSegment(s)
  PROVE  s # Wild
<1>1. "*" \notin Lower
  BY MrnAssumption, Zenon
<1> QED
  BY <1>1 DEF validSegment, Wild

\* A resource that is used as a pattern is a pattern, and matches what is equal to it.
LEMMA ResourceMatchesItself ==
  ASSUME NEW T, NEW s \in Seq(T), Parses(s)
  PROVE  MatchPattern(s, s)
<1>1. ~EndsInStar(split(s).path) /\ validResourcePath(split(s).path)
  BY NoStarInPath DEF Parses
<1>2. ParsesAsPattern(s)
  BY <1>1 DEF Parses, ParsesAsPattern, validPathPattern
<1> QED
  BY <1>1, <1>2 DEF MatchPattern, Matches, segmentMatches, pathMatches

\* A pattern that parses as a resource matches that resource alone.
LEMMA ResourceMatchesOnlyItself ==
  ASSUME NEW T, NEW s \in Seq(T), NEW r \in Seq(T), Parses(s), MatchPattern(s, r)
  PROVE  r = s
<1>1. ~EndsInStar(split(s).path)
  BY NoStarInPath DEF Parses
<1>2. /\ split(s).service # Wild /\ split(s).tenant # Wild /\ split(s).project # Wild
  BY NoWildSegment DEF Parses
<1>3. /\ split(s).service = split(r).service /\ split(s).tenant = split(r).tenant
      /\ split(s).project = split(r).project /\ split(s).path = split(r).path
  BY <1>1, <1>2 DEF MatchPattern, Matches, segmentMatches, pathMatches
<1>4. String(split(s)) = String(split(r))
  BY <1>3, Zenon DEF String
<1>5. Splits(s) /\ Splits(r)
  BY DEF MatchPattern, Parses
<1> QED
  BY <1>4, <1>5, SplitReadsBack

--------------------------------------------------------------------------------
(* Parts of a text.                                                           *)

\* What is in a part.
LEMMA Part ==
  ASSUME NEW T, NEW s \in Seq(T), NEW m \in 0..Len(s), NEW n \in m..Len(s)
  PROVE  /\ SubSeq(s, m + 1, n) \in Seq(T) /\ Len(SubSeq(s, m + 1, n)) = n - m
         /\ \A i \in 1..(n - m) : SubSeq(s, m + 1, n)[i] = s[m + i]
<1>1. \A i \in (m + 1)..n : s[i] \in T
  BY ElementOfSeq
<1>2. m + 1 \in Int /\ n \in Int
  OBVIOUS
<1>3. /\ SubSeq(s, m + 1, n) \in Seq(T)
      /\ Len(SubSeq(s, m + 1, n)) = IF m + 1 <= n THEN n - (m + 1) + 1 ELSE 0
      /\ \A i \in 1..(n - (m + 1) + 1) : SubSeq(s, m + 1, n)[i] = s[(m + 1) + i - 1]
  BY <1>1, <1>2, SubSeqProperties
<1>4. /\ (IF m + 1 <= n THEN n - (m + 1) + 1 ELSE 0) = n - m /\ n - (m + 1) + 1 = n - m
      /\ \A i \in 1..(n - m) : (m + 1) + i - 1 = m + i
  OBVIOUS
<1> QED
  BY <1>3, <1>4

\* The part of s behind m and up to n.
Behind(s, m, n) == SubSeq(s, m + 1, n)

\* The k letters of s behind m are those of r behind u.
Alike(s, m, r, u, k) == \A i \in 1..k : s[m + i] = r[u + i]

\* Two parts are equal when they are as long and have the same letters.
LEMMA EqualParts ==
  ASSUME NEW T, NEW s \in Seq(T), NEW m \in 0..Len(s), NEW n \in m..Len(s),
         NEW r \in Seq(T), NEW u \in 0..Len(r), NEW v \in u..Len(r)
  PROVE  Behind(s, m, n) = Behind(r, u, v)
           <=> n - m = v - u /\ Alike(s, m, r, u, n - m)
<1> DEFINE A == SubSeq(s, m + 1, n)
           B == SubSeq(r, u + 1, v)
<1>1. /\ A \in Seq(T) /\ Len(A) = n - m /\ \A i \in 1..(n - m) : A[i] = s[m + i]
      /\ B \in Seq(T) /\ Len(B) = v - u /\ \A i \in 1..(v - u) : B[i] = r[u + i]
  BY Part
<1> HIDE DEF A, B
<1>2. ASSUME n - m = v - u, \A i \in 1..(n - m) : s[m + i] = r[u + i]
      PROVE  A = B
  BY <1>1, <1>2, SeqEqual
<1>3. ASSUME A = B
      PROVE  n - m = v - u /\ \A i \in 1..(n - m) : s[m + i] = r[u + i]
  <2>1. n - m = v - u
    BY <1>1, <1>3
  <2> QED
    BY <1>1, <1>3, <2>1
<1>4. A = B <=> n - m = v - u /\ \A i \in 1..(n - m) : s[m + i] = r[u + i]
  BY <1>2, <1>3
<1> QED
  BY <1>4 DEF A, B, Alike, Behind

--------------------------------------------------------------------------------
(* A pattern laid over a text.                                                *)

\* A set of places below a bound that is not empty has a last one.
LEMMA GreatestExists ==
  ASSUME NEW n \in Nat, NEW S \in SUBSET (0..n), S # {}
  PROVE  Max(S) \in S /\ \A j \in S : j <= Max(S)
<1> DEFINE U == {k \in Nat : \A j \in S : j <= k}
<1>1. n \in U /\ U \in SUBSET Nat
  OBVIOUS
<1>2. PICK k \in U : \A j \in U : k <= j
  BY <1>1, LeastExists
<1>3. k \in S
  <2> SUFFICES ASSUME k \notin S PROVE FALSE
    OBVIOUS
  <2>1. \A j \in S : j \in Nat /\ j <= k /\ j # k
    BY <1>2
  <2>2. \A j \in S : j <= k - 1
    BY <1>2, <2>1
  <2>3. k - 1 \in Nat
    <3>1. \E j \in S : TRUE
      OBVIOUS
    <3>2. k \in Nat /\ k >= 1
      BY <2>1, <3>1
    <3> QED
      BY <3>2
  <2>4. k - 1 \in U
    BY <2>2, <2>3
  <2> QED
    BY <1>2, <2>3, <2>4
<1>4. \A j \in S : k >= j
  BY <1>2
<1>5. \A j \in S : Max(S) \in S /\ Max(S) >= j
  <2>1. Max(S) \in S /\ \A j \in S : Max(S) >= j
    BY <1>3, <1>4, Zenon DEF Max
  <2> QED
    BY <2>1
<1> QED
  BY <1>3, <1>5

\* Where the layout is after a "*", after nothing, and after a run without a "*".
LEMMA Ends ==
  ASSUME NEW T, NEW s \in Seq(T), NEW M \in Nat, NEW to \in [Stars(s) -> 0..M]
  PROVE  /\ End(s, to, 0) = 0
         /\ \A i \in Stars(s) : i \in 1..Len(s) /\ to[i] \in 0..M /\ End(s, to, i) = to[i]
         /\ \A i \in 0..Len(s) : End(s, to, i) \in Nat
         /\ \A m \in 0..Len(s) : \A n \in m..Len(s) :
              (\A i \in (m + 1)..n : i \notin Stars(s))
                => End(s, to, n) = End(s, to, m) + (n - m)
<1> DEFINE Before(i) == {j \in Stars(s) : j <= i}
<1>1. Stars(s) \in SUBSET (1..Len(s)) /\ Len(s) \in Nat
  BY DEF Stars
<1>2. ASSUME NEW i PROVE End(s, to, i) = IF Before(i) = {} THEN i ELSE to[Max(Before(i))] + (i - Max(Before(i)))
  BY DEF End
<1>3. ASSUME NEW i \in 0..Len(s), Before(i) # {}
      PROVE  Max(Before(i)) \in Before(i) /\ \A j \in Before(i) : j <= Max(Before(i))
  <2>1. Before(i) \in SUBSET (0..Len(s))
    BY <1>1
  <2> QED
    BY <1>1, <1>3, <2>1, GreatestExists
<1>4. End(s, to, 0) = 0
  <2>1. Before(0) = {}
    BY <1>1
  <2> QED
    BY <1>2, <2>1
<1>5. ASSUME NEW i \in Stars(s)
      PROVE  i \in 1..Len(s) /\ to[i] \in 0..M /\ End(s, to, i) = to[i]
  <2>1. i \in 1..Len(s) /\ to[i] \in 0..M
    BY <1>1
  <2>2. i \in Before(i)
    BY <2>1
  <2>3. Max(Before(i)) = i
    <3>1. Max(Before(i)) \in Before(i) /\ i <= Max(Before(i))
      BY <1>3, <2>1, <2>2
    <3>2. Max(Before(i)) \in 1..Len(s) /\ Max(Before(i)) <= i
      BY <1>1, <3>1
    <3> HIDE DEF Before
    <3> QED
      BY <2>1, <3>1, <3>2
  <2>4. End(s, to, i) = to[i] + (i - i)
    BY <1>2, <2>2, <2>3
  <2> QED
    BY <2>1, <2>4
<1>6. ASSUME NEW i \in 0..Len(s) PROVE End(s, to, i) \in Nat
  <2>1. CASE Before(i) = {}
    <3>1. End(s, to, i) = i
      BY <1>2, <2>1
    <3>2. i \in Nat
      BY <1>1
    <3> QED
      BY <3>1, <3>2
  <2>2. CASE Before(i) # {}
    <3>1. Max(Before(i)) \in Stars(s) /\ Max(Before(i)) <= i
      BY <1>3, <2>2
    <3>2. End(s, to, i) = to[Max(Before(i))] + (i - Max(Before(i)))
      BY <1>2, <2>2
    <3>3. Max(Before(i)) \in Nat /\ to[Max(Before(i))] \in Nat
      BY <1>1, <1>5, <3>1
    <3> HIDE DEF Before
    <3> QED
      BY <3>1, <3>2, <3>3
  <2> QED
    BY <2>1, <2>2
<1>7. ASSUME NEW m \in 0..Len(s), NEW n \in m..Len(s), \A i \in (m + 1)..n : i \notin Stars(s)
      PROVE  End(s, to, n) = End(s, to, m) + (n - m)
  <2>1. Before(n) = Before(m)
    <3>1. ASSUME NEW j \in Stars(s) PROVE j <= n <=> j <= m
      <4>1. j \in Nat /\ j \notin (m + 1)..n
        BY <1>1, <1>7
      <4> QED
        BY <4>1
    <3> QED
      BY <3>1
  <2>2. CASE Before(m) = {}
    <3>1. End(s, to, m) = m /\ End(s, to, n) = n
      BY <1>2, <2>1, <2>2
    <3> QED
      BY <3>1
  <2>3. CASE Before(m) # {}
    <3>1. Max(Before(m)) \in Stars(s)
      BY <1>3, <2>3
    <3>2. /\ End(s, to, m) = to[Max(Before(m))] + (m - Max(Before(m)))
          /\ End(s, to, n) = to[Max(Before(m))] + (n - Max(Before(m)))
      BY <1>2, <2>1, <2>3
    <3>3. Max(Before(m)) \in Nat /\ to[Max(Before(m))] \in Nat
      BY <1>1, <1>5, <3>1
    <3> HIDE DEF Before
    <3> QED
      BY <3>2, <3>3
  <2> QED
    BY <2>2, <2>3
<1> QED
  BY <1>4, <1>5, <1>6, <1>7

\* Behind place m and up to place n there is no "*" in s.
Plain(s, m, n) == \A i \in (m + 1)..n : i \notin Stars(s)

\* That part of s lies on r.
Laid(s, r, to, m, n) == \A i \in (m + 1)..n : Lies(s, r, to, i)

\* The k letters of s behind m have like ones of r behind u.
Covered(s, m, r, u, k) == \A i \in 1..k : u + i \in 1..Len(r) /\ r[u + i] = s[m + i]

\* The layout goes on by a letter where there is no "*".
LEMMA RunEnds ==
  ASSUME NEW T, NEW s \in Seq(T), NEW r \in Seq(T), NEW to \in [Stars(s) -> 0..Len(r)],
         NEW m \in 0..Len(s), NEW n \in m..Len(s), Plain(s, m, n)
  PROVE  End(s, to, n) = End(s, to, m) + (n - m)
<1>1. Len(r) \in Nat
  OBVIOUS
<1> QED
  BY <1>1, Ends DEF Plain

\* It goes where the "*" goes.
LEMMA StarEnds ==
  ASSUME NEW T, NEW s \in Seq(T), NEW r \in Seq(T), NEW to \in [Stars(s) -> 0..Len(r)],
         NEW i \in Stars(s)
  PROVE  to[i] \in 0..Len(r) /\ End(s, to, i) = to[i]
<1>1. Len(r) \in Nat
  OBVIOUS
<1> QED
  BY <1>1, Ends

\* Where there is no "*", the layout is letter on like letter.
LEMMA PlainRun ==
  ASSUME NEW T, NEW s \in Seq(T), NEW r \in Seq(T), NEW to \in [Stars(s) -> 0..Len(r)],
         NEW m \in 0..Len(s), NEW n \in m..Len(s), Plain(s, m, n)
  PROVE  Laid(s, r, to, m, n)
           <=> Covered(s, m, r, End(s, to, m), n - m)
<1>1. m \in Nat /\ n \in Nat /\ m <= n /\ n <= Len(s) /\ Len(s) \in Nat /\ Len(r) \in Nat
  OBVIOUS
<1>2. End(s, to, m) \in Nat
  BY <1>1, Ends
<1>3. ASSUME NEW i \in 1..(n - m) PROVE End(s, to, m + i) = End(s, to, m) + i
  <2>1. m + i \in m..Len(s) /\ (m + i) - m = i /\ \A j \in (m + 1)..(m + i) : j \in (m + 1)..n
    BY <1>1
  <2>2. Plain(s, m, m + i)
    BY <2>1 DEF Plain
  <2> QED
    BY <2>1, <2>2, RunEnds
<1>4. ASSUME NEW i \in 1..(n - m)
      PROVE  Lies(s, r, to, m + i)
               <=> End(s, to, m) + i \in 1..Len(r) /\ r[End(s, to, m) + i] = s[m + i]
  <2>1. m + i \in (m + 1)..n
    BY <1>1
  <2> QED
    BY <1>3, <2>1 DEF Lies, Plain
<1>5. \A i \in (m + 1)..n : i - m \in 1..(n - m) /\ m + (i - m) = i
  BY <1>1
<1>6. \A i \in 1..(n - m) : m + i \in (m + 1)..n
  BY <1>1
<1>7. Laid(s, r, to, m, n) <=> \A i \in 1..(n - m) : Lies(s, r, to, m + i)
  BY <1>5, <1>6, Zenon DEF Laid
<1> QED
  BY <1>4, <1>7 DEF Covered

\* Neither a colon nor a "*" is a letter of a segment.
LEMMA LowerLetters == ":" \notin Lower /\ "*" \notin Lower
BY MrnAssumption, Zenon

\* What is between two colons when the part there is a segment or the wildcard.
LEMMA SegmentLetters ==
  ASSUME NEW T, NEW s \in Seq(T), NEW a \in 1..Len(s), NEW c \in (a + 1)..Len(s), s[c] = ":"
  PROVE  /\ validSegment(SubSeq(s, a + 1, c - 1))
              => /\ Plain(s, a, c)
                 /\ \A i \in 1..(c - 1 - a) : s[a + i] # ":"
         /\ SubSeq(s, a + 1, c - 1) = Wild
              => c = a + 2 /\ a + 1 \in Stars(s) /\ Plain(s, a + 1, a + 2)
<1>1. /\ a \in 0..Len(s) /\ c - 1 \in a..Len(s) /\ a \in Nat /\ c \in Nat
      /\ a < c /\ c <= Len(s) /\ Len(s) \in Nat
  OBVIOUS
<1>2. /\ Len(SubSeq(s, a + 1, c - 1)) = c - 1 - a
      /\ \A i \in 1..(c - 1 - a) : SubSeq(s, a + 1, c - 1)[i] = s[a + i]
  BY <1>1, Part
<1>3. ASSUME validSegment(SubSeq(s, a + 1, c - 1))
      PROVE  /\ Plain(s, a, c)
             /\ \A i \in 1..(c - 1 - a) : s[a + i] # ":"
  <2>1. \A i \in 1..(c - 1 - a) : s[a + i] \in Lower
    BY <1>2, <1>3 DEF validSegment
  <2>2. \A i \in 1..(c - 1 - a) : s[a + i] # ":" /\ s[a + i] # "*"
    BY <2>1, LowerLetters
  <2>3. \A i \in (a + 1)..c : i = c \/ (i - a \in 1..(c - 1 - a) /\ a + (i - a) = i)
    BY <1>1
  <2>4. \A i \in (a + 1)..c : s[i] # "*"
    BY <2>2, <2>3
  <2> QED
    BY <2>2, <2>4 DEF Stars, Plain
<1>4. ASSUME SubSeq(s, a + 1, c - 1) = Wild
      PROVE  c = a + 2 /\ a + 1 \in Stars(s) /\ Plain(s, a + 1, a + 2)
  <2>1. Len(Wild) = 1 /\ Wild[1] = "*"
    BY DEF Wild
  <2>2. c - 1 - a = 1
    BY <1>2, <1>4, <2>1
  <2>3. c = a + 2 /\ a + 1 \in 1..Len(s) /\ 1 \in 1..(c - 1 - a)
    BY <1>1, <2>2
  <2>4. s[a + 1] = "*" /\ s[a + 2] = ":"
    BY <1>2, <1>4, <2>1, <2>3
  <2>5. \A i \in ((a + 1) + 1)..(a + 2) : i = a + 2
    BY <1>1
  <2> QED
    BY <2>3, <2>4, <2>5 DEF Stars, Plain
<1> QED
  BY <1>3, <1>4

\* Between places b and e of r there is no colon.
Colonless(r, b, e) == \A k \in (b + 1)..(e - 1) : r[k] # ":"

\* A layout that is on a colon of r takes the next segment to the next colon of r.
LEMMA LaidSegment ==
  ASSUME NEW T, NEW s \in Seq(T), NEW r \in Seq(T), NEW to \in [Stars(s) -> 0..Len(r)],
         NEW a \in 1..Len(s), NEW c \in (a + 1)..Len(s), s[c] = ":",
         NEW b \in 1..Len(r), End(s, to, a) = b,
         \/ SubSeq(s, a + 1, c - 1) = Wild
         \/ validSegment(SubSeq(s, a + 1, c - 1)),
         Laid(s, r, to, a, c), a + 1 \in Stars(s) => a + 1 \in HeadStars(s)
  PROVE  /\ End(s, to, c) \in (b + 1)..Len(r) /\ r[End(s, to, c)] = ":"
         /\ Colonless(r, b, End(s, to, c))
         /\ segmentMatches(SubSeq(s, a + 1, c - 1), SubSeq(r, b + 1, End(s, to, c) - 1))
<1> DEFINE e == End(s, to, c)
<1>1. /\ a \in Nat /\ b \in Nat /\ c \in Nat /\ a < c /\ c <= Len(s) /\ b <= Len(r)
      /\ Len(s) \in Nat /\ Len(r) \in Nat /\ a \in 0..Len(s) /\ c \in a..Len(s)
      /\ c - 1 \in a..Len(s) /\ b \in 0..Len(r)
  OBVIOUS
<1>2. CASE SubSeq(s, a + 1, c - 1) = Wild
  <2>1. c = a + 2 /\ a + 1 \in Stars(s) /\ Plain(s, a + 1, a + 2)
    BY <1>2, SegmentLetters
  <2>2. /\ Lies(s, r, to, a + 1) /\ Lies(s, r, to, a + 2) /\ a + 1 \in HeadStars(s)
        /\ a + 1 \in 0..Len(s) /\ a + 2 \in (a + 1)..Len(s) /\ (a + 1) - 1 = a
        /\ a + 2 \notin Stars(s) /\ (a + 2) - 1 = a + 1
    <3>1. a + 1 \in (a + 1)..c /\ a + 2 \in (a + 1)..c /\ a + 2 \in ((a + 1) + 1)..(a + 2)
      BY <1>1, <2>1
    <3>2. Lies(s, r, to, a + 1) /\ Lies(s, r, to, a + 2) /\ a + 2 \notin Stars(s)
      BY <2>1, <3>1 DEF Laid, Plain
    <3>3. /\ a + 1 \in 0..Len(s) /\ a + 2 \in (a + 1)..Len(s) /\ (a + 1) - 1 = a
          /\ (a + 2) - 1 = a + 1
      BY <1>1, <2>1
    <3> QED
      BY <2>1, <3>2, <3>3
  <2>3. /\ End(s, to, a + 1) = to[a + 1] /\ to[a + 1] \in Nat
        /\ End(s, to, a + 2) = End(s, to, a + 1) + 1
    <3>1. End(s, to, a + 1) = to[a + 1] /\ to[a + 1] \in 0..Len(r)
      BY <2>1, StarEnds
    <3>2. End(s, to, a + 2) = End(s, to, a + 1) + ((a + 2) - (a + 1))
      BY <2>1, <2>2, RunEnds
    <3>3. (a + 2) - (a + 1) = 1
      BY <1>1
    <3> QED
      BY <3>1, <3>2, <3>3
  <2>4. e = to[a + 1] + 1 /\ e - 1 = to[a + 1]
    BY <2>1, <2>3
  <2>5. b <= e - 1 /\ \A k \in (b + 1)..(e - 1) : r[k] # ":"
    BY <2>1, <2>2, <2>4 DEF Lies
  <2>6. e \in 1..Len(r) /\ r[e] = ":"
    BY <2>1, <2>2 DEF Lies
  <2> HIDE DEF e
  <2>7. e \in (b + 1)..Len(r)
    BY <1>1, <2>5, <2>6
  <2> QED
    BY <1>2, <2>5, <2>6, <2>7 DEF e, segmentMatches, Colonless
<1>3. CASE validSegment(SubSeq(s, a + 1, c - 1))
  <2>1. Plain(s, a, c) /\ \A i \in 1..(c - 1 - a) : s[a + i] # ":"
    BY <1>3, SegmentLetters
  <2>2. \A i \in 1..(c - a) : b + i \in 1..Len(r) /\ r[b + i] = s[a + i]
    <3>1. Laid(s, r, to, a, c) <=> Covered(s, a, r, End(s, to, a), c - a)
      BY <1>1, <2>1, PlainRun
    <3> QED
      BY <3>1 DEF Covered
  <2>3. e = b + (c - a)
    <3>1. End(s, to, c) = End(s, to, a) + (c - a)
      BY <1>1, <2>1, RunEnds
    <3> QED
      BY <3>1
  <2> HIDE DEF e
  <2>4. /\ c - a \in 1..(c - a) /\ b + (c - a) = e /\ a + (c - a) = c
        /\ c - 1 - a = (e - 1) - b /\ e \in Nat /\ b < e
    BY <1>1, <2>3
  <2>5. e \in 1..Len(r) /\ r[e] = ":"
    BY <2>2, <2>4
  <2>6. ASSUME NEW i \in 1..(c - 1 - a) PROVE r[b + i] = s[a + i] /\ r[b + i] # ":"
    <3>1. i \in 1..(c - a)
      BY <1>1
    <3> QED
      BY <2>1, <2>2, <3>1
  <2>7. \A k \in (b + 1)..(e - 1) : r[k] # ":"
    <3>1. \A k \in (b + 1)..(e - 1) : k - b \in 1..(c - 1 - a) /\ b + (k - b) = k
      BY <1>1, <2>4
    <3> QED
      BY <2>6, <3>1
  <2>8. e - 1 \in b..Len(r) /\ e \in (b + 1)..Len(r)
    BY <1>1, <2>4, <2>5
  <2>9. SubSeq(s, a + 1, c - 1) = SubSeq(r, b + 1, e - 1)
    <3>1. ASSUME NEW n \in a..Len(s), NEW v \in b..Len(r), n - a = v - b, Alike(s, a, r, b, n - a)
          PROVE  Behind(s, a, n) = Behind(r, b, v)
      BY <1>1, <3>1, EqualParts
    <3>2. Alike(s, a, r, b, (c - 1) - a)
      BY <2>6 DEF Alike
    <3>3. Behind(s, a, c - 1) = Behind(r, b, e - 1)
      BY <1>1, <2>4, <2>8, <3>1, <3>2
    <3> QED
      BY <3>3 DEF Behind
  <2> QED
    BY <2>5, <2>7, <2>8, <2>9 DEF e, segmentMatches, Colonless
<1> QED
  BY <1>2, <1>3

\* A segment that matches one of r is laid on it, its "*" on all of it.
LEMMA SegmentLaid ==
  ASSUME NEW T, NEW s \in Seq(T), NEW r \in Seq(T), NEW to \in [Stars(s) -> 0..Len(r)],
         NEW a \in 1..Len(s), NEW c \in (a + 1)..Len(s), s[c] = ":",
         NEW b \in 1..Len(r), NEW e \in (b + 1)..Len(r), r[e] = ":", End(s, to, a) = b,
         \/ SubSeq(s, a + 1, c - 1) = Wild
         \/ validSegment(SubSeq(s, a + 1, c - 1)),
         validSegment(SubSeq(r, b + 1, e - 1)),
         segmentMatches(SubSeq(s, a + 1, c - 1), SubSeq(r, b + 1, e - 1)),
         a + 1 \in Stars(s) => to[a + 1] = e - 1
  PROVE  End(s, to, c) = e /\ Laid(s, r, to, a, c)
<1>1. /\ a \in Nat /\ b \in Nat /\ c \in Nat /\ e \in Nat /\ a < c /\ c <= Len(s)
      /\ b < e /\ e <= Len(r) /\ Len(s) \in Nat /\ Len(r) \in Nat
  OBVIOUS
<1>2. /\ a \in 0..Len(s) /\ c \in a..Len(s) /\ c - 1 \in a..Len(s)
      /\ b \in 0..Len(r) /\ e - 1 \in b..Len(r)
  BY <1>1
<1>3. \A i \in 1..(e - 1 - b) : r[b + i] # ":"
  BY SegmentLetters
<1>4. CASE SubSeq(s, a + 1, c - 1) = Wild
  <2>1. c = a + 2 /\ a + 1 \in Stars(s) /\ Plain(s, a + 1, a + 2) /\ to[a + 1] = e - 1
    BY <1>4, SegmentLetters
  <2>2. /\ a + 1 \in 0..Len(s) /\ a + 2 \in (a + 1)..Len(s) /\ (a + 1) - 1 = a
        /\ (a + 2) - (a + 1) = 1 /\ a + 2 \in ((a + 1) + 1)..(a + 2)
    BY <1>1, <2>1
  <2>3. End(s, to, a + 2) = e
    <3>1. End(s, to, a + 1) = e - 1
      BY <2>1, StarEnds
    <3>2. End(s, to, a + 2) = End(s, to, a + 1) + ((a + 2) - (a + 1))
      BY <2>1, <2>2, RunEnds
    <3> QED
      BY <1>1, <2>2, <3>1, <3>2
  <2>4. Lies(s, r, to, a + 1)
    <3>1. b <= e - 1 /\ \A k \in (b + 1)..(e - 1) : k - b \in 1..(e - 1 - b) /\ b + (k - b) = k
      BY <1>1
    <3>2. \A k \in (b + 1)..(e - 1) : r[k] # ":"
      BY <1>3, <3>1
    <3> QED
      BY <2>1, <2>2, <3>1, <3>2 DEF Lies
  <2>5. Lies(s, r, to, a + 2)
    <3>1. a + 2 \notin Stars(s)
      BY <2>1, <2>2 DEF Plain
    <3>2. e \in 1..Len(r) /\ r[e] = s[a + 2]
      BY <1>1, <2>1
    <3> QED
      BY <2>3, <3>1, <3>2 DEF Lies
  <2>6. \A i \in (a + 1)..(a + 2) : i = a + 1 \/ i = a + 2
    BY <1>1
  <2>7. Laid(s, r, to, a, a + 2)
    BY <2>4, <2>5, <2>6, Zenon DEF Laid
  <2> QED
    BY <2>1, <2>3, <2>7
<1>5. CASE SubSeq(s, a + 1, c - 1) # Wild
  <2>1. Plain(s, a, c)
    BY <1>5, SegmentLetters
  <2>2. (c - 1) - a = (e - 1) - b /\ Alike(s, a, r, b, (c - 1) - a)
    <3>1. ASSUME NEW n \in a..Len(s), NEW v \in b..Len(r), Behind(s, a, n) = Behind(r, b, v)
          PROVE  n - a = v - b /\ Alike(s, a, r, b, n - a)
      BY <1>2, <3>1, EqualParts
    <3>2. Behind(s, a, c - 1) = Behind(r, b, e - 1)
      BY <1>5 DEF Behind, segmentMatches
    <3> QED
      BY <1>2, <3>1, <3>2
  <2>3. c - a = e - b
    BY <1>1, <2>2
  <2>4. End(s, to, c) = e
    <3>1. End(s, to, c) = End(s, to, a) + (c - a)
      BY <1>2, <2>1, RunEnds
    <3> QED
      BY <1>1, <2>3, <3>1
  <2>5. ASSUME NEW i \in 1..(c - a)
        PROVE  b + i \in 1..Len(r) /\ r[b + i] = s[a + i]
    <3>1. b + i \in 1..Len(r)
      BY <1>1, <2>3
    <3>2. CASE i = c - a
      <4>1. b + i = e /\ a + i = c
        BY <1>1, <2>3, <3>2
      <4> QED
        BY <3>1, <4>1
    <3>3. CASE i # c - a
      <4>1. i \in 1..((c - 1) - a)
        BY <1>1, <3>3
      <4> QED
        BY <2>2, <3>1, <4>1 DEF Alike
    <3> QED
      BY <3>2, <3>3
  <2>6. Laid(s, r, to, a, c) <=> Covered(s, a, r, End(s, to, a), c - a)
    BY <1>2, <2>1, PlainRun
  <2> QED
    BY <2>4, <2>5, <2>6 DEF Covered
<1> QED
  BY <1>4, <1>5

\* A text is a prefix of another that is as long at least and starts with its letters.
LEMMA PrefixLetters ==
  ASSUME NEW T, NEW f \in Seq(T), NEW v \in Seq(T)
  PROVE  IsPrefix(f, v) <=> Len(f) <= Len(v) /\ \A i \in 1..Len(f) : f[i] = v[i]
<1>1. Len(f) \in Nat /\ Len(v) \in Nat /\ SubSeq(f, 1, Len(f)) = f
  BY SubSeqFull
<1>2. ASSUME Len(f) <= Len(v)
      PROVE  f = SubSeq(v, 1, Len(f)) <=> \A i \in 1..Len(f) : f[i] = v[i]
  <2>1. /\ SubSeq(v, 1, Len(f)) \in Seq(T) /\ Len(SubSeq(v, 1, Len(f))) = Len(f)
        /\ \A i \in 1..Len(f) : SubSeq(v, 1, Len(f))[i] = v[i]
    <3>1. 0 \in 0..Len(v) /\ Len(f) \in 0..Len(v) /\ 0 + 1 = 1 /\ Len(f) - 0 = Len(f)
      BY <1>1, <1>2
    <3>2. \A i \in 1..Len(f) : 0 + i = i
      BY <1>1
    <3>3. /\ SubSeq(v, 0 + 1, Len(f)) \in Seq(T) /\ Len(SubSeq(v, 0 + 1, Len(f))) = Len(f) - 0
          /\ \A i \in 1..(Len(f) - 0) : SubSeq(v, 0 + 1, Len(f))[i] = v[0 + i]
      BY <3>1, Part
    <3> QED
      BY <3>1, <3>2, <3>3
  <2>2. (\A i \in 1..Len(f) : f[i] = v[i]) => f = SubSeq(v, 1, Len(f))
    BY <2>1, SeqEqual
  <2>3. f = SubSeq(v, 1, Len(f)) => \A i \in 1..Len(f) : f[i] = v[i]
    BY <2>1
  <2> QED
    BY <2>2, <2>3
<1> QED
  BY <1>1, <1>2 DEF IsPrefix

\* A path pattern has its "*" at its end or none, and matches the paths that go on from
\* what is before the "*", or itself.
LEMMA PathLetters ==
  ASSUME NEW T, NEW s \in Seq(T), NEW a \in 1..Len(s),
         validPathPattern(SubSeq(s, a + 1, Len(s)))
  PROVE  \/ /\ a < Len(s) /\ Len(s) \in Stars(s) /\ Plain(s, a, Len(s) - 1)
            /\ \A v \in Seq(T) :
                 pathMatches(SubSeq(s, a + 1, Len(s)), v)
                   <=> Len(s) - 1 - a <= Len(v) /\ Alike(s, a, v, 0, Len(s) - 1 - a)
         \/ /\ Plain(s, a, Len(s))
            /\ \A v : pathMatches(SubSeq(s, a + 1, Len(s)), v) <=> SubSeq(s, a + 1, Len(s)) = v
<1> DEFINE p == SubSeq(s, a + 1, Len(s))
           n == Len(s) - a
<1>1. a \in Nat /\ Len(s) \in Nat /\ n \in Nat /\ a <= Len(s) /\ a \in 0..Len(s)
  OBVIOUS
<1>2. p \in Seq(T) /\ Len(p) = n /\ \A i \in 1..n : p[i] = s[a + i]
  <2>1. Len(s) \in a..Len(s)
    BY <1>1
  <2> QED
    BY <1>1, <2>1, Part
<1>3. \A i \in (a + 1)..Len(s) : i - a \in 1..n /\ a + (i - a) = i
  BY <1>1
<1> HIDE DEF p
<1>4. CASE EndsInStar(p)
  <2>1. p # <<>> /\ p[Len(p)] = "*"
    BY <1>4 DEF EndsInStar, Last
  <2>2. n >= 1
    BY <1>1, <1>2, <2>1, EmptySeq
  <2>3. a < Len(s) /\ n \in 1..n /\ a + n = Len(s) /\ Len(s) - 1 - a = n - 1 /\ n - 1 \in Nat
    BY <1>1, <2>2
  <2>4. Len(s) \in Stars(s)
    <3>1. s[Len(s)] = "*"
      BY <1>2, <2>1, <2>3
    <3>2. Len(s) \in 1..Len(s)
      BY <1>1, <2>3
    <3> QED
      BY <3>1, <3>2 DEF Stars
  <2>5. Front(p) \in Seq(T) /\ Len(Front(p)) = n - 1 /\ \A i \in 1..(n - 1) : Front(p)[i] = s[a + i]
    <3> HIDE DEF n
    <3>1. 0 \in 0..Len(p) /\ n - 1 \in 0..Len(p) /\ 0 + 1 = 1 /\ (n - 1) - 0 = n - 1
      BY <1>2, <2>2, <2>3
    <3>2. \A i \in 1..(n - 1) : 0 + i = i /\ i \in 1..n
      BY <2>3
    <3>3. /\ SubSeq(p, 0 + 1, n - 1) \in Seq(T) /\ Len(SubSeq(p, 0 + 1, n - 1)) = (n - 1) - 0
          /\ \A i \in 1..((n - 1) - 0) : SubSeq(p, 0 + 1, n - 1)[i] = p[0 + i]
      BY <1>2, <3>1, Part
    <3>4. Front(p) = SubSeq(p, 0 + 1, n - 1)
      BY <1>2, <3>1 DEF Front
    <3> QED
      BY <1>2, <3>1, <3>2, <3>3, <3>4
  <2>6. \A i \in 1..(n - 1) : s[a + i] # "*"
    <3>1. CASE p = Wild
      <4>1. n = 1
        BY <1>2, <3>1 DEF Wild
      <4> QED
        BY <4>1
    <3>2. CASE validResourcePath(Front(p))
      BY <2>5, <3>2 DEF validResourcePath
    <3> QED
      BY <1>4, <3>1, <3>2 DEF validPathPattern, p
  <2>7. Plain(s, a, Len(s) - 1)
    <3>1. \A i \in (a + 1)..(Len(s) - 1) : i - a \in 1..(n - 1) /\ a + (i - a) = i
      BY <1>1
    <3> QED
      BY <2>6, <3>1 DEF Plain, Stars
  <2>8. ASSUME NEW v \in Seq(T)
        PROVE  pathMatches(p, v) <=> n - 1 <= Len(v) /\ Alike(s, a, v, 0, n - 1)
    <3>1. IsPrefix(Front(p), v) <=> n - 1 <= Len(v) /\ \A i \in 1..(n - 1) : Front(p)[i] = v[i]
      BY <2>5, PrefixLetters
    <3>2. \A i \in 1..(n - 1) : 0 + i = i
      OBVIOUS
    <3> QED
      BY <1>4, <2>5, <3>1, <3>2 DEF pathMatches, Alike
  <2> QED
    BY <2>3, <2>4, <2>7, <2>8 DEF p
<1>5. CASE ~EndsInStar(p)
  <2>1. validResourcePath(p)
    <3>1. Wild # <<>> /\ Wild[Len(Wild)] = "*"
      BY DEF Wild
    <3>2. EndsInStar(Wild)
      BY <3>1 DEF EndsInStar, Last
    <3> QED
      BY <1>5, <3>2 DEF validPathPattern, p
  <2>2. \A i \in 1..n : s[a + i] # "*"
    BY <1>2, <2>1 DEF validResourcePath
  <2>3. Plain(s, a, Len(s))
    BY <1>3, <2>2 DEF Plain, Stars
  <2>4. \A v : pathMatches(p, v) <=> p = v
    BY <1>5 DEF pathMatches
  <2> QED
    BY <2>3, <2>4 DEF p
<1> QED
  BY <1>4, <1>5

\* A path is laid on all that is left of r when it matches that, and only then, if
\* the "*" at its end goes to the end of r.
LEMMA PathLaid ==
  ASSUME NEW T, NEW s \in Seq(T), NEW r \in Seq(T), NEW to \in [Stars(s) -> 0..Len(r)],
         NEW a \in 1..Len(s), NEW b \in 1..Len(r), End(s, to, a) = b,
         validPathPattern(SubSeq(s, a + 1, Len(s))),
         a < Len(s) /\ Len(s) \in Stars(s) => to[Len(s)] = Len(r) /\ Len(s) \notin HeadStars(s)
  PROVE  pathMatches(SubSeq(s, a + 1, Len(s)), SubSeq(r, b + 1, Len(r)))
           <=> End(s, to, Len(s)) = Len(r) /\ Laid(s, r, to, a, Len(s))
<1> DEFINE L == Len(s)
           M == Len(r)
           v == SubSeq(r, b + 1, M)
<1>1. a \in Nat /\ b \in Nat /\ L \in Nat /\ M \in Nat /\ a <= L /\ b <= M
  OBVIOUS
<1>2. v \in Seq(T) /\ Len(v) = M - b /\ \A i \in 1..(M - b) : v[i] = r[b + i]
  <2>1. b \in 0..Len(r) /\ M \in b..Len(r)
    BY <1>1
  <2> QED
    BY <2>1, Part
<1> HIDE DEF v
<1>3. CASE /\ a < L /\ L \in Stars(s) /\ Plain(s, a, L - 1)
           /\ \A w \in Seq(T) :
                pathMatches(SubSeq(s, a + 1, L), w)
                  <=> L - 1 - a <= Len(w) /\ Alike(s, a, w, 0, L - 1 - a)
  <2>1. pathMatches(SubSeq(s, a + 1, L), v)
          <=> L - 1 - a <= Len(v) /\ Alike(s, a, v, 0, L - 1 - a)
    BY <1>2, <1>3
  <2>2. /\ a \in 0..Len(s) /\ L - 1 \in a..Len(s) /\ (L - 1) - a = L - 1 - a /\ L - 1 - a \in Nat
        /\ L \in (a + 1)..L /\ \A i \in (a + 1)..L : i \in (a + 1)..(L - 1) \/ i = L
        /\ \A i \in (a + 1)..(L - 1) : i \in (a + 1)..L
    BY <1>1, <1>3
  <2>3. /\ End(s, to, L) = M /\ to[L] = M /\ L \notin HeadStars(s)
        /\ End(s, to, L - 1) = b + (L - 1 - a)
    <3>1. to[L] = M /\ L \notin HeadStars(s)
      BY <1>3
    <3>2. End(s, to, L) = to[L]
      BY <1>3, StarEnds
    <3>3. End(s, to, L - 1) = End(s, to, a) + ((L - 1) - a)
      BY <1>3, <2>2, RunEnds
    <3> QED
      BY <2>2, <3>1, <3>2, <3>3
  <2>4. Lies(s, r, to, L) <=> b + (L - 1 - a) <= M
    BY <1>3, <2>3 DEF Lies
  <2>5. Laid(s, r, to, a, L) <=> Laid(s, r, to, a, L - 1) /\ Lies(s, r, to, L)
    BY <2>2 DEF Laid
  <2>6. Laid(s, r, to, a, L - 1) <=> Covered(s, a, r, b, L - 1 - a)
    <3>1. Laid(s, r, to, a, L - 1) <=> Covered(s, a, r, End(s, to, a), (L - 1) - a)
      BY <1>3, <2>2, PlainRun
    <3> QED
      BY <2>2, <3>1
  <2>7. L - 1 - a <= Len(v) <=> b + (L - 1 - a) <= M
    BY <1>1, <1>2, <2>2
  <2>8. ASSUME b + (L - 1 - a) <= M
        PROVE  Covered(s, a, r, b, L - 1 - a) <=> Alike(s, a, v, 0, L - 1 - a)
    <3>1. \A i \in 1..(L - 1 - a) : b + i \in 1..Len(r) /\ i \in 1..(M - b) /\ 0 + i = i
      BY <1>1, <2>2, <2>8
    <3>2. \A i \in 1..(L - 1 - a) : v[0 + i] = r[b + i]
      BY <1>2, <3>1
    <3>3. \A i \in 1..(L - 1 - a) : b + i \in 1..Len(r)
      BY <3>1
    <3> HIDE DEF L, M
    <3> QED
      BY <3>2, <3>3, Zenon DEF Covered, Alike
  <2> QED
    BY <2>1, <2>3, <2>4, <2>5, <2>6, <2>7, <2>8 DEF v
<1>4. CASE /\ Plain(s, a, L)
           /\ \A w : pathMatches(SubSeq(s, a + 1, L), w) <=> SubSeq(s, a + 1, L) = w
  <2>1. a \in 0..Len(s) /\ L \in a..Len(s) /\ b \in 0..Len(r) /\ M \in b..Len(r)
    BY <1>1
  <2>2. pathMatches(SubSeq(s, a + 1, L), v) <=> L - a = M - b /\ Alike(s, a, r, b, L - a)
    <3>1. Behind(s, a, L) = Behind(r, b, M) <=> L - a = M - b /\ Alike(s, a, r, b, L - a)
      <4>1. ASSUME NEW n \in a..Len(s), NEW m \in b..Len(r)
            PROVE  Behind(s, a, n) = Behind(r, b, m) <=> n - a = m - b /\ Alike(s, a, r, b, n - a)
        BY <2>1, EqualParts
      <4> QED
        BY <2>1, <4>1
    <3>2. pathMatches(SubSeq(s, a + 1, L), v) <=> Behind(s, a, L) = Behind(r, b, M)
      BY <1>4, Zenon DEF Behind, v
    <3> QED
      BY <3>1, <3>2
  <2>3. End(s, to, L) = M <=> L - a = M - b
    <3>1. End(s, to, L) = End(s, to, a) + (L - a)
      BY <1>4, <2>1, RunEnds
    <3> QED
      BY <1>1, <3>1
  <2>4. Laid(s, r, to, a, L) <=> Covered(s, a, r, b, L - a)
    <3>1. Laid(s, r, to, a, L) <=> Covered(s, a, r, End(s, to, a), L - a)
      BY <1>4, <2>1, PlainRun
    <3> QED
      BY <3>1
  <2>5. ASSUME L - a = M - b
        PROVE  Covered(s, a, r, b, L - a) <=> Alike(s, a, r, b, L - a)
    <3>1. \A i \in 1..(L - a) : b + i \in 1..Len(r)
      BY <1>1, <2>5
    <3> QED
      BY <3>1 DEF Covered, Alike
  <2> QED
    BY <2>2, <2>3, <2>4, <2>5 DEF v
<1>5. \/ /\ a < L /\ L \in Stars(s) /\ Plain(s, a, L - 1)
         /\ \A w \in Seq(T) :
              pathMatches(SubSeq(s, a + 1, L), w)
                <=> L - 1 - a <= Len(w) /\ Alike(s, a, w, 0, L - 1 - a)
      \/ /\ Plain(s, a, L)
         /\ \A w : pathMatches(SubSeq(s, a + 1, L), w) <=> SubSeq(s, a + 1, L) = w
  BY PathLetters
<1> QED
  BY <1>3, <1>4, <1>5

--------------------------------------------------------------------------------
(* The glob.                                                                  *)

\* The head has the "*"s up to the fourth colon.
LEMMA HeadStarsAre ==
  ASSUME NEW T, NEW s \in Seq(T), Splits(s), NEW i \in Stars(s)
  PROVE  i \in HeadStars(s) <=> i <= Colon(s, 4)
<1> DEFINE c4 == Colon(s, 4)
           J == {j \in Colons(s) : j < i}
<1>1. c4 \in 1..Len(s) /\ s[c4] = ":" /\ Cardinality(UpTo(s, c4)) = 4
  BY ColonsInOrder
<1>2. i \in 1..Len(s) /\ s[i] = "*" /\ Len(s) \in Nat
  BY DEF Stars
<1>3. J \in SUBSET Colons(s) /\ IsFiniteSet(J) /\ Cardinality(J) \in Nat
  <2>1. J \in SUBSET Colons(s)
    OBVIOUS
  <2> QED
    BY <2>1, ColonsFinite, FS_Subset, FS_CardinalityType
<1>4. i \in HeadStars(s) <=> Cardinality(J) < 4
  BY DEF HeadStars
<1>5. c4 \in UpTo(s, c4) /\ IsFiniteSet(UpTo(s, c4))
  <2>1. c4 \in Colons(s) /\ c4 <= c4
    BY <1>1 DEF Colons
  <2> QED
    BY <2>1, ColonsFinite DEF UpTo
<1>6. CASE i <= c4
  <2>1. J \in SUBSET UpTo(s, c4)
    <3>1. \A j \in Colons(s) : j < i => j <= c4
      BY <1>1, <1>2, <1>6, ColonsFinite
    <3> QED
      BY <3>1 DEF UpTo
  <2>2. i # c4
    BY <1>1, <1>2
  <2>3. c4 \notin J
    BY <1>1, <1>2, <1>6
  <2>4. Cardinality(J) <= 4 /\ (Cardinality(J) = 4 => J = UpTo(s, c4))
    BY <1>1, <1>5, <2>1, FS_Subset
  <2> QED
    BY <1>3, <1>4, <1>5, <1>6, <2>3, <2>4
<1>7. CASE ~(i <= c4)
  <2>1. UpTo(s, c4) \in SUBSET J
    <3>1. \A j \in Colons(s) : j <= c4 => j < i
      BY <1>1, <1>2, <1>7, ColonsFinite
    <3> QED
      BY <3>1 DEF UpTo
  <2>2. Cardinality(J) >= 4
    BY <1>1, <1>3, <2>1, FS_Subset
  <2> QED
    BY <1>3, <1>4, <1>7, <2>2
<1> QED
  BY <1>6, <1>7

\* The colons of the head, one after another.
LEMMA HeadColons ==
  ASSUME NEW T, NEW s \in Seq(T), Splits(s), NEW k \in 1..3
  PROVE  /\ Colon(s, k) \in 1..Len(s) /\ s[Colon(s, k)] = ":"
         /\ Colon(s, k + 1) \in (Colon(s, k) + 1)..Len(s) /\ s[Colon(s, k + 1)] = ":"
         /\ Colon(s, k) + 1 <= Colon(s, 4)
<1>1. (k = 1 /\ k + 1 = 2) \/ (k = 2 /\ k + 1 = 3) \/ (k = 3 /\ k + 1 = 4)
  OBVIOUS
<1>2. /\ Colon(s, 1) \in 1..Len(s) /\ s[Colon(s, 1)] = ":"
      /\ Colon(s, 2) \in 1..Len(s) /\ s[Colon(s, 2)] = ":"
      /\ Colon(s, 3) \in 1..Len(s) /\ s[Colon(s, 3)] = ":"
      /\ Colon(s, 4) \in 1..Len(s) /\ s[Colon(s, 4)] = ":"
      /\ Colon(s, 1) < Colon(s, 2) /\ Colon(s, 2) < Colon(s, 3) /\ Colon(s, 3) < Colon(s, 4)
  BY ColonsInOrder
<1> QED
  BY <1>1, <1>2

\* The colon of r behind its k-th is its next.
LEMMA ColonBehind ==
  ASSUME NEW T, NEW r \in Seq(T), Splits(r), NEW k \in 1..3,
         NEW e \in (Colon(r, k) + 1)..Len(r), r[e] = ":",
         Colonless(r, Colon(r, k), e)
  PROVE  Colon(r, k + 1) = e
<1> DEFINE b == Colon(r, k)
<1>1. /\ b \in 1..Len(r) /\ r[b] = ":" /\ Cardinality(UpTo(r, b)) = k /\ Len(r) \in Nat
      /\ b \in Nat /\ e \in Nat /\ b < e
  <2>1. b \in 1..Len(r) /\ r[b] = ":" /\ Len(r) \in Nat
    BY HeadColons
  <2>2. Cardinality(UpTo(r, b)) = k
    BY ColonsInOrder
  <2> HIDE DEF b
  <2> QED
    BY <2>1, <2>2 DEF b
<1>2. \A i \in (b + 1)..(e - 1) : r[i] # ":"
  BY DEF Colonless
<1> HIDE DEF b
<1>3. e \in Colons(r) /\ e \notin UpTo(r, b)
  BY <1>1 DEF Colons, UpTo, b
<1>4. UpTo(r, e) = UpTo(r, b) \cup {e}
  <2>1. ASSUME NEW j \in Colons(r) PROVE j <= e <=> j <= b \/ j = e
    <3>1. j \in Nat /\ r[j] = ":"
      BY ColonsFinite DEF Colons
    <3>2. j \notin (b + 1)..(e - 1)
      BY <1>2, <3>1
    <3> QED
      BY <1>1, <3>1, <3>2
  <2> QED
    BY <1>3, <2>1 DEF UpTo
<1>5. Cardinality(UpTo(r, e)) = k + 1
  BY <1>1, <1>3, <1>4, ColonsFinite, FS_AddElement
<1> QED
  BY <1>3, <1>5, ColonIs

\* The k-th part of s, and what is behind the head.
Segment(s, k) == SubSeq(s, Colon(s, k) + 1, Colon(s, k + 1) - 1)
Path(s) == SubSeq(s, Colon(s, 4) + 1, Len(s))

\* Matching is part by part.
LEMMA MatchesByPart ==
  ASSUME NEW s, NEW r
  PROVE  Matches(split(s), split(r))
           <=> /\ \A k \in 1..3 : segmentMatches(Segment(s, k), Segment(r, k))
               /\ pathMatches(Path(s), Path(r))
<1>1. \A t : /\ split(t).service = Segment(t, 1) /\ split(t).tenant = Segment(t, 2)
             /\ split(t).project = Segment(t, 3) /\ split(t).path = Path(t)
  <2>1. 1 + 1 = 2 /\ 2 + 1 = 3 /\ 3 + 1 = 4
    OBVIOUS
  <2> QED
    BY <2>1, Zenon DEF split, Segment, Path
<1>2. (\A k \in 1..3 : segmentMatches(Segment(s, k), Segment(r, k)))
        <=> /\ segmentMatches(Segment(s, 1), Segment(r, 1))
            /\ segmentMatches(Segment(s, 2), Segment(r, 2))
            /\ segmentMatches(Segment(s, 3), Segment(r, 3))
  OBVIOUS
<1> QED
  BY <1>1, <1>2, Zenon DEF Matches

\* What the parts of a pattern and of a resource are.
LEMMA PartsAre ==
  ASSUME NEW s
  PROVE  /\ ParsesAsPattern(s)
              => /\ Splits(s) /\ validPathPattern(Path(s))
                 /\ \A k \in 1..3 : Segment(s, k) = Wild \/ validSegment(Segment(s, k))
         /\ Parses(s) => Splits(s) /\ \A k \in 1..3 : validSegment(Segment(s, k))
<1>1. /\ split(s).service = Segment(s, 1) /\ split(s).tenant = Segment(s, 2)
      /\ split(s).project = Segment(s, 3) /\ split(s).path = Path(s)
  <2>1. 1 + 1 = 2 /\ 2 + 1 = 3 /\ 3 + 1 = 4
    OBVIOUS
  <2> QED
    BY <2>1, Zenon DEF split, Segment, Path
<1>2. \A k \in 1..3 : k = 1 \/ k = 2 \/ k = 3
  OBVIOUS
<1> QED
  BY <1>1, <1>2, Zenon DEF ParsesAsPattern, Parses

\* A layout that is on the k-th colon of r takes the k-th part to the next, and the parts
\* match.
LEMMA LaidHead ==
  ASSUME NEW T, NEW s \in Seq(T), NEW r \in Seq(T), NEW to \in [Stars(s) -> 0..Len(r)],
         Splits(s), Splits(r), NEW k \in 1..3,
         Segment(s, k) = Wild \/ validSegment(Segment(s, k)),
         End(s, to, Colon(s, k)) = Colon(r, k),
         Laid(s, r, to, Colon(s, k), Colon(s, k + 1))
  PROVE  /\ End(s, to, Colon(s, k + 1)) = Colon(r, k + 1)
         /\ segmentMatches(Segment(s, k), Segment(r, k))
<1> DEFINE a == Colon(s, k)
           c == Colon(s, k + 1)
           b == Colon(r, k)
           e == End(s, to, c)
<1>1. /\ a \in 1..Len(s) /\ c \in (a + 1)..Len(s) /\ s[c] = ":" /\ a + 1 <= Colon(s, 4)
      /\ b \in 1..Len(r)
  BY HeadColons
<1>2. /\ SubSeq(s, a + 1, c - 1) = Wild \/ validSegment(SubSeq(s, a + 1, c - 1))
      /\ End(s, to, a) = b /\ Laid(s, r, to, a, c)
  BY DEF Segment
<1>3. a + 1 \in Stars(s) => a + 1 \in HeadStars(s)
  BY <1>1, HeadStarsAre
<1> HIDE DEF a, b, c
<1>4. /\ e \in (b + 1)..Len(r) /\ r[e] = ":" /\ Colonless(r, b, e)
      /\ segmentMatches(SubSeq(s, a + 1, c - 1), SubSeq(r, b + 1, e - 1))
  BY <1>1, <1>2, <1>3, LaidSegment
<1> HIDE DEF e
<1>5. Colon(r, k + 1) = e
  BY <1>4, ColonBehind DEF b
<1> QED
  BY <1>4, <1>5 DEF Segment, a, b, c, e

\* Every text is laid on its own start by every layout: "mrn:" has no "*".
LEMMA LaidStart ==
  ASSUME NEW T, NEW s \in Seq(T), NEW r \in Seq(T), NEW to \in [Stars(s) -> 0..Len(r)],
         Splits(s), Splits(r)
  PROVE  /\ Colon(s, 1) = 2 /\ Colon(r, 1) = 2 /\ End(s, to, 2) = 2
         /\ Laid(s, r, to, 0, 2)
<1>1. /\ s[1] = "mrn" /\ s[2] = ":" /\ Colon(s, 1) = 2 /\ 2 \in 1..Len(s)
      /\ r[1] = "mrn" /\ r[2] = ":" /\ Colon(r, 1) = 2 /\ 2 \in 1..Len(r)
  <2>1. 1 \in 1..4
    OBVIOUS
  <2> QED
    BY <2>1, ColonsInOrder
<1>2. "mrn" # "*" /\ ":" # "*"
  OBVIOUS
<1>3. \A i \in 1..2 : i = 1 \/ i = 2
  OBVIOUS
<1>4. 0 + 1 = 1 /\ 2 - 0 = 2 /\ 0 \in 0..Len(s) /\ 2 \in 0..Len(s)
  BY <1>1
<1>5. Plain(s, 0, 2)
  <2>1. \A i \in 1..2 : i \notin Stars(s)
    BY <1>1, <1>2, <1>3 DEF Stars
  <2> QED
    BY <1>4, <2>1 DEF Plain
<1>6. End(s, to, 0) = 0
  <2>1. Len(r) \in Nat
    OBVIOUS
  <2> QED
    BY <2>1, Ends
<1>7. End(s, to, 2) = 2
  <2>1. End(s, to, 2) = End(s, to, 0) + (2 - 0)
    BY <1>4, <1>5, RunEnds
  <2> QED
    BY <1>6, <2>1
<1>8. Covered(s, 0, r, 0, 2)
  <2>1. 0 + 1 = 1 /\ 0 + 2 = 2 /\ 1 \in 1..Len(r)
    BY <1>1
  <2> QED
    BY <1>1, <1>3, <2>1 DEF Covered
<1>9. Laid(s, r, to, 0, 2) <=> Covered(s, 0, r, End(s, to, 0), 2 - 0)
  BY <1>4, <1>5, PlainRun
<1> QED
  BY <1>1, <1>4, <1>6, <1>7, <1>8, <1>9

\* The layout that takes a "*" of the head to the colon behind its part, and a "*" behind
\* the head to the end of r.
Stretch(s, r) ==
  [i \in Stars(s) |->
     IF i <= Colon(s, 2) THEN Colon(r, 2) - 1
     ELSE IF i <= Colon(s, 3) THEN Colon(r, 3) - 1
     ELSE IF i <= Colon(s, 4) THEN Colon(r, 4) - 1
     ELSE Len(r)]

\* What it does to a "*" that is a whole part, and to one at the end.
LEMMA StretchIs ==
  ASSUME NEW T, NEW s \in Seq(T), NEW r \in Seq(T), Splits(s), Splits(r)
  PROVE  /\ Stretch(s, r) \in [Stars(s) -> 0..Len(r)]
         /\ \A k \in 1..3 : Colon(s, k) + 1 \in Stars(s) =>
              Stretch(s, r)[Colon(s, k) + 1] = Colon(r, k + 1) - 1
         /\ Colon(s, 4) < Len(s) /\ Len(s) \in Stars(s) =>
              /\ Stretch(s, r)[Len(s)] = Len(r) /\ Len(s) \notin HeadStars(s)
<1> DEFINE s1 == Colon(s, 1)  s2 == Colon(s, 2)  s3 == Colon(s, 3)  s4 == Colon(s, 4)
           r2 == Colon(r, 2)  r3 == Colon(r, 3)  r4 == Colon(r, 4)
           to == Stretch(s, r)
           Value(i) == IF i <= s2 THEN r2 - 1 ELSE IF i <= s3 THEN r3 - 1
                       ELSE IF i <= s4 THEN r4 - 1 ELSE Len(r)
<1>1. /\ Len(s) \in Nat /\ s1 \in 1..Len(s) /\ s2 \in 1..Len(s) /\ s3 \in 1..Len(s)
      /\ s4 \in 1..Len(s) /\ s1 < s2 /\ s2 < s3 /\ s3 < s4
  <2>1. 1 \in 1..4 /\ 2 \in 1..4 /\ 3 \in 1..4 /\ 4 \in 1..4
    OBVIOUS
  <2> QED
    BY <2>1, ColonsInOrder
<1>2. /\ Len(r) \in Nat /\ r2 \in 1..Len(r) /\ r3 \in 1..Len(r) /\ r4 \in 1..Len(r)
  <2>1. 1 \in 1..4 /\ 2 \in 1..4 /\ 3 \in 1..4 /\ 4 \in 1..4
    OBVIOUS
  <2> QED
    BY <2>1, ColonsInOrder
<1>3. to = [i \in Stars(s) |-> Value(i)]
  BY Zenon DEF Stretch
<1> HIDE DEF to, s1, s2, s3, s4, r2, r3, r4
<1>4. \A i \in Stars(s) : to[i] = Value(i) /\ Value(i) \in 0..Len(r)
  BY <1>2, <1>3
<1>5. to \in [Stars(s) -> 0..Len(r)]
  BY <1>3, <1>4
<1>6. /\ Value(s1 + 1) = r2 - 1 /\ Value(s2 + 1) = r3 - 1 /\ Value(s3 + 1) = r4 - 1
      /\ s4 < Len(s) => Value(Len(s)) = Len(r)
  BY <1>1
<1>7. \A k \in 1..3 : Colon(s, k) + 1 \in Stars(s) => to[Colon(s, k) + 1] = Colon(r, k + 1) - 1
  <2>1. /\ s1 + 1 \in Stars(s) => to[s1 + 1] = r2 - 1
        /\ s2 + 1 \in Stars(s) => to[s2 + 1] = r3 - 1
        /\ s3 + 1 \in Stars(s) => to[s3 + 1] = r4 - 1
    BY <1>4, <1>6
  <2>2. \A k \in 1..3 : k = 1 \/ k = 2 \/ k = 3
    OBVIOUS
  <2>3. 1 + 1 = 2 /\ 2 + 1 = 3 /\ 3 + 1 = 4
    OBVIOUS
  <2> QED
    BY <2>1, <2>2, <2>3 DEF s1, s2, s3, r2, r3, r4
<1>8. s4 < Len(s) /\ Len(s) \in Stars(s) => to[Len(s)] = Len(r) /\ Len(s) \notin HeadStars(s)
  <2>1. s4 < Len(s) => ~(Len(s) <= s4)
    BY <1>1
  <2> QED
    BY <1>4, <1>6, <2>1, HeadStarsAre DEF s4
<1> QED
  BY <1>5, <1>7, <1>8 DEF to, s4

\* A part of the head that matches is laid on its like by it.
LEMMA HeadLaid ==
  ASSUME NEW T, NEW s \in Seq(T), NEW r \in Seq(T), Splits(s), Splits(r), NEW k \in 1..3,
         Segment(s, k) = Wild \/ validSegment(Segment(s, k)), validSegment(Segment(r, k)),
         segmentMatches(Segment(s, k), Segment(r, k)),
         End(s, Stretch(s, r), Colon(s, k)) = Colon(r, k)
  PROVE  /\ End(s, Stretch(s, r), Colon(s, k + 1)) = Colon(r, k + 1)
         /\ Laid(s, r, Stretch(s, r), Colon(s, k), Colon(s, k + 1))
<1> DEFINE a == Colon(s, k)
           c == Colon(s, k + 1)
           b == Colon(r, k)
           e == Colon(r, k + 1)
           to == Stretch(s, r)
<1>1. /\ a \in 1..Len(s) /\ c \in (a + 1)..Len(s) /\ s[c] = ":"
      /\ b \in 1..Len(r) /\ e \in (b + 1)..Len(r) /\ r[e] = ":"
  BY HeadColons
<1>2. /\ SubSeq(s, a + 1, c - 1) = Wild \/ validSegment(SubSeq(s, a + 1, c - 1))
      /\ validSegment(SubSeq(r, b + 1, e - 1))
      /\ segmentMatches(SubSeq(s, a + 1, c - 1), SubSeq(r, b + 1, e - 1))
      /\ End(s, to, a) = b
  BY DEF Segment
<1>3. to \in [Stars(s) -> 0..Len(r)] /\ (a + 1 \in Stars(s) => to[a + 1] = e - 1)
  BY StretchIs
<1> HIDE DEF a, b, c, e, to
<1>4. End(s, to, c) = e /\ Laid(s, r, to, a, c)
  BY <1>1, <1>2, <1>3, SegmentLaid
<1> QED
  BY <1>4 DEF a, b, c, e, to

\* Whatever the texts are, a pattern that parses matches the resources that it denotes as
\* a glob, and no others (MatchPattern, Matches, segmentMatches, pathMatches).
THEOREM GlobOfAnyText ==
  ASSUME NEW T, NEW s \in Seq(T), NEW r \in Seq(T)
  PROVE  ParsesAsPattern(s) => (MatchPattern(s, r) <=> Parses(r) /\ Denotes(s, r))
<1> SUFFICES ASSUME ParsesAsPattern(s), Parses(r)
             PROVE  Matches(split(s), split(r)) <=> Denotes(s, r)
  BY DEF MatchPattern
<1> DEFINE s2 == Colon(s, 2)  s3 == Colon(s, 3)  s4 == Colon(s, 4)
           r2 == Colon(r, 2)  r3 == Colon(r, 3)  r4 == Colon(r, 4)
<1>1. /\ Splits(s) /\ validPathPattern(Path(s)) /\ Splits(r)
      /\ \A k \in 1..3 : /\ Segment(s, k) = Wild \/ validSegment(Segment(s, k))
                         /\ validSegment(Segment(r, k))
  BY PartsAre
<1>2. /\ Len(s) \in Nat /\ s2 \in 1..Len(s) /\ s3 \in 1..Len(s) /\ s4 \in 1..Len(s)
      /\ 2 < s2 /\ s2 < s3 /\ s3 < s4 /\ r4 \in 1..Len(r)
  <2>1. 1 \in 1..4 /\ 2 \in 1..4 /\ 3 \in 1..4 /\ 4 \in 1..4
    OBVIOUS
  <2> QED
    BY <1>1, <2>1, ColonsInOrder
<1>3. /\ 1 \in 1..3 /\ 2 \in 1..3 /\ 3 \in 1..3 /\ 1 + 1 = 2 /\ 2 + 1 = 3 /\ 3 + 1 = 4
      /\ \A k \in 1..3 : k = 1 \/ k = 2 \/ k = 3
  OBVIOUS
<1>4. ASSUME NEW to,
             Laid(s, r, to, 0, 2), Laid(s, r, to, 2, s2), Laid(s, r, to, s2, s3),
             Laid(s, r, to, s3, s4), Laid(s, r, to, s4, Len(s))
      PROVE  \A i \in 1..Len(s) : Lies(s, r, to, i)
  <2> HIDE DEF s2, s3, s4
  <2>1. \A i \in 1..Len(s) : \/ i \in (0 + 1)..2 \/ i \in (2 + 1)..s2 \/ i \in (s2 + 1)..s3
                             \/ i \in (s3 + 1)..s4 \/ i \in (s4 + 1)..Len(s)
    BY <1>2
  <2> QED
    BY <1>4, <2>1, Zenon DEF Laid
<1>5. ASSUME NEW to, \A i \in 1..Len(s) : Lies(s, r, to, i)
      PROVE  /\ Laid(s, r, to, 2, s2) /\ Laid(s, r, to, s2, s3)
             /\ Laid(s, r, to, s3, s4) /\ Laid(s, r, to, s4, Len(s))
  <2> HIDE DEF s2, s3, s4
  <2>1. /\ \A i \in (2 + 1)..s2 : i \in 1..Len(s)
        /\ \A i \in (s2 + 1)..s3 : i \in 1..Len(s)
        /\ \A i \in (s3 + 1)..s4 : i \in 1..Len(s)
        /\ \A i \in (s4 + 1)..Len(s) : i \in 1..Len(s)
    BY <1>2
  <2> QED
    BY <1>5, <2>1, Zenon DEF Laid
<1>6. ASSUME NEW to \in [Stars(s) -> 0..Len(r)], End(s, to, Len(s)) = Len(r),
             \A i \in 1..Len(s) : Lies(s, r, to, i)
      PROVE  /\ \A k \in 1..3 : segmentMatches(Segment(s, k), Segment(r, k))
             /\ pathMatches(Path(s), Path(r))
  <2>1. /\ Laid(s, r, to, 2, s2) /\ Laid(s, r, to, s2, s3)
        /\ Laid(s, r, to, s3, s4) /\ Laid(s, r, to, s4, Len(s))
    BY <1>5, <1>6
  <2>2. Colon(s, 1) = 2 /\ Colon(r, 1) = 2 /\ End(s, to, 2) = 2
    BY <1>1, LaidStart
  <2>3. ASSUME NEW k \in 1..3, End(s, to, Colon(s, k)) = Colon(r, k),
               Laid(s, r, to, Colon(s, k), Colon(s, k + 1))
        PROVE  /\ End(s, to, Colon(s, k + 1)) = Colon(r, k + 1)
               /\ segmentMatches(Segment(s, k), Segment(r, k))
    BY <1>1, <2>3, LaidHead
  <2>4. End(s, to, s2) = r2 /\ segmentMatches(Segment(s, 1), Segment(r, 1))
    BY <1>3, <2>1, <2>2, <2>3
  <2>5. End(s, to, s3) = r3 /\ segmentMatches(Segment(s, 2), Segment(r, 2))
    BY <1>3, <2>1, <2>3, <2>4
  <2>6. End(s, to, s4) = r4 /\ segmentMatches(Segment(s, 3), Segment(r, 3))
    BY <1>3, <2>1, <2>3, <2>5
  <2>7. s4 < Len(s) /\ Len(s) \in Stars(s) => to[Len(s)] = Len(r) /\ Len(s) \notin HeadStars(s)
    <3>1. s4 < Len(s) => ~(Len(s) <= s4)
      BY <1>2
    <3>2. Len(s) \in Stars(s) => to[Len(s)] = Len(r)
      BY <1>6, StarEnds
    <3> QED
      BY <1>1, <3>1, <3>2, HeadStarsAre
  <2>8. pathMatches(Path(s), Path(r))
    BY <1>1, <1>2, <1>6, <2>1, <2>6, <2>7, PathLaid DEF Path
  <2> QED
    BY <1>3, <2>4, <2>5, <2>6, <2>8
<1>7. ASSUME \A k \in 1..3 : segmentMatches(Segment(s, k), Segment(r, k)),
             pathMatches(Path(s), Path(r))
      PROVE  Denotes(s, r)
  <2> DEFINE to == Stretch(s, r)
  <2>1. /\ to \in [Stars(s) -> 0..Len(r)]
        /\ s4 < Len(s) /\ Len(s) \in Stars(s) => to[Len(s)] = Len(r) /\ Len(s) \notin HeadStars(s)
    BY <1>1, StretchIs
  <2>2. ASSUME NEW k \in 1..3, End(s, to, Colon(s, k)) = Colon(r, k)
        PROVE  /\ End(s, to, Colon(s, k + 1)) = Colon(r, k + 1)
               /\ Laid(s, r, to, Colon(s, k), Colon(s, k + 1))
    BY <1>1, <1>7, <2>2, HeadLaid
  <2> HIDE DEF to
  <2>3. Colon(s, 1) = 2 /\ Colon(r, 1) = 2 /\ End(s, to, 2) = 2 /\ Laid(s, r, to, 0, 2)
    BY <1>1, <2>1, LaidStart
  <2>4. End(s, to, s2) = r2 /\ Laid(s, r, to, 2, s2)
    BY <1>3, <2>2, <2>3
  <2>5. End(s, to, s3) = r3 /\ Laid(s, r, to, s2, s3)
    BY <1>3, <2>2, <2>4
  <2>6. End(s, to, s4) = r4 /\ Laid(s, r, to, s3, s4)
    BY <1>3, <2>2, <2>5
  <2>7. End(s, to, Len(s)) = Len(r) /\ Laid(s, r, to, s4, Len(s))
    BY <1>1, <1>2, <1>7, <2>1, <2>6, PathLaid DEF Path
  <2>8. \A i \in 1..Len(s) : Lies(s, r, to, i)
    BY <1>4, <2>3, <2>4, <2>5, <2>6, <2>7
  <2> QED
    BY <2>1, <2>7, <2>8 DEF Denotes
<1>8. Denotes(s, r) => /\ \A k \in 1..3 : segmentMatches(Segment(s, k), Segment(r, k))
                      /\ pathMatches(Path(s), Path(r))
  BY <1>6 DEF Denotes
<1> QED
  BY <1>7, <1>8, MatchesByPart

--------------------------------------------------------------------------------
(* Texts.                                                                     *)

\* What a text and a probe are made of.
Letters == Tokens \cup {"a", "B", "mrn", ":", "*", "/"}

\* The texts of the probes.
LEMMA ShortTexts ==
  ASSUME NEW a \in Letters, NEW b \in Letters, NEW c \in Letters
  PROVE  /\ <<>> \in Seq(Letters) /\ <<a>> \in Seq(Letters)
         /\ <<a, b>> \in Seq(Letters) /\ <<a, b, c>> \in Seq(Letters)
  OBVIOUS

\* A probe is a text of letters.
LEMMA ProbesAreTexts == Probes \in SUBSET Seq(Letters)
<1> DEFINE Between(service, tenant, project, path) ==
             Prefix \o service \o <<":">> \o tenant \o <<":">> \o project \o <<":">> \o path
<1>1. /\ "a" \in Letters /\ "B" \in Letters /\ "mrn" \in Letters
      /\ ":" \in Letters /\ "*" \in Letters /\ "/" \in Letters
  BY DEF Letters
<1>2. Prefix \in Seq(Letters) /\ <<":">> \in Seq(Letters)
  BY <1>1, ShortTexts DEF Prefix
<1>3. \A service, tenant, project, path \in Seq(Letters) :
        Between(service, tenant, project, path) \in Seq(Letters)
  BY <1>2, ConcatProperties
<1>4. /\ <<>> \in Seq(Letters) /\ <<"a">> \in Seq(Letters) /\ <<"B">> \in Seq(Letters)
      /\ <<"mrn">> \in Seq(Letters) /\ <<"*">> \in Seq(Letters)
      /\ <<":", "a">> \in Seq(Letters) /\ <<"a", "/", "B">> \in Seq(Letters)
      /\ <<"a", ":", "a">> \in Seq(Letters)
  BY <1>1, ShortTexts
<1>5. Probes =
        {Between(<<"a">>, <<>>, <<>>, <<"a">>),
         Between(<<"a">>, <<"a">>, <<>>, <<"a">>),
         Between(<<"a">>, <<>>, <<"a">>, <<"a">>),
         Between(<<"a">>, <<>>, <<>>, <<"a", "/", "B">>),
         Between(<<"a">>, <<>>, <<>>, <<"a", ":", "a">>),
         Between(<<"a">>, <<>>, <<>>, <<":", "a">>),
         Between(<<"mrn">>, <<>>, <<>>, <<"B">>),
         Between(<<"a">>, <<>>, <<>>, <<"*">>),
         Between(<<>>, <<>>, <<>>, <<"a">>)}
  BY Zenon DEF Probes
<1> HIDE DEF Between
<1>6. /\ Between(<<"a">>, <<>>, <<>>, <<"a">>) \in Seq(Letters)
      /\ Between(<<"a">>, <<"a">>, <<>>, <<"a">>) \in Seq(Letters)
      /\ Between(<<"a">>, <<>>, <<"a">>, <<"a">>) \in Seq(Letters)
      /\ Between(<<"a">>, <<>>, <<>>, <<"a", "/", "B">>) \in Seq(Letters)
      /\ Between(<<"a">>, <<>>, <<>>, <<"a", ":", "a">>) \in Seq(Letters)
      /\ Between(<<"a">>, <<>>, <<>>, <<":", "a">>) \in Seq(Letters)
      /\ Between(<<"mrn">>, <<>>, <<>>, <<"B">>) \in Seq(Letters)
      /\ Between(<<"a">>, <<>>, <<>>, <<"*">>) \in Seq(Letters)
      /\ Between(<<>>, <<>>, <<>>, <<"a">>) \in Seq(Letters)
  BY <1>3, <1>4
<1> QED
  BY <1>5, <1>6, Zenon

\* So is all that is composed from them.
LEMMA TextIsText == Spec => [](text \in Seq(Letters))
<1>1. Init => text \in Seq(Letters)
  <2>1. "a" \in Letters /\ "mrn" \in Letters /\ ":" \in Letters
    BY DEF Letters
  <2>2. <<"a", ":">> \in Seq(Letters) /\ <<"mrn", ":">> \in Seq(Letters)
    BY <2>1, ShortTexts
  <2> QED
    BY <2>2 DEF Init, Starts, Prefix
<1>2. text \in Seq(Letters) /\ [Write]_text => (text \in Seq(Letters))'
  BY AppendProperties DEF Write, Letters
<1> QED
  BY <1>1, <1>2, PTL DEF Spec

\* However long a text is, and whatever it is made of, what parses reads back as it
\* was written (OneSpelling; split, String).
THEOREM ReadsBack == Spec => []OneSpelling
<1>1. text \in Seq(Letters) => OneSpelling
  BY SplitReadsBack DEF OneSpelling, Parses, ParsesAsPattern
<1> QED
  BY <1>1, TextIsText, PTL

\* Of a grant of any length, and of whatever letters, matching is the glob
\* (MatchIsSegmentGlob; MatchPattern).
THEOREM MatchingIsTheGlob == Spec => []MatchIsSegmentGlob
<1>1. text \in Seq(Letters) => MatchIsSegmentGlob
  BY ProbesAreTexts, GlobOfAnyText DEF MatchIsSegmentGlob
<1> QED
  BY <1>1, TextIsText, PTL

\* No text of any length is both a resource and a pattern for another
\* (ResourceIsNoWildcard; validSegment, validResourcePath, Matches).
THEOREM NoWiderThanItself == Spec => []ResourceIsNoWildcard
<1>1. text \in Seq(Letters) => ResourceIsNoWildcard
  BY ProbesAreTexts, ResourceMatchesItself, ResourceMatchesOnlyItself DEF ResourceIsNoWildcard
<1> QED
  BY <1>1, TextIsText, PTL

================================================================================
