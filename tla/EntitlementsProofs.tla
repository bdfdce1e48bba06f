-------------------------- MODULE EntitlementsProofs ---------------------------
(* What holds of every claim list, every action, every resource and every    *)
(* vocabulary of blanket actions.                                            *)
EXTENDS Entitlements, FiniteSetTheorems, SequenceTheorems, WellFoundedInduction, TLAPS

--------------------------------------------------------------------------------
(* Lemmas about principals.                                                  *)

\* A grant of a claim list is the grant of one of its entries.
LEMMA GrantsByEntry ==
  ASSUME NEW entries
  PROVE  \A g : g \in ParseGrants(entries) <=> \E e \in entries : g \in ParseGrants({e})
BY DEF ParseGrants

\* Grant g of a principal at a service with blanket actions v allows a on r.
Settles(g, v, a, r) ==
  /\ a # <<>> /\ Parses(r)
  /\ g.action = a \/ g.action = WildcardAction \/ (g.action # <<>> /\ g.action \in v)
  /\ g.resource = <<>> \/ MatchPattern(g.resource, r)

\* What a principal may do, one of its grants says, and it says so alone.
LEMMA AllowsByGrant ==
  ASSUME NEW entries, NEW v, NEW a, NEW r
  PROVE  Allows(PrincipalOf(entries, v), a, r)
           <=> \E g \in ParseGrants(entries) : Settles(g, v, a, r)
<1> DEFINE p == PrincipalOf(entries, v)
<1>1. p.grants = ParseGrants(entries) /\ p.blanket = v
  BY DEF PrincipalOf
<1> HIDE DEF p
<1>2. Allows(p, a, r) <=> \E g \in ParseGrants(entries) : Settles(g, v, a, r)
  BY <1>1 DEF Allows, actionCovers, Settles
<1> QED
  BY <1>2 DEF p

\* Grants have an action.
LEMMA GrantHasAction ==
  ASSUME NEW entries, NEW g \in ParseGrants(entries)
  PROVE  g.action # <<>>
BY DEF ParseGrants

--------------------------------------------------------------------------------
(* Lemmas about texts.                                                       *)

\* A set of places that is not empty has a first one.
LEMMA LeastExists ==
  ASSUME NEW S \in SUBSET Nat, S # {}
  PROVE  \E i \in S : \A j \in S : i <= j
<1>1. \E i \in S : \A j \in S : ~(<<j, i>> \in OpToRel(<, Nat))
  BY WFMin, NatLessThanWellFounded, Zenon
<1>2. \E i \in S : \A j \in S : ~(j < i)
  BY <1>1, Zenon DEF OpToRel
<1> QED
  BY <1>2

\* ... and, when it is bounded, a last one.
LEMMA GreatestExists ==
  ASSUME NEW S \in SUBSET Nat, S # {}, NEW n \in Nat, \A i \in S : i <= n
  PROVE  \E i \in S : \A j \in S : i >= j
<1> DEFINE T == {k \in Nat : n - k \in S}
<1>1. PICK s \in S : TRUE
  OBVIOUS
<1>2. n - s \in T /\ T \in SUBSET Nat
  <2>1. n - s \in Nat /\ n - (n - s) = s
    OBVIOUS
  <2> QED
    BY <2>1
<1>3. PICK k \in T : \A j \in T : k <= j
  BY <1>2, LeastExists
<1>4. n - k \in S
  OBVIOUS
<1>5. ASSUME NEW j \in S PROVE n - k >= j
  <2>1. n - j \in Nat /\ n - (n - j) = j
    OBVIOUS
  <2>2. n - j \in T
    BY <2>1
  <2>3. k <= n - j
    BY <1>3, <2>2
  <2> QED
    BY <2>3
<1> QED
  BY <1>4, <1>5

\* The first and the last of a set of places.
First(S) == CHOOSE i \in S : \A j \in S : i <= j
Final(S) == CHOOSE i \in S : \A j \in S : i >= j

\* First and Final pick them.
LEMMA Ends ==
  ASSUME NEW n \in Nat, NEW S \in SUBSET (1..n), S # {}
  PROVE  /\ First(S) \in S /\ \A j \in S : First(S) <= j
         /\ Final(S) \in S /\ \A j \in S : Final(S) >= j
<1>1. S \in SUBSET Nat /\ \A i \in S : i <= n
  OBVIOUS
<1>2. \E i \in S : \A j \in S : i <= j
  BY <1>1, LeastExists
<1>3. \E i \in S : \A j \in S : i >= j
  BY <1>1, GreatestExists
<1> QED
  BY <1>2, <1>3 DEF First, Final

\* There is one first place.
LEMMA FirstIs ==
  ASSUME NEW S \in SUBSET Nat, NEW i \in S, \A j \in S : i <= j
  PROVE  First(S) = i
<1>1. \A k \in S : (\A j \in S : k <= j) => k = i
  <2> SUFFICES ASSUME NEW k \in S, \A j \in S : k <= j PROVE k = i
    OBVIOUS
  <2>1. k <= i /\ i <= k
    OBVIOUS
  <2> QED
    BY <2>1
<1> QED
  BY <1>1 DEF First

Blank == " "

\* The places of s that are not blank.
Kept(s) == {i \in 1..Len(s) : s[i] # Blank}

\* TrimSpace cuts to the places it keeps.
LEMMA TrimIs ==
  ASSUME NEW s
  PROVE  TrimSpace(s) = IF Kept(s) = {} THEN <<>> ELSE SubSeq(s, First(Kept(s)), Final(Kept(s)))
BY Zenon DEF TrimSpace, Kept, First, Final, Blank

\* A part of a part is a part.
LEMMA PartOfPart ==
  ASSUME NEW T, NEW s \in Seq(T), NEW i \in 1..(Len(s) + 1), NEW j \in 0..Len(s), i <= j + 1,
         NEW m \in 1..(j - i + 2), NEW n \in 0..(j - i + 1),
         NEW x, NEW y, x = i + m - 1, y = i + n - 1
  PROVE  SubSeq(SubSeq(s, i, j), m, n) = SubSeq(s, x, y)
<1>1. CASE m <= n
  <2>1. i \in 1..Len(s) /\ j \in 1..Len(s) /\ m \in 1..(j - i + 1) /\ n \in 1..(j - i + 1)
    BY <1>1
  <2> QED
    BY <2>1, SubSeqOfSubSeq
<1>2. CASE n < m
  <2>1. SubSeq(SubSeq(s, i, j), m, n) = <<>>
    BY <1>2, SubSeqEmpty
  <2>2. SubSeq(s, x, y) = <<>>
    <3>1. x \in Int /\ y \in Int /\ y < x
      BY <1>2
    <3> QED
      BY <3>1, SubSeqEmpty
  <2> QED
    BY <2>1, <2>2
<1> QED
  BY <1>1, <1>2

\* A part of a text, place by place.
LEMMA PartProperties ==
  ASSUME NEW T, NEW s \in Seq(T), NEW i \in 1..(Len(s) + 1), NEW j \in 0..Len(s), i <= j + 1
  PROVE  /\ SubSeq(s, i, j) \in Seq(T) /\ Len(SubSeq(s, i, j)) = j - i + 1
         /\ \A k \in 1..(j - i + 1) : SubSeq(s, i, j)[k] = s[i + k - 1]
<1>1. i \in Int /\ j \in Int /\ Len(s) \in Nat
  OBVIOUS
<1>2. \A k \in i..j : s[k] \in T
  <2> SUFFICES ASSUME NEW k \in i..j PROVE s[k] \in T
    OBVIOUS
  <2>1. k \in 1..Len(s)
    OBVIOUS
  <2> QED
    BY <2>1, ElementOfSeq
<1>3. CASE i <= j
  BY <1>1, <1>2, <1>3, SubSeqProperties
<1>4. CASE ~(i <= j)
  <2>1. SubSeq(s, i, j) = <<>> /\ j - i + 1 = 0
    BY <1>4, SubSeqEmpty
  <2> QED
    BY <2>1
<1> QED
  BY <1>3, <1>4

\* Trimming leaves a text.
LEMMA TrimmedIsText ==
  ASSUME NEW T, NEW s \in Seq(T)
  PROVE  TrimSpace(s) \in Seq(T)
<1>1. CASE Kept(s) = {}
  <2>1. <<>> \in Seq(T)
    OBVIOUS
  <2> QED
    BY <1>1, <2>1, TrimIs
<1>2. CASE Kept(s) # {}
  <2> DEFINE x == First(Kept(s))
             y == Final(Kept(s))
  <2>1. Len(s) \in Nat /\ Kept(s) \in SUBSET (1..Len(s))
    BY LenProperties DEF Kept
  <2>2. x \in Kept(s) /\ y \in Kept(s) /\ x <= y
    BY <1>2, <2>1, Ends
  <2> HIDE DEF x, y
  <2>3. x \in 1..(Len(s) + 1) /\ y \in 0..Len(s) /\ x <= y + 1
    BY <2>1, <2>2
  <2>4. SubSeq(s, x, y) \in Seq(T)
    BY <2>3, PartProperties
  <2> QED
    BY <1>2, <2>4, TrimIs DEF x, y
<1> QED
  BY <1>1, <1>2

\* What is trimmed does not change if blanks at its end are cut off before.
LEMMA TrimTwice ==
  ASSUME NEW T, NEW s \in Seq(T), NEW n \in 0..Len(s), \A k \in (n + 1)..Len(s) : s[k] = Blank
  PROVE  TrimSpace(SubSeq(s, 1, n)) = TrimSpace(s)
<1> DEFINE u == SubSeq(s, 1, n)
<1>0. Len(s) \in Nat /\ n \in Nat /\ n <= Len(s)
  BY LenProperties
<1>1. u \in Seq(T) /\ Len(u) = n /\ \A k \in 1..n : u[k] = s[k]
  <2>1. /\ 1 \in 1..(Len(s) + 1) /\ n \in 0..Len(s) /\ 1 <= n + 1 /\ n - 1 + 1 = n
        /\ \A k \in 1..n : 1 + k - 1 = k
    BY <1>0
  <2>2. /\ u \in Seq(T) /\ Len(u) = n - 1 + 1
        /\ \A k \in 1..(n - 1 + 1) : u[k] = s[1 + k - 1]
    BY <2>1, PartProperties
  <2> QED
    BY <2>1, <2>2
<1> HIDE DEF u
<1>2. Kept(u) = Kept(s)
  <2>1. ASSUME NEW k \in 1..Len(s) PROVE k \in 1..n \/ s[k] = Blank
    BY <1>0
  <2>2. 1..n \in SUBSET (1..Len(s))
    BY <1>0
  <2> QED
    BY <1>1, <2>1, <2>2 DEF Kept
<1>3. CASE Kept(s) = {}
  BY <1>2, <1>3, TrimIs DEF u
<1>4. CASE Kept(s) # {}
  <2> DEFINE x == First(Kept(s))
             y == Final(Kept(s))
  <2>1. Kept(s) \in SUBSET (1..n)
    BY <1>1, <1>2 DEF Kept
  <2>2. x \in 1..n /\ y \in 1..n
    BY <1>0, <1>4, <2>1, Ends
  <2> HIDE DEF x, y
  <2>3. SubSeq(u, x, y) = SubSeq(s, x, y)
    <3>1. /\ 1 \in 1..(Len(s) + 1) /\ 1 <= n + 1 /\ x \in 1..(n - 1 + 2) /\ y \in 0..(n - 1 + 1)
          /\ x = 1 + x - 1 /\ y = 1 + y - 1
      BY <1>0, <2>2
    <3>2. SubSeq(SubSeq(s, 1, n), x, y) = SubSeq(s, x, y)
      BY <3>1, PartOfPart
    <3> QED
      BY <3>2 DEF u
  <2> QED
    BY <1>2, <1>4, <2>3, TrimIs DEF u, x, y
<1> QED
  BY <1>3, <1>4

\* ParseGrant trims an entry before it looks for the "=", and the pattern is what
\* stands behind the first "=" of the entry all the same.
LEMMA PatternOfEntry ==
  ASSUME NEW T, NEW e \in Seq(T), Equals(e) # {}
  PROVE  ParseGrant(e).resource = PatternText(e) /\ PatternText(e) \in Seq(T)
<1> DEFINE t == TrimSpace(e)
           L == Len(e)
           a == First(Kept(e))
           b == Final(Kept(e))
           i == First(Equals(e))
<1>1. L \in Nat /\ Equals(e) \in SUBSET (1..L) /\ Kept(e) \in SUBSET (1..L)
  BY LenProperties DEF Equals, Kept
<1>2. Equals(e) \in SUBSET Kept(e) /\ Kept(e) # {}
  <2>1. "=" # Blank
    BY Zenon DEF Blank
  <2> QED
    BY <2>1 DEF Equals, Kept
<1>3. /\ i \in Equals(e) /\ \A j \in Equals(e) : i <= j
      /\ a \in 1..L /\ b \in 1..L /\ \A k \in Kept(e) : a <= k /\ b >= k
  BY <1>1, <1>2, Ends
<1>4. i \in 1..L /\ a <= i /\ i <= b /\ t = SubSeq(e, a, b)
  BY <1>1, <1>2, <1>3, TrimIs
<1>5. PatternText(e) = TrimSpace(SubSeq(e, i + 1, L))
  BY DEF PatternText, First
<1>6. \A k \in (b + 1)..L : e[k] = Blank
  <2> SUFFICES ASSUME NEW k \in (b + 1)..L PROVE e[k] = Blank
    OBVIOUS
  <2>1. k \in 1..L /\ ~(b >= k)
    BY <1>3
  <2> QED
    BY <1>3, <2>1 DEF Kept
<1> HIDE DEF t, L, a, b, i
<1>7. t \in Seq(T) /\ Len(t) = b - a + 1 /\ \A k \in 1..(b - a + 1) : t[k] = e[a + k - 1]
  BY <1>1, <1>3, <1>4, PartProperties DEF L
<1>8. i - a + 1 \in Equals(t)
  <2>1. i - a + 1 \in 1..(b - a + 1) /\ a + (i - a + 1) - 1 = i
    BY <1>3, <1>4
  <2>2. e[i] = "="
    BY <1>3 DEF Equals
  <2> QED
    BY <1>7, <2>1, <2>2 DEF Equals
<1>9. ASSUME NEW j \in Equals(t) PROVE i - a + 1 <= j
  <2>1. j \in 1..(b - a + 1) /\ e[a + j - 1] = "="
    BY <1>7 DEF Equals
  <2>2. a + j - 1 \in 1..L
    BY <1>1, <1>3, <2>1
  <2>3. a + j - 1 \in Equals(e)
    BY <2>1, <2>2 DEF Equals, L
  <2>4. i <= a + j - 1
    BY <1>3, <2>3
  <2> QED
    BY <1>3, <1>4, <2>1, <2>4
<1>10. First(Equals(t)) = i - a + 1
  <2>1. Equals(t) \in SUBSET Nat
    BY <1>7 DEF Equals
  <2> QED
    BY <1>8, <1>9, <2>1, FirstIs
<1>11. ParseGrant(e).resource = TrimSpace(SubSeq(t, (i - a + 1) + 1, Len(t)))
  <2>1. ParseGrant(e).resource = TrimSpace(SubSeq(t, First(Equals(t)) + 1, Len(t)))
    <3>1. Equals(t) # {}
      BY <1>8
    <3> QED
      BY <3>1 DEF ParseGrant, First, t
  <2> QED
    BY <1>10, <2>1
<1>12. SubSeq(t, (i - a + 1) + 1, Len(t)) = SubSeq(e, i + 1, b)
  <2> DEFINE m == (i - a + 1) + 1
             n == b - a + 1
             x == i + 1
  <2>1. /\ a \in 1..(L + 1) /\ b \in 0..L /\ a <= b + 1
        /\ m \in 1..(b - a + 2) /\ n \in 0..(b - a + 1)
        /\ x = a + m - 1 /\ b = a + n - 1
    BY <1>1, <1>3, <1>4
  <2> HIDE DEF m, n, x
  <2>2. SubSeq(SubSeq(e, a, b), m, n) = SubSeq(e, x, b)
    BY <2>1, PartOfPart DEF L
  <2> QED
    BY <1>4, <1>7, <2>2 DEF m, n, x
<1> DEFINE rest == SubSeq(e, i + 1, L)
<1>13. i + 1 \in 1..(L + 1) /\ L \in 0..L /\ i + 1 <= L + 1 /\ b - i \in 0..(L - i)
  BY <1>1, <1>3, <1>4
<1>14. rest \in Seq(T) /\ Len(rest) = L - i /\ \A k \in 1..(L - i) : rest[k] = e[i + k]
  <2>1. /\ rest \in Seq(T) /\ Len(rest) = L - (i + 1) + 1
        /\ \A k \in 1..(L - (i + 1) + 1) : rest[k] = e[(i + 1) + k - 1]
    BY <1>13, PartProperties DEF L
  <2> QED
    BY <1>1, <1>4, <2>1
<1>15. \A k \in ((b - i) + 1)..(L - i) : rest[k] = Blank
  <2> SUFFICES ASSUME NEW k \in ((b - i) + 1)..(L - i) PROVE rest[k] = Blank
    OBVIOUS
  <2>1. k \in 1..(L - i) /\ i + k \in (b + 1)..L
    BY <1>1, <1>3, <1>4
  <2> QED
    BY <1>6, <1>14, <2>1
<1>16. SubSeq(rest, 1, b - i) = SubSeq(e, i + 1, b)
  <2> DEFINE n == b - i
             x == i + 1
  <2>1. /\ x \in 1..(L + 1) /\ L \in 0..L /\ x <= L + 1
        /\ 1 \in 1..(L - x + 2) /\ n \in 0..(L - x + 1)
        /\ x = x + 1 - 1 /\ b = x + n - 1
    BY <1>1, <1>3, <1>4
  <2> HIDE DEF n, x
  <2>2. SubSeq(SubSeq(e, x, L), 1, n) = SubSeq(e, x, b)
    BY <2>1, PartOfPart DEF L
  <2> QED
    BY <2>2 DEF n, x
<1> HIDE DEF rest
<1>17. TrimSpace(SubSeq(rest, 1, b - i)) = TrimSpace(rest)
  BY <1>13, <1>14, <1>15, TrimTwice
<1>18. TrimSpace(rest) \in Seq(T)
  BY <1>14, TrimmedIsText
<1> QED
  BY <1>5, <1>11, <1>12, <1>16, <1>17, <1>18 DEF rest

--------------------------------------------------------------------------------
(* Lemmas about claims.                                                      *)

\* A word of a scope string is in it place by place, and no blank among them.
LEMMA WordInPlace ==
  ASSUME NEW s \in Seq(Letters), NEW e \in Words, NEW i \in 1..Len(s), StandsAt(e, s, i)
  PROVE  /\ Len(e) \in Nat /\ Len(e) >= 1 /\ i + Len(e) <= Len(s) + 1
         /\ SubSeq(s, i, i + Len(e) - 1) = e
         /\ \A k \in i..(i + Len(e) - 1) : s[k] # " "
<1>0. e \in Seq(Letters) /\ e # <<>>
  BY EntitlementsAssumption DEF Words
<1>1. \A k \in 1..Len(e) : e[k] # " "
  BY DEF Words
<1>2. Len(e) \in Nat /\ Len(e) >= 1
  <2>1. Len(e) \in Nat /\ Len(e) # 0
    BY <1>0, EmptySeq, LenProperties, Zenon
  <2> QED
    BY <2>1
<1>3. i + Len(e) <= Len(s) + 1 /\ SubSeq(s, i, i + Len(e) - 1) = e
  BY DEF StandsAt
<1> DEFINE j == i + Len(e) - 1
<1>4. j \in 0..Len(s) /\ i <= j + 1 /\ i \in 1..(Len(s) + 1) /\ j - i + 1 = Len(e)
  BY <1>2, <1>3
<1> HIDE DEF j
<1>5. \A k \in 1..(j - i + 1) : SubSeq(s, i, j)[k] = s[i + k - 1]
  BY <1>4, PartProperties
<1>6. ASSUME NEW k \in i..j PROVE s[k] # " "
  <2>1. k - i + 1 \in 1..(j - i + 1) /\ i + (k - i + 1) - 1 = k
    BY <1>4
  <2>2. SubSeq(s, i, j)[k - i + 1] = s[k]
    BY <1>5, <2>1
  <2>3. SubSeq(s, i, j) = e
    BY <1>3 DEF j
  <2> QED
    BY <1>1, <1>4, <2>1, <2>2, <2>3
<1> QED
  BY <1>2, <1>3, <1>6 DEF j

\* The longest part of s without a blank that is at i..j.
IsField(s, i, j) ==
  /\ \A k \in i..j : s[k] # " "
  /\ i = 1 \/ s[i - 1] = " "
  /\ j = Len(s) \/ s[j + 1] = " "

\* Fields finds them.
LEMMA FieldsAre ==
  ASSUME NEW s, NEW f
  PROVE  f \in Fields(s) <=>
           \E i, j \in 1..Len(s) : i <= j /\ IsField(s, i, j) /\ f = SubSeq(s, i, j)
<1> DEFINE Spans == {v \in (1..Len(s)) \X (1..Len(s)) : v[1] <= v[2] /\ IsField(s, v[1], v[2])}
<1>1. Fields(s) = {SubSeq(s, w[1], w[2]) : w \in Spans}
  BY Zenon DEF Fields, IsField
<1>2. \A i, j \in 1..Len(s) : i <= j /\ IsField(s, i, j) => <<i, j>> \in Spans
  OBVIOUS
<1>3. ASSUME f \in Fields(s)
      PROVE  \E i, j \in 1..Len(s) : i <= j /\ IsField(s, i, j) /\ f = SubSeq(s, i, j)
  <2>1. PICK w \in Spans : f = SubSeq(s, w[1], w[2])
    BY <1>1, <1>3
  <2>2. w[1] \in 1..Len(s) /\ w[2] \in 1..Len(s) /\ w[1] <= w[2] /\ IsField(s, w[1], w[2])
    BY <2>1
  <2> QED
    BY <2>1, <2>2
<1>4. ASSUME NEW i \in 1..Len(s), NEW j \in 1..Len(s), i <= j, IsField(s, i, j),
             f = SubSeq(s, i, j)
      PROVE  f \in Fields(s)
  <2>1. <<i, j>> \in Spans /\ f = SubSeq(s, <<i, j>>[1], <<i, j>>[2])
    BY <1>2, <1>4
  <2> HIDE DEF Spans
  <2> QED
    BY <1>1, <2>1
<1> QED
  BY <1>3, <1>4

\* What Auth joins, Verify takes apart again.
LEMMA FieldsOfScope ==
  ASSUME NEW said \in SUBSET Words
  PROVE  Fields(ScopeOf[said]) = said
<1> DEFINE s == ScopeOf[said]
           L == Len(s)
<1>0. L \in Nat
  BY ScopeContract, LenProperties
<1>1. /\ s \in Seq(Letters)
      /\ \A e \in said : \E i \in 1..L : StandsAt(e, s, i)
      /\ \A k \in 1..L : s[k] # " " => \E e \in said, i \in 1..k : StandsAt(e, s, i) /\ k < i + Len(e)
  BY ScopeContract
<1> HIDE DEF s, L
<1>2. ASSUME NEW e \in said PROVE e \in Fields(s)
  <2>1. PICK i \in 1..L : StandsAt(e, s, i)
    BY <1>1
  <2> DEFINE j == i + Len(e) - 1
  <2>2. SubSeq(s, i, j) = e /\ \A k \in i..j : s[k] # " "
    BY <1>1, <2>1, WordInPlace DEF L
  <2>3. j \in 1..L /\ i <= j /\ j + 1 = i + Len(e)
    <3>1. Len(e) \in Nat /\ Len(e) >= 1 /\ i + Len(e) <= L + 1
      BY <1>1, <2>1, WordInPlace DEF L
    <3> QED
      BY <1>0, <3>1
  <2> HIDE DEF j
  <2>4. IsField(s, i, j)
    <3>1. i = 1 \/ s[i - 1] = " "
      <4>1. i = 1 \/ i > 1
        BY <1>0
      <4> QED
        BY <2>1, <4>1 DEF StandsAt
    <3>2. j = L \/ s[j + 1] = " "
      <4>1. j = L \/ j + 1 <= L
        BY <1>0, <2>3
      <4>2. j + 1 <= L => s[j + 1] = " "
        BY <2>1, <2>3 DEF StandsAt, L
      <4> QED
        BY <4>1, <4>2
    <3> QED
      BY <2>2, <3>1, <3>2 DEF IsField, L
  <2> QED
    BY <2>2, <2>3, <2>4, FieldsAre DEF L
<1>3. ASSUME NEW f \in Fields(s) PROVE f \in said
  <2>1. PICK i \in 1..L, j \in 1..L : i <= j /\ IsField(s, i, j) /\ f = SubSeq(s, i, j)
    BY <1>3, FieldsAre DEF L
  <2>2. /\ \A k \in i..j : s[k] # " "
        /\ i = 1 \/ s[i - 1] = " "
        /\ j = L \/ s[j + 1] = " "
    BY <2>1 DEF IsField, L
  <2>3. i \in Nat /\ j \in Nat /\ 1 <= i /\ i <= j /\ j <= L
    BY <1>0, <2>1
  <2>4. s[i] # " "
    <3>1. i \in i..j
      BY <2>3
    <3> QED
      BY <2>2, <3>1
  <2>5. PICK e \in said, m \in 1..i : StandsAt(e, s, m) /\ i < m + Len(e)
    BY <1>1, <2>4
  <2> DEFINE n == m + Len(e)
  <2>6. m \in 1..L
    BY <1>0, <2>1, <2>5
  <2>7. n \in Nat /\ n <= L + 1 /\ m <= i /\ i < n
    <3>1. Len(e) \in Nat /\ m + Len(e) <= Len(s) + 1
      BY <1>1, <2>5, <2>6, WordInPlace DEF L
    <3> QED
      BY <2>5, <3>1 DEF L
  <2>8. SubSeq(s, m, n - 1) = e /\ \A k \in m..(n - 1) : s[k] # " "
    <3>1. StandsAt(e, s, m) /\ m \in 1..Len(s) /\ e \in Words
      BY <2>5, <2>6 DEF L
    <3>2. /\ SubSeq(s, m, m + Len(e) - 1) = e
          /\ \A k \in m..(m + Len(e) - 1) : s[k] # " "
      BY <1>1, <3>1, WordInPlace, Zenon
    <3>3. n - 1 = m + Len(e) - 1
      OBVIOUS
    <3> HIDE DEF n
    <3> QED
      BY <3>2, <3>3
  <2>9. n <= L => s[n] = " "
    BY <2>5 DEF StandsAt, L
  <2> HIDE DEF n
  <2>10. m = i
    <3> SUFFICES ASSUME m # i PROVE FALSE
      OBVIOUS
    <3>1. i # 1 /\ i - 1 \in m..(n - 1)
      BY <2>7, <2>3
    <3> QED
      BY <2>2, <2>8, <3>1
  <2>11. ~(j < n - 1)
    <3> SUFFICES ASSUME j < n - 1 PROVE FALSE
      OBVIOUS
    <3>1. j # L /\ j + 1 \in m..(n - 1)
      BY <1>0, <2>3, <2>7
    <3> QED
      BY <2>2, <2>8, <3>1
  <2>12. ~(j > n - 1)
    <3> SUFFICES ASSUME j > n - 1 PROVE FALSE
      OBVIOUS
    <3>1. n \in i..j /\ n <= L
      BY <1>0, <2>3, <2>7
    <3> QED
      BY <2>2, <2>9, <3>1
  <2>13. j = n - 1
    BY <1>0, <2>7, <2>11, <2>12
  <2> QED
    BY <2>1, <2>5, <2>8, <2>10, <2>13
<1> QED
  BY <1>2, <1>3 DEF s

\* The words that the principal takes from a scope string are those that were said.
LEMMA MintedScope ==
  ASSUME NEW said \in SUBSET Words, NEW listed
  PROVE  Fields(stringClaim(MintedAs(said, listed), "scope")) = said
<1>1. MintedAs(said, listed)["scope"] = IF said = {} THEN Other ELSE Text(ScopeOf[said])
  BY DEF MintedAs, NoClaims, ClaimKeys
<1>2. CASE said = {}
  <2>1. stringClaim(MintedAs(said, listed), "scope") = <<>>
    BY <1>1, <1>2 DEF stringClaim, Other
  <2>2. Fields(<<>>) = {}
    <3>1. 1..Len(<<>>) = {}
      OBVIOUS
    <3> QED
      BY <3>1, FieldsAre
  <2> QED
    BY <1>2, <2>1, <2>2
<1>3. CASE said # {}
  <2>1. stringClaim(MintedAs(said, listed), "scope") = ScopeOf[said]
    BY <1>1, <1>3 DEF stringClaim, Text
  <2> QED
    BY <2>1, FieldsOfScope
<1> QED
  BY <1>2, <1>3

\* A text of blanks is trimmed to nothing.
LEMMA BlankIsNothing == TrimSpace(<<" ">>) = <<>> /\ TrimSpace(<<>>) = <<>>
<1>1. Kept(<<" ">>) = {}
  <2>1. Len(<<" ">>) = 1 /\ <<" ">>[1] = " "
    OBVIOUS
  <2>2. \A k \in 1..Len(<<" ">>) : <<" ">>[k] = " "
    <3>1. \A k \in 1..1 : k = 1
      OBVIOUS
    <3> QED
      BY <2>1, <3>1, Zenon
  <2> QED
    BY <2>2, Zenon DEF Kept, Blank
<1>2. Kept(<<>>) = {}
  BY DEF Kept
<1> QED
  BY <1>1, <1>2, TrimIs

\* The entries that it takes from a permissions array are those that were listed, but
\* for blank ones.
LEMMA MintedList ==
  ASSUME NEW said, NEW listed
  PROVE  Permissions(MintedAs(said, listed)) = {e \in listed : TrimSpace(e) # <<>>}
<1> DEFINE raw == MintedAs(said, listed)
           Values == {Text(e) : e \in listed} \cup {Other, Text(<<" ">>)}
           Read(vs) == {x \in vs : x.is = "text" /\ TrimSpace(x.text) # <<>>}
<1>1. raw["permissions"] = IF listed = {} THEN Other ELSE ListOf(Values)
  BY DEF MintedAs, NoClaims, ClaimKeys
<1>2. CASE listed = {}
  BY <1>1, <1>2 DEF Permissions, Other
<1>3. CASE listed # {}
  <2>1. raw["permissions"].is = "list" /\ raw["permissions"].entries = Values
    <3>1. \A vs : ListOf(vs).is = "list" /\ ListOf(vs).entries = vs
      BY DEF ListOf
    <3> HIDE DEF raw, Values
    <3> QED
      BY <1>1, <1>3, <3>1
  <2>2. Permissions(raw) = {x.text : x \in Read(Values)}
    BY <2>1 DEF Permissions
  <2>3. \A e : Text(e).is = "text" /\ Text(e).text = e
    BY DEF Text
  <2>4. Other.is # "text"
    BY DEF Other
  <2>5. Read(Values) = {Text(e) : e \in {f \in listed : TrimSpace(f) # <<>>}}
    BY <2>3, <2>4, BlankIsNothing
  <2> HIDE DEF raw, Values, Read
  <2> QED
    BY <2>2, <2>3, <2>5 DEF raw
<1> QED
  BY <1>2, <1>3

\* Blank entries are no grants.
LEMMA BlankIsNoGrant ==
  ASSUME NEW entries
  PROVE  ParseGrants({e \in entries : TrimSpace(e) # <<>>}) = ParseGrants(entries)
<1>1. ASSUME NEW e, TrimSpace(e) = <<>> PROVE ParseGrant(e).action = <<>>
  <2>1. Equals(<<>>) = {}
    BY DEF Equals
  <2> QED
    BY <1>1, <2>1 DEF ParseGrant
<1> QED
  BY <1>1 DEF ParseGrants

\* What was said and listed, the principal is granted.
LEMMA GrantsOfMinted ==
  ASSUME NEW said \in SUBSET Words, NEW listed
  PROVE  GrantsOf(MintedAs(said, listed)) = ParseGrants(said \cup listed)
<1> DEFINE raw == MintedAs(said, listed)
<1>1. GrantsOf(raw) = ParseGrants(Fields(stringClaim(raw, "scope")) \cup Permissions(raw))
  BY DEF GrantsOf, PrincipalFromClaims, EntitlementsIn, ClaimsOf
<1> HIDE DEF raw
<1>2. GrantsOf(raw) = ParseGrants(said \cup {e \in listed : TrimSpace(e) # <<>>})
  BY <1>1, MintedScope, MintedList DEF raw
<1>3. \A entries, more : ParseGrants(entries \cup more) = ParseGrants(entries) \cup ParseGrants(more)
  BY DEF ParseGrants
<1> QED
  BY <1>2, <1>3, BlankIsNoGrant DEF raw

--------------------------------------------------------------------------------
(* The theorems.                                                             *)

\* Whatever a token says, the surface guard's check passes wherever the operation
\* check does (HasAction and Allows).
THEOREM LayersAgree == Spec => []Layer1CoversLayer2
<1>1. Layer1CoversLayer2
  BY DEF Layer1CoversLayer2, Allows, HasAction
<1> QED
  BY <1>1, PTL

\* Whatever else a token says, each of its entries counts for itself (Allows).
THEOREM EntryByEntry == Spec => []EntriesAreIndependent
<1>1. EntriesAreIndependent
  <2> SUFFICES ASSUME NEW v \in Vocabularies, NEW a \in Actions, NEW r \in Resources
               PROVE  Allows(PrincipalOf(scopes, v), a, r)
                        <=> \E e \in scopes : Allows(PrincipalOf({e}, v), a, r)
    BY DEF EntriesAreIndependent
  <2>1. \A g : g \in ParseGrants(scopes) <=> \E e \in scopes : g \in ParseGrants({e})
    BY GrantsByEntry
  <2> QED
    BY <2>1, AllowsByGrant
<1> QED
  BY <1>1, PTL

\* No service's blanket actions let a principal reach a resource that its grants do
\* not name (actionCovers, and the pattern that Allows still matches).
THEOREM BlanketStaysInside == Spec => []BlanketWidensActionsOnly
<1>1. BlanketWidensActionsOnly
  <2> SUFFICES ASSUME NEW v \in Vocabularies
               PROVE  Reach(PrincipalOf(scopes, v)) = Reach(PrincipalOf(scopes, {}))
    BY DEF BlanketWidensActionsOnly
  <2> DEFINE Grantsof == ParseGrants(scopes)
             Asked == Actions \cup {g.action : g \in Grantsof}
  <2>1. \A w : Reach(PrincipalOf(scopes, w))
                 = {r \in Resources : \E a \in Asked : Allows(PrincipalOf(scopes, w), a, r)}
    BY DEF Reach, PrincipalOf
  <2>2. ASSUME NEW r \in Resources, NEW a \in Asked, Allows(PrincipalOf(scopes, v), a, r)
        PROVE  \E b \in Asked : Allows(PrincipalOf(scopes, {}), b, r)
    <3>1. PICK g \in Grantsof : Parses(r) /\ (g.resource = <<>> \/ MatchPattern(g.resource, r))
      BY <2>2, AllowsByGrant DEF Settles
    <3>2. g.action \in Asked /\ g.action # <<>>
      BY GrantHasAction
    <3>3. Allows(PrincipalOf(scopes, {}), g.action, r)
      BY <3>1, <3>2, AllowsByGrant DEF Settles
    <3> QED
      BY <3>2, <3>3
  <2>3. ASSUME NEW r \in Resources, NEW a \in Asked, Allows(PrincipalOf(scopes, {}), a, r)
        PROVE  Allows(PrincipalOf(scopes, v), a, r)
    BY <2>3, AllowsByGrant DEF Settles
  <2> HIDE DEF Asked
  <2> QED
    BY <2>1, <2>2, <2>3
<1> QED
  BY <1>1, PTL

\* The claim list is one of entries that Auth mints.
LEMMA ScopesAreEntries == Spec => [](scopes \in SUBSET Entries)
<1>1. Init => scopes \in SUBSET Entries
  BY DEF Init
<1>2. scopes \in SUBSET Entries /\ [Next]_scopes => (scopes \in SUBSET Entries)'
  BY DEF Next, Widen, Narrow
<1> QED
  BY <1>1, <1>2, PTL DEF Spec

\* No token, whatever its entries, lets anybody reach a resource for which it holds no
\* entry that is service-wide, wild in the tenant, or written for the resource's tenant
\* (Allows, Matches, ParseGrant).
THEOREM TenantsStayApart == Spec => []TenantIsolation
<1>1. Entries \in SUBSET Seq(Letters)
  BY EntitlementsAssumption, Zenon
<1>2. scopes \in SUBSET Entries => TenantIsolation
  <2> SUFFICES ASSUME scopes \in SUBSET Entries,
                      NEW r \in Resources, NEW v \in Vocabularies, NEW a \in Actions,
                      Allows(PrincipalOf(scopes, v), a, r)
               PROVE  \E e \in scopes : Equals(e) = {} \/ PatternText(e) = <<>>
                        \/ WrittenFor(e, Wild) \/ WrittenFor(e, split(r).tenant)
    BY DEF TenantIsolation
  <2>1. PICK g \in ParseGrants(scopes) : g.resource = <<>> \/ MatchPattern(g.resource, r)
    BY AllowsByGrant DEF Settles
  <2>2. PICK e \in scopes : g = ParseGrant(e)
    BY DEF ParseGrants
  <2> DEFINE p == PatternText(e)
  <2>3. ASSUME Equals(e) # {} PROVE g.resource = p /\ p \in Seq(Letters)
    <3>1. e \in Seq(Letters)
      BY <1>1
    <3> QED
      BY <2>2, <2>3, <3>1, PatternOfEntry
  <2> HIDE DEF p
  <2>4. ASSUME Equals(e) # {}, p # <<>>
        PROVE  WrittenFor(e, Wild) \/ WrittenFor(e, split(r).tenant)
    <3>1. MatchPattern(p, r)
      BY <2>1, <2>3, <2>4
    <3>2. Splits(p) /\ (split(p).tenant = Wild \/ split(p).tenant = split(r).tenant)
      BY <3>1 DEF MatchPattern, ParsesAsPattern, Matches, segmentMatches
    <3>3. split(p).tenant = SubSeq(p, Colon(p, 2) + 1, Colon(p, 3) - 1)
      BY Zenon DEF split
    <3>4. IsMRN(p) /\ Cardinality(Colons(p)) >= 3
      <4>1. Len(p) \in Nat /\ Colons(p) \in SUBSET (1..Len(p)) /\ IsFiniteSet(1..Len(p))
        BY <2>3, <2>4, LenProperties, FS_Interval DEF Colons
      <4>2. Cardinality(Colons(p)) \in Nat
        BY <4>1, FS_Subset, FS_CardinalityType
      <4> QED
        BY <3>2, <4>2 DEF Splits
    <3> QED
      BY <2>4, <3>2, <3>3, <3>4 DEF WrittenFor, p
  <2> QED
    BY <2>4 DEF p
<1> QED
  BY ScopesAreEntries, <1>2, PTL

\* In whatever order and with whatever blanks a scope string lists its words, and however
\* the entries are divided between it and the permissions array, the principal is granted
\* the same (Fields, Permissions, EntitlementsIn, ParseGrants).
THEOREM OneMeaningOfTwoShapes == Spec => []ShapesAgree
<1>1. ShapesAgree
  <2> DEFINE words == scopes \cap Words
  <2>1. words \in SUBSET Words /\ {} \in SUBSET Words
    OBVIOUS
  <2>2. /\ {} \cup scopes = scopes
        /\ words \cup (scopes \ words) = scopes
        /\ words \cup scopes = scopes
    OBVIOUS
  <2> HIDE DEF words
  <2>3. /\ GrantsOf(MintedAs({}, scopes)) = ParseGrants(scopes)
        /\ GrantsOf(MintedAs(words, scopes \ words)) = ParseGrants(scopes)
        /\ GrantsOf(MintedAs(words, scopes)) = ParseGrants(scopes)
    BY <2>1, <2>2, GrantsOfMinted
  <2> QED
    BY <2>3 DEF ShapesAgree, words
<1> QED
  BY <1>1, PTL

================================================================================
