--------------------------- MODULE SurfaceTableProofs --------------------------
(* What holds of every table a service can fill, in every order.             *)
EXTENDS SurfaceTable, FiniteSetTheorems, SequenceTheorems, WellFoundedInduction, TLAPS

--------------------------------------------------------------------------------
\* Of any table: a rule that Resolve returns is one that the table declares.
LEMMA ResolvedIsDeclared ==
  ASSUME NEW map, NEW s, Mapped(map, s)
  PROVE  Resolve(map, s).permission \in DeclaredPermissions(map) \cup {<<>>}
<1>1. CASE IsGRPC(s)
  <2>1. s.method \in DOMAIN map.methods
    BY <1>1 DEF Mapped
  <2>2. Resolve(map, s).permission = map.methods[s.method]
    BY <1>1 DEF Resolve, MethodRule
  <2>3. map.methods[s.method] \in MethodPermissions(map)
    BY <2>1 DEF MethodPermissions
  <2> QED
    BY <2>2, <2>3 DEF DeclaredPermissions
<1>2. CASE ~IsGRPC(s) /\ Exactly(map, s)
  <2> DEFINE k == ExactKey(s.verb, s.path)
  <2>1. k \in DOMAIN map.exact /\ Resolve(map, s) = map.exact[k]
    BY <1>2 DEF Resolve, Exactly
  <2> HIDE DEF k
  <2>2. map.exact[k].permission \in ExactPermissions(map)
    BY <2>1 DEF ExactPermissions
  <2> QED
    BY <2>1, <2>2 DEF DeclaredPermissions
<1>3. CASE ~IsGRPC(s) /\ ~Exactly(map, s)
  <2> DEFINE k == routeKey(map, s)
             Pair(x) == {map.routes[x].read.permission, map.routes[x].write.permission}
  <2>1. k \in DOMAIN map.routes
    BY <1>3 DEF Mapped
  <2>2. Resolve(map, s).permission \in Pair(k)
    BY <1>3 DEF Resolve, SegmentRule
  <2> HIDE DEF k
  <2>3. Pair(k) \subseteq RoutePermissions(map)
    BY <2>1 DEF RoutePermissions
  <2> QED
    BY <2>2, <2>3 DEF DeclaredPermissions
<1> QED
  BY <1>1, <1>2, <1>3

\* What a guard can ever demand is in the list that setup registers in Auth
\* (DeclaredPermissions walks all the tables that Resolve reads).
THEOREM DemandsAreDeclared == Spec => []EveryDemandIsDeclared
<1>1. EveryDemandIsDeclared
  BY ResolvedIsDeclared DEF EveryDemandIsDeclared
<1> QED
  BY <1>1, PTL

--------------------------------------------------------------------------------
(* Declarations.                                                             *)

\* A table has its fields, and the actors it restricts methods to are those of
\* methods it declares.
Shape ==
  /\ DOMAIN m = {"prefix", "exact", "routes", "methods", "actors", "operations", "blanket",
                 "exemptPaths", "exemptMethods", "exempt", "routeKey"}
  /\ DOMAIN m.actors \subseteq DOMAIN m.methods

\* g declares what f declares, and perhaps more.
Extends(g, f) == DOMAIN f \subseteq DOMAIN g /\ \A k \in DOMAIN f : g[k] = f[k]

\* A declaration adds its key, and no other.
LEMMA WithDomain ==
  ASSUME NEW f, NEW k, NEW v
  PROVE  DOMAIN With(f, k, v) = DOMAIN f \cup {k}
BY DEF With

\* Declaring a new key leaves the old ones as they were.
LEMMA WithExtends ==
  ASSUME NEW f, NEW k, k \notin DOMAIN f, NEW v
  PROVE  Extends(With(f, k, v), f)
BY DEF With, Extends

\* A table extends itself.
LEMMA SameExtends ==
  ASSUME NEW f
  PROVE  Extends(f, f)
BY DEF Extends

\* Filling a table keeps it made of functions.
LEMMA ShapeInv == Spec => []Shape
<1>1. Init => Shape
  BY DEF Init, Shape, Nothing
<1>2. ASSUME Shape, [Next]_m PROVE Shape'
  <2>1. CASE DeclareMethod
    <3>1. PICK k \in Methods \ DOMAIN m.methods, rule \in Rules :
            m' = [m EXCEPT !.methods = With(@, k, rule.permission),
                           !.actors = IF rule.actor = "any" THEN @ ELSE With(@, k, rule.actor)]
      BY <2>1 DEF DeclareMethod
    <3>2. /\ DOMAIN m' = DOMAIN m
          /\ m'.methods = With(m.methods, k, rule.permission)
          /\ m'.actors = m.actors \/ m'.actors = With(m.actors, k, rule.actor)
      BY <1>2, <3>1 DEF Shape
    <3>3. /\ DOMAIN With(m.methods, k, rule.permission) = DOMAIN m.methods \cup {k}
          /\ DOMAIN With(m.actors, k, rule.actor) = DOMAIN m.actors \cup {k}
      BY WithDomain
    <3> QED
      BY <1>2, <3>2, <3>3 DEF Shape
  <2>2. CASE DeclareExact \/ DeclareRoute \/ ExemptPath \/ ExemptMethod \/ UNCHANGED m
    <3>1. DOMAIN m' = DOMAIN m /\ m'.methods = m.methods /\ m'.actors = m.actors
      BY <1>2, <2>2 DEF Shape, DeclareExact, DeclareRoute, ExemptPath, ExemptMethod
    <3> QED
      BY <1>2, <3>1 DEF Shape
  <2> QED
    BY <1>2, <2>1, <2>2 DEF Next
<1> QED
  BY <1>1, <1>2, PTL DEF Spec

\* A declaration adds to what is declared and changes no value of it.
LEMMA DeclareStep ==
  ASSUME Shape, [Next]_m
  PROVE  /\ m'.prefix = m.prefix /\ m'.routeKey = m.routeKey
         /\ Extends(m'.exact, m.exact) /\ Extends(m'.routes, m.routes)
         /\ Extends(m'.methods, m.methods)
         /\ \A k \in DOMAIN m.methods : MethodRule(m', k) = MethodRule(m, k)
<1>1. CASE DeclareExact
  <2>1. PICK k \in Keys \ DOMAIN m.exact, rule \in Rules :
          m' = [m EXCEPT !.exact = With(@, k, rule)]
    BY <1>1 DEF DeclareExact
  <2>2. /\ m'.exact = With(m.exact, k, rule) /\ m'.routes = m.routes
        /\ m'.methods = m.methods /\ m'.actors = m.actors
        /\ m'.prefix = m.prefix /\ m'.routeKey = m.routeKey
    BY <2>1 DEF Shape
  <2>3. Extends(m'.exact, m.exact)
    BY <2>2, WithExtends
  <2> QED
    BY <2>2, <2>3, SameExtends DEF MethodRule
<1>2. CASE DeclareRoute
  <2>1. PICK k \in Segments \ DOMAIN m.routes, read \in Rules, write \in Rules :
          m' = [m EXCEPT !.routes = With(@, k, [read |-> read, write |-> write])]
    BY <1>2 DEF DeclareRoute
  <2>2. /\ m'.routes = With(m.routes, k, [read |-> read, write |-> write])
        /\ m'.exact = m.exact /\ m'.methods = m.methods /\ m'.actors = m.actors
        /\ m'.prefix = m.prefix /\ m'.routeKey = m.routeKey
    BY <2>1 DEF Shape
  <2>3. Extends(m'.routes, m.routes)
    BY <2>2, WithExtends
  <2> QED
    BY <2>2, <2>3, SameExtends DEF MethodRule
<1>3. CASE DeclareMethod
  <2>1. PICK k \in Methods \ DOMAIN m.methods, rule \in Rules :
          m' = [m EXCEPT !.methods = With(@, k, rule.permission),
                         !.actors = IF rule.actor = "any" THEN @ ELSE With(@, k, rule.actor)]
    BY <1>3 DEF DeclareMethod
  <2>2. /\ m'.methods = With(m.methods, k, rule.permission)
        /\ m'.actors = m.actors \/ m'.actors = With(m.actors, k, rule.actor)
        /\ m'.exact = m.exact /\ m'.routes = m.routes
        /\ m'.prefix = m.prefix /\ m'.routeKey = m.routeKey
    BY <2>1 DEF Shape
  <2>3. k \notin DOMAIN m.actors
    BY DEF Shape
  <2>4. Extends(m'.methods, m.methods) /\ Extends(m'.actors, m.actors)
    BY <2>2, <2>3, WithExtends, SameExtends
  <2>5. DOMAIN m'.actors \subseteq DOMAIN m.actors \cup {k}
    <3>1. DOMAIN With(m.actors, k, rule.actor) = DOMAIN m.actors \cup {k}
      BY WithDomain
    <3> QED
      BY <2>2, <3>1
  <2>6. ASSUME NEW x \in DOMAIN m.methods
        PROVE  MethodRule(m', x) = MethodRule(m, x)
    <3>1. x \in DOMAIN m'.actors <=> x \in DOMAIN m.actors
      BY <2>4, <2>5 DEF Extends
    <3>2. m'.methods[x] = m.methods[x] /\ (x \in DOMAIN m.actors => m'.actors[x] = m.actors[x])
      BY <2>4 DEF Extends
    <3> QED
      BY <3>1, <3>2 DEF MethodRule
  <2> QED
    BY <2>2, <2>4, <2>6, SameExtends
<1>4. CASE ExemptPath \/ ExemptMethod \/ UNCHANGED m
  <2>1. /\ m'.exact = m.exact /\ m'.routes = m.routes
        /\ m'.methods = m.methods /\ m'.actors = m.actors
        /\ m'.prefix = m.prefix /\ m'.routeKey = m.routeKey
    BY <1>4 DEF Shape, ExemptPath, ExemptMethod
  <2> QED
    BY <2>1, SameExtends DEF MethodRule
<1> QED
  BY <1>1, <1>2, <1>3, <1>4 DEF Next

\* One surface's part of ExactWinsOutright.
LEMMA RuleStands ==
  ASSUME Shape, [Next]_m, NEW s, Mapped(m, s)
  PROVE  /\ Mapped(m', s)
         /\ \/ Resolve(m', s) = Resolve(m, s)
            \/ ~Exactly(m, s) /\ Exactly(m', s)
<1>1. CASE IsGRPC(s)
  BY <1>1, DeclareStep DEF Mapped, Resolve, Extends
<1>2. CASE ~IsGRPC(s)
  <2>1. routeKey(m', s) = routeKey(m, s)
    BY DeclareStep DEF routeKey
  <2>2. CASE Exactly(m, s)
    <3>1. Exactly(m', s) /\ m'.exact[ExactKey(s.verb, s.path)] = m.exact[ExactKey(s.verb, s.path)]
      BY <2>2, DeclareStep DEF Exactly, Extends
    <3> QED
      BY <1>2, <2>2, <3>1 DEF Mapped, Resolve
  <2>3. CASE ~Exactly(m, s)
    <3>1. /\ routeKey(m, s) \in DOMAIN m'.routes
          /\ m'.routes[routeKey(m, s)] = m.routes[routeKey(m, s)]
      BY <1>2, <2>3, DeclareStep DEF Mapped, Extends
    <3> QED
      BY <1>2, <2>1, <2>3, <3>1 DEF Mapped, Resolve, SegmentRule
  <2> QED
    BY <2>2, <2>3
<1> QED
  BY <1>1, <1>2

\* In whatever order a service fills its table, a declaration changes the rule of a
\* mapped surface only by being its first exact entry (Resolve).
THEOREM OrderIsNoMatter == Spec => ExactWinsOutright
<1>1. Shape /\ [Next]_m =>
        \A s \in Surfaces : Mapped(m, s) =>
          /\ Mapped(m', s)
          /\ \/ Resolve(m', s) = Resolve(m, s)
             \/ ~Exactly(m, s) /\ Exactly(m', s)
  BY RuleStands
<1> QED
  BY ShapeInv, <1>1, PTL DEF Spec, ExactWinsOutright

--------------------------------------------------------------------------------
(* Paths.                                                                    *)

\* A set of places that is not empty has a first one.
LEMMA LeastExists ==
  ASSUME NEW S \in SUBSET Nat, S # {}
  PROVE  \E i \in S : \A j \in S : i <= j
<1>1. \E i \in S : \A j \in S : ~(<<j, i>> \in OpToRel(<, Nat))
  BY WFMin, NatLessThanWellFounded, Zenon
<1>2. \E i \in S : \A j \in S : ~(j < i)
  BY <1>1, Zenon DEF OpToRel
<1> QED
  BY <1>2

\* ... and, when it is bounded, a last one.
LEMMA GreatestExists ==
  ASSUME NEW S \in SUBSET Nat, S # {}, NEW n \in Nat, \A i \in S : i <= n
  PROVE  \E i \in S : \A j \in S : i >= j
<1> DEFINE T == {k \in Nat : n - k \in S}
<1>1. PICK s \in S : TRUE
  OBVIOUS
<1>2. n - s \in T /\ T \in SUBSET Nat
  <2>1. n - s \in Nat /\ n - (n - s) = s
    OBVIOUS
  <2> QED
    BY <2>1
<1>3. PICK k \in T : \A j \in T : k <= j
  BY <1>2, LeastExists
<1>4. n - k \in S
  OBVIOUS
<1>5. ASSUME NEW j \in S PROVE n - k >= j
  <2>1. n - j \in Nat /\ n - (n - j) = j
    OBVIOUS
  <2>2. n - j \in T
    BY <2>1
  <2>3. k <= n - j
    BY <1>3, <2>2
  <2> QED
    BY <2>3
<1> QED
  BY <1>4, <1>5

\* What paths are made of: the provers do not know that a slash is a STRING.
Letter == STRING \cup {"/"}

\* A text is one of letters.
LEMMA TextIsText ==
  ASSUME NEW s \in Seq(STRING)
  PROVE  s \in Seq(Letter)
<1>1. Len(s) \in Nat /\ \A i \in 1..Len(s) : s[i] \in Letter
  BY ElementOfSeq, LenProperties DEF Letter
<1> QED
  BY <1>1, LenProperties

\* What a text looks like with a slash put at its end.
LEMMA Slashed ==
  ASSUME NEW s \in Seq(Letter)
  PROVE  LET t == s \o <<"/">>
         IN  /\ t \in Seq(Letter) /\ Len(s) \in Nat /\ Len(t) = Len(s) + 1
             /\ \A i \in 1..Len(s) : t[i] = s[i]
             /\ t[Len(s) + 1] = "/"
             /\ \A n \in 0..Len(s) : SubSeq(t, 1, n) = SubSeq(s, 1, n)
<1> DEFINE t == s \o <<"/">>
<1>1. <<"/">> \in Seq(Letter) /\ Len(<<"/">>) = 1 /\ <<"/">>[1] = "/"
  BY DEF Letter
<1>2. /\ t \in Seq(Letter) /\ Len(s) \in Nat /\ Len(t) = Len(s) + 1
      /\ \A i \in 1..Len(s) : t[i] = s[i]
      /\ t[Len(s) + 1] = "/"
  BY <1>1, ConcatProperties, LenProperties
<1>3. ASSUME NEW n \in 0..Len(s) PROVE SubSeq(t, 1, n) = SubSeq(s, 1, n)
  <2>1. CASE n = 0
    <3>1. SubSeq(t, 1, 0) = <<>> /\ SubSeq(s, 1, 0) = <<>>
      BY SubSeqEmpty
    <3> QED
      BY <2>1, <3>1
  <2>2. CASE n # 0
    <3>1. 1 \in 1..Len(s) /\ n \in 1..Len(s)
      BY <1>2, <2>2
    <3> QED
      BY <1>1, <3>1, SubSeqOfConcat1
  <2> QED
    BY <2>1, <2>2
<1> QED
  BY <1>2, <1>3

\* The first segment of a text ends at the same slash, or at the new one.
LEMMA UpToSlashSlashed ==
  ASSUME NEW s \in Seq(Letter)
  PROVE  UpToSlash(s \o <<"/">>) = UpToSlash(s)
<1> DEFINE t == s \o <<"/">>
           S == {i \in 1..Len(s) : s[i] = "/"}
           T == {i \in 1..Len(t) : t[i] = "/"}
           First(X) == CHOOSE i \in X : \A j \in X : i <= j
<1>1. /\ Len(s) \in Nat /\ Len(t) = Len(s) + 1 /\ \A i \in 1..Len(s) : t[i] = s[i]
      /\ t[Len(s) + 1] = "/" /\ \A n \in 0..Len(s) : SubSeq(t, 1, n) = SubSeq(s, 1, n)
  BY Slashed
<1>2. UpToSlash(s) = IF S = {} THEN s ELSE SubSeq(s, 1, First(S) - 1)
  BY Zenon DEF UpToSlash
<1>3. UpToSlash(t) = IF T = {} THEN t ELSE SubSeq(t, 1, First(T) - 1)
  BY Zenon DEF UpToSlash
<1> HIDE DEF t
<1>4. T = S \cup {Len(s) + 1} /\ S \in SUBSET (1..Len(s))
  BY <1>1
<1>5. CASE S = {}
  <2>1. T = {Len(s) + 1}
    BY <1>4, <1>5
  <2>2. First(T) = Len(s) + 1
    BY <1>1, <2>1
  <2>3. UpToSlash(t) = SubSeq(t, 1, Len(s))
    BY <1>1, <1>3, <2>1, <2>2
  <2>4. SubSeq(t, 1, Len(s)) = s
    BY <1>1, SubSeqFull
  <2> QED
    BY <1>2, <1>5, <2>3, <2>4 DEF t
<1>6. CASE S # {}
  <2>1. PICK k \in S : \A j \in S : k <= j
    <3>1. S \in SUBSET Nat
      BY <1>1, <1>4
    <3> HIDE DEF S
    <3> QED
      BY <1>6, <3>1, LeastExists
  <2>2. k \in 1..Len(s) /\ k \in T /\ \A j \in T : k <= j
    BY <1>1, <1>4, <2>1
  <2>3. \A i \in S : (\A j \in S : i <= j) => i = k
    <3> SUFFICES ASSUME NEW i \in S, \A j \in S : i <= j PROVE i = k
      OBVIOUS
    <3>1. i \in Nat /\ i <= k /\ k <= i
      BY <1>1, <1>4, <2>1
    <3> QED
      BY <2>2, <3>1
  <2>4. \A i \in T : (\A j \in T : i <= j) => i = k
    <3> SUFFICES ASSUME NEW i \in T, \A j \in T : i <= j PROVE i = k
      OBVIOUS
    <3>1. i \in Nat /\ i <= k /\ k <= i
      BY <1>1, <1>4, <2>2
    <3> QED
      BY <2>2, <3>1
  <2>5. First(S) = k /\ First(T) = k
    BY <2>1, <2>2, <2>3, <2>4
  <2> HIDE DEF S, T, First
  <2>6. UpToSlash(s) = SubSeq(s, 1, k - 1) /\ UpToSlash(t) = SubSeq(t, 1, k - 1)
    BY <1>2, <1>3, <1>6, <2>2, <2>5
  <2>7. k - 1 \in 0..Len(s)
    BY <1>1, <2>2
  <2> QED
    BY <1>1, <2>6, <2>7 DEF t
<1> QED
  BY <1>5, <1>6

\* Trimming takes the new slash with the old ones.
LEMMA TrimSlashed ==
  ASSUME NEW s \in Seq(Letter), s # <<>>
  PROVE  trimTrailingSlash(s \o <<"/">>) = trimTrailingSlash(s)
<1> DEFINE t == s \o <<"/">>
           S == {n \in 1..Len(s) : n = 1 \/ s[n] # "/"}
           T == {n \in 1..Len(t) : n = 1 \/ t[n] # "/"}
           Max0(X) == CHOOSE n \in X \cup {0} : \A k \in X : k <= n
<1>1. /\ Len(s) \in Nat /\ Len(t) = Len(s) + 1 /\ \A i \in 1..Len(s) : t[i] = s[i]
      /\ t[Len(s) + 1] = "/" /\ \A n \in 0..Len(s) : SubSeq(t, 1, n) = SubSeq(s, 1, n)
  BY Slashed
<1>2. Len(s) >= 1
  BY <1>1, EmptySeq
<1>3. trimTrailingSlash(s) = SubSeq(s, 1, Max0(S)) /\ trimTrailingSlash(t) = SubSeq(t, 1, Max0(T))
  BY Zenon DEF trimTrailingSlash
<1> HIDE DEF t
<1>4. T = S /\ S \in SUBSET (1..Len(s)) /\ 1 \in S
  BY <1>1, <1>2
<1>5. \E n \in S : \A k \in S : n >= k
  <2>1. S \in SUBSET Nat /\ S # {} /\ \A i \in S : i <= Len(s)
    BY <1>1, <1>4
  <2> HIDE DEF S
  <2> QED
    BY <1>1, <2>1, GreatestExists
<1>6. Max0(S) \in 0..Len(s)
  <2>1. \E n \in S \cup {0} : \A k \in S : k <= n
    BY <1>1, <1>4, <1>5
  <2>2. Max0(S) \in S \cup {0}
    BY <2>1
  <2>3. S \cup {0} \in SUBSET (0..Len(s))
    BY <1>1, <1>4
  <2> HIDE DEF S, Max0
  <2> QED
    BY <2>2, <2>3
<1> HIDE DEF S, T, Max0
<1> QED
  BY <1>1, <1>3, <1>4, <1>6 DEF t

\* A prefix of a path with a slash behind it is one of the path, or all of it.
LEMMA PrefixSlashed ==
  ASSUME NEW p \in Seq(Letter), NEW s \in Seq(Letter)
  PROVE  IsPrefix(p, s \o <<"/">>) <=> IsPrefix(p, s) \/ p = s \o <<"/">>
<1> DEFINE t == s \o <<"/">>
<1>1. /\ t \in Seq(Letter) /\ Len(s) \in Nat /\ Len(p) \in Nat /\ Len(t) = Len(s) + 1
      /\ \A n \in 0..Len(s) : SubSeq(t, 1, n) = SubSeq(s, 1, n)
  BY Slashed, LenProperties
<1> HIDE DEF t
<1>2. SubSeq(p, 1, Len(p)) = p /\ SubSeq(t, 1, Len(t)) = t
  BY <1>1, SubSeqFull
<1>3. CASE Len(p) <= Len(s)
  <2>1. SubSeq(t, 1, Len(p)) = SubSeq(s, 1, Len(p)) /\ p # t
    BY <1>1, <1>3
  <2> QED
    BY <1>1, <1>3, <2>1 DEF IsPrefix, t
<1>4. CASE Len(p) = Len(t)
  <2>1. ~IsPrefix(p, s) /\ (IsPrefix(p, t) <=> p = t)
    BY <1>1, <1>2, <1>4 DEF IsPrefix
  <2> QED
    BY <2>1 DEF t
<1>5. CASE Len(p) > Len(t)
  <2>1. ~IsPrefix(p, s) /\ ~IsPrefix(p, t) /\ p # t
    BY <1>1, <1>5 DEF IsPrefix
  <2> QED
    BY <2>1 DEF t
<1> QED
  BY <1>1, <1>3, <1>4, <1>5

\* What is behind a place, with the slash.
LEMMA RestSlashed ==
  ASSUME NEW s \in Seq(Letter), NEW n \in 0..Len(s)
  PROVE  /\ SubSeq(s, n + 1, Len(s)) \in Seq(Letter)
         /\ SubSeq(s \o <<"/">>, n + 1, Len(s) + 1) = SubSeq(s, n + 1, Len(s)) \o <<"/">>
<1> DEFINE t == s \o <<"/">>
           u == SubSeq(s, n + 1, Len(s))
           v == SubSeq(t, n + 1, Len(s) + 1)
<1>1. /\ t \in Seq(Letter) /\ Len(s) \in Nat /\ Len(t) = Len(s) + 1 /\ n \in Nat
      /\ \A i \in 1..Len(s) : t[i] = s[i]
      /\ t[Len(s) + 1] = "/"
  BY Slashed
<1>2. \A i \in (n + 1)..Len(s) : s[i] \in Letter
  BY <1>1, ElementOfSeq
<1>3. \A i \in (n + 1)..(Len(s) + 1) : t[i] \in Letter
  BY <1>1, ElementOfSeq
<1> HIDE DEF t
<1>4. /\ u \in Seq(Letter) /\ Len(u) = Len(s) - n
      /\ \A i \in 1..(Len(s) - n) : u[i] = s[n + i]
  BY <1>1, <1>2, SubSeqProperties
<1>5. /\ v \in Seq(Letter) /\ Len(v) = Len(s) - n + 1
      /\ \A i \in 1..(Len(s) - n + 1) : v[i] = t[n + i]
  BY <1>1, <1>3, SubSeqProperties
<1> HIDE DEF u, v
<1>6. /\ u \o <<"/">> \in Seq(Letter) /\ Len(u \o <<"/">>) = Len(s) - n + 1
      /\ \A i \in 1..(Len(s) - n) : (u \o <<"/">>)[i] = u[i]
      /\ (u \o <<"/">>)[Len(s) - n + 1] = "/"
  BY <1>4, Slashed
<1>7. ASSUME NEW i \in 1..(Len(s) - n + 1) PROVE v[i] = (u \o <<"/">>)[i]
  <2>1. CASE i \in 1..(Len(s) - n)
    <3>1. n + i \in 1..Len(s)
      BY <1>1, <2>1
    <3> QED
      BY <1>1, <1>4, <1>5, <1>6, <2>1, <3>1
  <2>2. CASE i = Len(s) - n + 1
    <3>1. n + i = Len(s) + 1
      BY <1>1, <2>2
    <3> QED
      BY <1>1, <1>5, <1>6, <2>2, <3>1
  <2>3. i \in 1..(Len(s) - n) \/ i = Len(s) - n + 1
    BY <1>1
  <2> QED
    BY <2>1, <2>2, <2>3
<1>8. v = u \o <<"/">>
  BY <1>5, <1>6, <1>7, SeqEqual
<1> QED
  BY <1>4, <1>8 DEF t, u, v

\* Routes sees the same segment behind the prefix.
LEMMA FirstSegmentSlashed ==
  ASSUME NEW p \in Seq(Letter), NEW s \in Seq(Letter), s # <<>>
  PROVE  FirstSegment(p, s \o <<"/">>) = FirstSegment(p, s)
<1> DEFINE t == s \o <<"/">>
           L == Len(s)
<1>1. /\ t \in Seq(Letter) /\ L \in Nat /\ Len(t) = L + 1 /\ L >= 1
      /\ \A i \in 1..L : t[i] = s[i]
      /\ \A n \in 0..L : SubSeq(t, 1, n) = SubSeq(s, 1, n)
  BY Slashed, EmptySeq
<1>2. UpToSlash(t) = UpToSlash(s)
  BY UpToSlashSlashed
<1>3. \A n \in 0..L : UpToSlash(SubSeq(t, n + 1, L + 1)) = UpToSlash(SubSeq(s, n + 1, L))
  BY RestSlashed, UpToSlashSlashed
<1>4. IsPrefix(p, t) <=> IsPrefix(p, s) \/ p = t
  BY PrefixSlashed
<1> HIDE DEF t, L
<1>5. CASE p = <<>>
  <2>1. /\ FirstSegment(p, t) = UpToSlash(IF IsPrefix(<<"/">>, t) THEN Tail(t) ELSE t)
        /\ FirstSegment(p, s) = UpToSlash(IF IsPrefix(<<"/">>, s) THEN Tail(s) ELSE s)
    BY <1>5 DEF FirstSegment
  <2>2. SubSeq(t, 1, 1) = SubSeq(s, 1, 1)
    BY <1>1
  <2>3. IsPrefix(<<"/">>, t) <=> IsPrefix(<<"/">>, s)
    BY <1>1, <2>2 DEF IsPrefix, L
  <2>4. Tail(t) = SubSeq(t, 2, L + 1) /\ Tail(s) = SubSeq(s, 2, L)
    BY <1>1, TailIsSubSeq DEF L
  <2>5. UpToSlash(Tail(t)) = UpToSlash(Tail(s))
    <3>1. 1 \in 0..L /\ 1 + 1 = 2
      BY <1>1
    <3> QED
      BY <1>3, <2>4, <3>1
  <2> QED
    BY <1>2, <2>1, <2>3, <2>5 DEF t
<1>6. CASE p # <<>> /\ IsPrefix(p, s)
  <2>1. /\ FirstSegment(p, t) = UpToSlash(SubSeq(t, Len(p) + 1, Len(t)))
        /\ FirstSegment(p, s) = UpToSlash(SubSeq(s, Len(p) + 1, Len(s)))
    BY <1>4, <1>6 DEF FirstSegment
  <2>2. Len(p) \in 0..L
    BY <1>1, <1>6, LenProperties DEF IsPrefix, L
  <2> QED
    BY <1>1, <1>3, <2>1, <2>2 DEF t, L
<1>7. CASE p # <<>> /\ ~IsPrefix(p, s) /\ p = t
  <2>1. FirstSegment(p, s) = <<>>
    BY <1>7 DEF FirstSegment
  <2>2. FirstSegment(p, t) = UpToSlash(SubSeq(t, Len(p) + 1, Len(t)))
    BY <1>4, <1>7 DEF FirstSegment
  <2>3. SubSeq(t, Len(p) + 1, Len(t)) = <<>>
    BY <1>1, <1>7, SubSeqEmpty
  <2>4. UpToSlash(<<>>) = <<>>
    <3>1. {i \in 1..Len(<<>>) : <<>>[i] = "/"} = {}
      OBVIOUS
    <3> QED
      BY <3>1, Zenon DEF UpToSlash
  <2> QED
    BY <2>1, <2>2, <2>3, <2>4 DEF t
<1>8. CASE p # <<>> /\ ~IsPrefix(p, s) /\ p # t
  <2>1. FirstSegment(p, s) = <<>> /\ FirstSegment(p, t) = <<>>
    BY <1>4, <1>8 DEF FirstSegment
  <2> QED
    BY <2>1 DEF t
<1> QED
  BY <1>5, <1>6, <1>7, <1>8

\* A prefix does not end in two slashes.
Neat(p) == Len(p) > 1 => p[Len(p)] # "/" \/ p[Len(p) - 1] # "/"

\* An exempt prefix covers the same paths.
LEMMA PathHasPrefixSlashed ==
  ASSUME NEW p \in Seq(Letter), Neat(p), NEW s \in Seq(Letter), s # <<>>
  PROVE  pathHasPrefix(s \o <<"/">>, p) <=> pathHasPrefix(s, p)
<1> SUFFICES ASSUME p # <<>>
             PROVE  pathHasPrefix(s \o <<"/">>, p) <=> pathHasPrefix(s, p)
  BY DEF pathHasPrefix
<1> DEFINE t == s \o <<"/">>
           q == IF Last(p) = "/" THEN Front(p) ELSE p
           r == q \o <<"/">>
<1>1. \A x : pathHasPrefix(x, p) <=> x = q \/ IsPrefix(r, x)
  BY Zenon DEF pathHasPrefix
<1>2. q \in Seq(Letter) /\ Len(q) \in Nat /\ (Len(q) > 0 => q[Len(q)] # "/")
  <2>1. Len(p) \in Nat /\ Len(p) >= 1
    BY EmptySeq, LenProperties
  <2>2. CASE Last(p) = "/"
    <3>1. \A i \in 1..(Len(p) - 1) : p[i] \in Letter
      BY <2>1, ElementOfSeq
    <3>2. /\ Front(p) \in Seq(Letter) /\ Len(Front(p)) = Len(p) - 1
          /\ \A i \in 1..(Len(p) - 1) : Front(p)[i] = p[i]
      <4>1. Front(p) = SubSeq(p, 1, Len(p) - 1)
        BY Zenon DEF Front
      <4> DEFINE n == Len(p) - 1
      <4>2. n \in Nat
        BY <2>1
      <4> HIDE DEF n
      <4>3. /\ SubSeq(p, 1, n) \in Seq(Letter) /\ Len(SubSeq(p, 1, n)) = n
            /\ \A i \in 1..n : SubSeq(p, 1, n)[i] = p[i]
        <5>1. \A i \in 1..n : p[i] \in Letter
          BY <3>1 DEF n
        <5> QED
          BY <4>2, <5>1, SubSeqProperties
      <4> QED
        BY <4>1, <4>3 DEF n
    <3>3. q = Front(p) /\ p[Len(p)] = "/"
      BY <2>2 DEF Last
    <3> HIDE DEF q
    <3>4. Len(q) > 0 => q[Len(q)] = p[Len(p) - 1]
      BY <2>1, <3>2, <3>3
    <3> QED
      BY <2>1, <3>2, <3>3, <3>4 DEF Neat
  <2>3. CASE Last(p) # "/"
    BY <2>1, <2>3 DEF Last
  <2> QED
    BY <2>2, <2>3
<1> HIDE DEF q
<1>3. /\ t \in Seq(Letter) /\ Len(s) \in Nat /\ Len(t) = Len(s) + 1 /\ t[Len(s) + 1] = "/"
      /\ \A n \in 0..Len(s) : SubSeq(t, 1, n) = SubSeq(s, 1, n)
  BY Slashed
<1>4. /\ r \in Seq(Letter) /\ Len(r) = Len(q) + 1
      /\ \A n \in 0..Len(q) : SubSeq(r, 1, n) = SubSeq(q, 1, n)
  BY <1>2, Slashed
<1>5. IsPrefix(r, t) <=> IsPrefix(r, s) \/ r = t
  BY <1>4, PrefixSlashed
<1> HIDE DEF t
<1>6. t # q
  BY <1>2, <1>3
<1>7. r = t => q = s
  <2> HIDE DEF r
  <2>1. ASSUME r = t PROVE q = s
    <3>1. Len(q) = Len(s) /\ SubSeq(q, 1, Len(q)) = SubSeq(s, 1, Len(s))
      BY <1>2, <1>3, <1>4, <2>1
    <3> QED
      BY <1>2, <3>1, SubSeqFull
  <2> QED
    BY <2>1
<1>8. q = s => r = t
  BY DEF t
<1> HIDE DEF r
<1> QED
  BY <1>1, <1>5, <1>6, <1>7, <1>8 DEF t

--------------------------------------------------------------------------------
\* What no declaration touches: the hooks are nil, and the prefixes are the service's.
Unhooked ==
  /\ m.exempt = {} /\ m.routeKey = NoHook
  /\ m.prefix \in PathPrefixes /\ m.exemptPaths \in SUBSET ExemptPrefixes

\* No declaration hooks the route key, and every path and prefix is a text.
LEMMA UnhookedInv == Spec => []Unhooked
<1>1. Init => Unhooked
  BY DEF Init, Unhooked
<1>2. Shape /\ Unhooked /\ [Next]_m => Unhooked'
  BY DEF Shape, Unhooked, Next, DeclareExact, DeclareRoute, DeclareMethod, ExemptPath, ExemptMethod
<1> QED
  BY <1>1, <1>2, ShapeInv, PTL DEF Spec

\* However a service fills its table, a slash at the end of a path changes neither
\* whether it is exempt or mapped nor its rule (ExactKey, FirstSegment, pathHasPrefix).
THEOREM SpellingIsNoMatter == Spec => []SlashChangesNothing
<1>1. ASSUME Unhooked, NEW s \in Surfaces, ~IsGRPC(s), s.path # <<>>
      PROVE  LET t == [s EXCEPT !.path = @ \o <<"/">>]
             IN  /\ IsExempt(m, s) <=> IsExempt(m, t)
                 /\ Mapped(m, s) <=> Mapped(m, t)
                 /\ Mapped(m, s) => Resolve(m, s) = Resolve(m, t)
  <2> DEFINE t == [s EXCEPT !.path = @ \o <<"/">>]
  <2>1. DOMAIN s = {"path", "verb", "method"} /\ s.path \in Seq(Letter)
    BY TableAssumption, TextIsText
  <2>2. t.path = s.path \o <<"/">> /\ t.verb = s.verb /\ t.method = s.method
    BY <2>1
  <2> HIDE DEF t
  <2>3. ~IsGRPC(t)
    BY <1>1, <2>2 DEF IsGRPC
  <2>4. ExactKey(t.verb, t.path) = ExactKey(s.verb, s.path)
    BY <1>1, <2>1, <2>2, TrimSlashed DEF ExactKey
  <2>5. routeKey(m, t) = routeKey(m, s)
    <3>1. m.prefix \in Seq(Letter) /\ m.routeKey = NoHook
      BY <1>1, TableAssumption, TextIsText DEF Unhooked
    <3>2. FirstSegment(m.prefix, t.path) = FirstSegment(m.prefix, s.path)
      BY <1>1, <2>1, <2>2, <3>1, FirstSegmentSlashed
    <3> QED
      BY <3>1, <3>2 DEF routeKey
  <2>6. \A p \in m.exemptPaths : pathHasPrefix(t.path, p) <=> pathHasPrefix(s.path, p)
    <3>1. \A p \in m.exemptPaths : p \in Seq(Letter) /\ Neat(p)
      BY <1>1, TableAssumption, TextIsText DEF Unhooked, Neat
    <3> QED
      BY <1>1, <2>1, <2>2, <3>1, PathHasPrefixSlashed
  <2>7. IsExempt(m, s) <=> IsExempt(m, t)
    BY <1>1, <2>3, <2>6 DEF IsExempt, Unhooked
  <2>8. Exactly(m, s) <=> Exactly(m, t)
    BY <1>1, <2>3, <2>4 DEF Exactly
  <2>9. Mapped(m, s) <=> Mapped(m, t)
    BY <1>1, <2>3, <2>5, <2>8 DEF Mapped
  <2>10. Resolve(m, s) = Resolve(m, t)
    BY <1>1, <2>2, <2>3, <2>4, <2>5, <2>8 DEF Resolve, SegmentRule
  <2> QED
    BY <2>7, <2>9, <2>10 DEF t
<1>2. Unhooked => SlashChangesNothing
  BY <1>1 DEF SlashChangesNothing
<1> QED
  BY <1>2, UnhookedInv, PTL

--------------------------------------------------------------------------------
(* Segments.                                                                 *)

\* The cuts of a path before place i.
Before(path, i) == {j \in Cuts(path) : j < i}

\* A path has finitely many cuts, none before the first and all but the last before that.
LEMMA CutsFinite ==
  ASSUME NEW T, NEW s \in Seq(T)
  PROVE  /\ Len(s) \in Nat /\ Cuts(s) \in SUBSET (0..(Len(s) + 1))
         /\ 0 \in Cuts(s) /\ Len(s) + 1 \in Cuts(s)
         /\ \A i \in Cuts(s) : i # 0 /\ i # Len(s) + 1 => i \in 1..Len(s) /\ s[i] = "/"
         /\ IsFiniteSet(Cuts(s)) /\ Cardinality(Cuts(s)) \in Nat
         /\ \A i : IsFiniteSet(Before(s, i)) /\ Cardinality(Before(s, i)) \in Nat
         /\ Cardinality(Before(s, 0)) = 0
         /\ Cardinality(Before(s, Len(s) + 1)) = Cardinality(Cuts(s)) - 1
<1>1. Len(s) \in Nat
  OBVIOUS
<1>2. /\ Cuts(s) \in SUBSET (0..(Len(s) + 1)) /\ 0 \in Cuts(s) /\ Len(s) + 1 \in Cuts(s)
      /\ \A i \in Cuts(s) : i # 0 /\ i # Len(s) + 1 => i \in 1..Len(s) /\ s[i] = "/"
  BY <1>1 DEF Cuts
<1>3. IsFiniteSet(Cuts(s)) /\ Cardinality(Cuts(s)) \in Nat
  <2>1. 0 \in Int /\ Len(s) + 1 \in Int
    BY <1>1
  <2>2. IsFiniteSet(0..(Len(s) + 1))
    BY <2>1, FS_Interval
  <2> QED
    BY <1>2, <2>2, FS_Subset, FS_CardinalityType
<1>4. ASSUME NEW i PROVE IsFiniteSet(Before(s, i)) /\ Cardinality(Before(s, i)) \in Nat
  <2>1. Before(s, i) \in SUBSET Cuts(s)
    BY DEF Before
  <2> QED
    BY <1>3, <2>1, FS_Subset, FS_CardinalityType
<1>5. Before(s, 0) = {}
  BY <1>1, <1>2 DEF Before
<1>6. Cardinality(Before(s, Len(s) + 1)) = Cardinality(Cuts(s)) - 1
  <2>1. Before(s, Len(s) + 1) = Cuts(s) \ {Len(s) + 1}
    BY <1>1, <1>2 DEF Before
  <2> QED
    BY <1>2, <1>3, <2>1, FS_RemoveElement
<1> QED
  BY <1>1, <1>2, <1>3, <1>4, <1>5, <1>6, FS_EmptySet

\* From one cut to the next there is one more before.
LEMMA OneCutMore ==
  ASSUME NEW T, NEW s \in Seq(T), NEW h \in Cuts(s), NEW i \in Cuts(s), h < i,
         \A j \in Cuts(s) : ~(h < j /\ j < i)
  PROVE  Cardinality(Before(s, i)) = Cardinality(Before(s, h)) + 1
<1>1. h \in Nat /\ i \in Nat /\ \A j \in Cuts(s) : j \in Nat
  BY CutsFinite
<1>2. Before(s, i) = Before(s, h) \cup {h} /\ h \notin Before(s, h)
  <2>1. ASSUME NEW j \in Cuts(s) PROVE j < i <=> j < h \/ j = h
    BY <1>1
  <2>2. ~(h < h)
    BY <1>1
  <2> QED
    BY <2>1, <2>2 DEF Before
<1>3. IsFiniteSet(Before(s, h))
  BY CutsFinite
<1> QED
  BY <1>2, <1>3, FS_AddElement

\* Behind a cut that is not the end there is a next one.
LEMMA NextCut ==
  ASSUME NEW T, NEW s \in Seq(T), NEW h \in Cuts(s), h # Len(s) + 1
  PROVE  \E i \in Cuts(s) : h < i /\ Cardinality(Before(s, i)) = Cardinality(Before(s, h)) + 1
<1> DEFINE R == {j \in Cuts(s) : h < j}
<1>1. R \in SUBSET Nat /\ R # {}
  <2>1. Len(s) + 1 \in Cuts(s) /\ h < Len(s) + 1 /\ \A j \in Cuts(s) : j \in Nat
    BY CutsFinite
  <2> QED
    BY <2>1
<1>2. PICK i \in R : \A j \in R : i <= j
  BY <1>1, LeastExists
<1>3. \A j \in Cuts(s) : ~(h < j /\ j < i)
  <2> SUFFICES ASSUME NEW j \in Cuts(s), h < j, j < i PROVE FALSE
    OBVIOUS
  <2>1. i <= j /\ i \in Nat /\ j \in Nat
    BY <1>1, <1>2
  <2> QED
    BY <2>1
<1> QED
  BY <1>2, <1>3, OneCutMore

\* Before a cut that is not the start there is a last one.
LEMMA LastCut ==
  ASSUME NEW T, NEW s \in Seq(T), NEW i \in Cuts(s), i # 0
  PROVE  \E h \in Cuts(s) : h < i /\ Cardinality(Before(s, i)) = Cardinality(Before(s, h)) + 1
<1> DEFINE R == Before(s, i)
<1>1. R \in SUBSET Nat /\ R # {} /\ i \in Nat /\ \A j \in R : j <= i
  <2>1. 0 \in Cuts(s) /\ 0 < i /\ i \in Nat /\ \A j \in Cuts(s) : j \in Nat
    BY CutsFinite
  <2>2. 0 \in R /\ \A j \in R : j \in Nat /\ j < i
    BY <2>1 DEF Before
  <2> HIDE DEF R
  <2> QED
    BY <2>1, <2>2
<1>2. PICK h \in R : \A j \in R : h >= j
  <2> HIDE DEF R
  <2> QED
    BY <1>1, GreatestExists
<1>3. h \in Cuts(s) /\ h < i
  BY <1>2 DEF Before
<1>4. \A j \in Cuts(s) : ~(h < j /\ j < i)
  <2> SUFFICES ASSUME NEW j \in Cuts(s), h < j, j < i PROVE FALSE
    OBVIOUS
  <2>1. j \in R
    BY DEF Before
  <2>2. h >= j /\ h \in Nat /\ j \in Nat
    BY <1>1, <1>2, <2>1
  <2> QED
    BY <2>2
<1> QED
  BY <1>3, <1>4, OneCutMore

\* A later cut has more before it.
LEMMA RankGrows ==
  ASSUME NEW T, NEW s \in Seq(T), NEW h \in Cuts(s), NEW i \in Cuts(s), h < i
  PROVE  Cardinality(Before(s, h)) < Cardinality(Before(s, i))
<1>1. h \in Nat /\ i \in Nat /\ \A j \in Cuts(s) : j \in Nat
  BY CutsFinite
<1>2. Before(s, h) \in SUBSET Before(s, i) /\ h \in Before(s, i) /\ h \notin Before(s, h)
  <2>1. \A j \in Cuts(s) : j < h => j < i
    BY <1>1
  <2>2. ~(h < h)
    BY <1>1
  <2> QED
    BY <2>1, <2>2 DEF Before
<1>3. /\ IsFiniteSet(Before(s, i)) /\ Cardinality(Before(s, h)) \in Nat
      /\ Cardinality(Before(s, i)) \in Nat
  BY CutsFinite
<1>4. /\ Cardinality(Before(s, h)) <= Cardinality(Before(s, i))
      /\ Cardinality(Before(s, h)) = Cardinality(Before(s, i)) => Before(s, h) = Before(s, i)
  BY <1>2, <1>3, FS_Subset
<1> QED
  BY <1>2, <1>3, <1>4

\* A cut is the one with its number before it.
LEMMA CutIs ==
  ASSUME NEW T, NEW s \in Seq(T), NEW i \in Cuts(s)
  PROVE  Cut(s, Cardinality(Before(s, i))) = i
<1>1. ASSUME NEW h \in Cuts(s), Cardinality(Before(s, h)) = Cardinality(Before(s, i))
      PROVE  h = i
  <2>1. h \in Nat /\ i \in Nat /\ Cardinality(Before(s, i)) \in Nat
    BY CutsFinite
  <2>2. ~(h < i) /\ ~(i < h)
    BY <1>1, <2>1, RankGrows
  <2> QED
    BY <2>1, <2>2
<1>2. Cut(s, Cardinality(Before(s, i)))
        = CHOOSE h \in Cuts(s) : Cardinality(Before(s, h)) = Cardinality(Before(s, i))
  BY DEF Cut, Before
<1> QED
  BY <1>1, <1>2

\* Every number of cuts before, up to the last, is that of some cut.
LEMMA CutExists ==
  ASSUME NEW T, NEW s \in Seq(T), NEW k \in 0..(Cardinality(Cuts(s)) - 1)
  PROVE  \E i \in Cuts(s) : Cardinality(Before(s, i)) = k
<1> DEFINE n == Cardinality(Cuts(s)) - 1
           Rank(i) == Cardinality(Before(s, i))
           Missing == {l \in 0..n : ~\E i \in Cuts(s) : Rank(i) = l}
<1>1. /\ n \in Int /\ 0 \in Cuts(s) /\ Rank(0) = 0 /\ Rank(Len(s) + 1) = n
      /\ \A i \in Cuts(s) : Rank(i) \in Nat
  BY CutsFinite
<1>2. \A h \in Cuts(s) : h # Len(s) + 1 => \E i \in Cuts(s) : Rank(i) = Rank(h) + 1
  BY NextCut
<1> HIDE DEF n, Rank
<1>3. Missing = {}
  <2> SUFFICES ASSUME Missing # {} PROVE FALSE
    OBVIOUS
  <2>1. Missing \in SUBSET Nat
    BY <1>1
  <2>2. PICK l \in Missing : \A j \in Missing : l <= j
    BY <2>1, LeastExists
  <2>3. l \in 0..n /\ l # 0 /\ l \in Nat
    BY <1>1
  <2>4. l - 1 \in 0..n /\ ~(l <= l - 1) /\ (l - 1) + 1 = l
    BY <1>1, <2>3
  <2>5. l - 1 \notin Missing
    BY <2>2, <2>4
  <2>6. PICK h \in Cuts(s) : Rank(h) = l - 1
    BY <2>4, <2>5
  <2>7. h # Len(s) + 1
    BY <1>1, <2>3, <2>6
  <2>8. PICK i \in Cuts(s) : Rank(i) = Rank(h) + 1
    BY <1>2, <2>7
  <2> QED
    BY <2>4, <2>6, <2>8
<1> QED
  BY <1>3 DEF n, Rank

\* A path has as many segments as cuts but one, and each is what is between two cuts.
LEMMA SegmentIs ==
  ASSUME NEW T, NEW s \in Seq(T)
  PROVE  /\ SegmentsOf(s) \in Seq({SegmentsOf(s)[k] : k \in DOMAIN SegmentsOf(s)})
         /\ Len(SegmentsOf(s)) \in Nat /\ Len(SegmentsOf(s)) = Cardinality(Cuts(s)) - 1
         /\ \A h, i \in Cuts(s) :
              Cardinality(Before(s, i)) = Cardinality(Before(s, h)) + 1 =>
                SegmentsOf(s)[Cardinality(Before(s, i))] = SubSeq(s, h + 1, i - 1)
<1> DEFINE n == Cardinality(Cuts(s)) - 1
           f == SegmentsOf(s)
<1>1. n \in Nat
  BY CutsFinite
<1>2. f = [k \in 1..n |-> SubSeq(s, Cut(s, k - 1) + 1, Cut(s, k) - 1)]
  BY Zenon DEF SegmentsOf
<1> HIDE DEF n, f
<1>3. f \in Seq({f[k] : k \in DOMAIN f}) /\ Len(f) = n
  <2>1. DOMAIN f = 1..n /\ f = [k \in 1..n |-> f[k]]
    BY <1>2
  <2>2. \A k \in 1..n : f[k] \in {f[j] : j \in DOMAIN f}
    BY <2>1
  <2> DEFINE S == {f[j] : j \in DOMAIN f}
  <2> HIDE DEF S
  <2>3. f \in [1..n -> S]
    BY <2>1, <2>2 DEF S
  <2>4. f \in Seq(S)
    BY <1>1, <2>3
  <2>5. Len(f) = n
    BY <1>1, <2>1, <2>4
  <2> QED
    BY <2>4, <2>5 DEF S
<1>4. ASSUME NEW h \in Cuts(s), NEW i \in Cuts(s),
             Cardinality(Before(s, i)) = Cardinality(Before(s, h)) + 1
      PROVE  f[Cardinality(Before(s, i))] = SubSeq(s, h + 1, i - 1)
  <2> DEFINE k == Cardinality(Before(s, i))
  <2>1. Cut(s, k) = i /\ Cut(s, Cardinality(Before(s, h))) = h
    BY CutIs
  <2>2. k \in Nat /\ k <= n /\ Cardinality(Before(s, h)) \in Nat
    <3>1. i = Len(s) + 1 \/ i < Len(s) + 1
      BY CutsFinite
    <3>2. i < Len(s) + 1 => k < n
      BY CutsFinite, RankGrows DEF n
    <3>3. i = Len(s) + 1 => k = n
      BY CutsFinite DEF n
    <3>4. k \in Nat /\ Cardinality(Before(s, h)) \in Nat
      BY CutsFinite
    <3> HIDE DEF k
    <3> QED
      BY <1>1, <3>1, <3>2, <3>3, <3>4
  <2>3. k - 1 = Cardinality(Before(s, h)) /\ k \in 1..n
    BY <1>1, <1>4, <2>2
  <2> HIDE DEF k
  <2>4. f[k] = SubSeq(s, Cut(s, k - 1) + 1, Cut(s, k) - 1)
    BY <1>2, <2>3
  <2> QED
    BY <2>1, <2>3, <2>4 DEF k
<1> QED
  BY <1>1, <1>3, <1>4 DEF n, f

\* What is in a part of a text.
LEMMA Part ==
  ASSUME NEW T, NEW s \in Seq(T), NEW a \in 0..Len(s), NEW n \in a..Len(s)
  PROVE  /\ SubSeq(s, a + 1, n) \in Seq(T) /\ Len(SubSeq(s, a + 1, n)) = n - a
         /\ \A i \in 1..(n - a) : SubSeq(s, a + 1, n)[i] = s[a + i]
<1>1. \A i \in (a + 1)..n : s[i] \in T
  BY ElementOfSeq
<1>2. a + 1 \in Int /\ n \in Int
  OBVIOUS
<1>3. /\ SubSeq(s, a + 1, n) \in Seq(T)
      /\ Len(SubSeq(s, a + 1, n)) = IF a + 1 <= n THEN n - (a + 1) + 1 ELSE 0
      /\ \A i \in 1..(n - (a + 1) + 1) : SubSeq(s, a + 1, n)[i] = s[(a + 1) + i - 1]
  BY <1>1, <1>2, SubSeqProperties
<1>4. /\ (IF a + 1 <= n THEN n - (a + 1) + 1 ELSE 0) = n - a /\ n - (a + 1) + 1 = n - a
      /\ \A i \in 1..(n - a) : (a + 1) + i - 1 = a + i
  OBVIOUS
<1> QED
  BY <1>3, <1>4

\* A sequence is a prefix of another that is as long at least and starts with its entries.
LEMMA PrefixEntries ==
  ASSUME NEW T, NEW f \in Seq(T), NEW v \in Seq(T)
  PROVE  IsPrefix(f, v) <=> Len(f) <= Len(v) /\ \A i \in 1..Len(f) : f[i] = v[i]
<1>1. Len(f) \in Nat /\ Len(v) \in Nat /\ SubSeq(f, 1, Len(f)) = f
  BY SubSeqFull
<1>2. ASSUME Len(f) <= Len(v)
      PROVE  f = SubSeq(v, 1, Len(f)) <=> \A i \in 1..Len(f) : f[i] = v[i]
  <2>1. /\ SubSeq(v, 1, Len(f)) \in Seq(T) /\ Len(SubSeq(v, 1, Len(f))) = Len(f)
        /\ \A i \in 1..Len(f) : SubSeq(v, 1, Len(f))[i] = v[i]
    <3>1. 0 \in 0..Len(v) /\ Len(f) \in 0..Len(v) /\ 0 + 1 = 1 /\ Len(f) - 0 = Len(f)
      BY <1>1, <1>2
    <3>2. \A i \in 1..Len(f) : 0 + i = i
      BY <1>1
    <3>3. /\ SubSeq(v, 0 + 1, Len(f)) \in Seq(T) /\ Len(SubSeq(v, 0 + 1, Len(f))) = Len(f) - 0
          /\ \A i \in 1..(Len(f) - 0) : SubSeq(v, 0 + 1, Len(f))[i] = v[0 + i]
      BY <3>1, Part
    <3> QED
      BY <3>1, <3>2, <3>3
  <2>2. (\A i \in 1..Len(f) : f[i] = v[i]) => f = SubSeq(v, 1, Len(f))
    BY <2>1, SeqEqual
  <2>3. f = SubSeq(v, 1, Len(f)) => \A i \in 1..Len(f) : f[i] = v[i]
    BY <2>1
  <2> QED
    BY <2>2, <2>3
<1> QED
  BY <1>1, <1>2 DEF IsPrefix

\* Sequences of segments, too.
LEMMA SegmentPrefix ==
  ASSUME NEW T, NEW p \in Seq(T), NEW s \in Seq(T)
  PROVE  IsPrefix(SegmentsOf(p), SegmentsOf(s))
           <=> /\ Cardinality(Cuts(p)) <= Cardinality(Cuts(s))
               /\ \A k \in 1..(Cardinality(Cuts(p)) - 1) : SegmentsOf(p)[k] = SegmentsOf(s)[k]
<1> DEFINE f == SegmentsOf(p)
           g == SegmentsOf(s)
           A == {f[k] : k \in DOMAIN f}
           B == {g[k] : k \in DOMAIN g}
<1>1. /\ f \in Seq(A) /\ g \in Seq(B)
      /\ Len(f) = Cardinality(Cuts(p)) - 1 /\ Len(g) = Cardinality(Cuts(s)) - 1
  BY SegmentIs
<1>2. Cardinality(Cuts(p)) \in Nat /\ Cardinality(Cuts(s)) \in Nat
  BY CutsFinite
<1> HIDE DEF f, g, A, B
<1>3. f \in Seq(A \cup B) /\ g \in Seq(A \cup B)
  <2>1. /\ \A k \in 1..Len(f) : f[k] \in A \cup B
        /\ \A k \in 1..Len(g) : g[k] \in A \cup B
    BY <1>1, ElementOfSeq
  <2> QED
    BY <1>1, <2>1, LenProperties
<1>4. IsPrefix(f, g) <=> Len(f) <= Len(g) /\ \A i \in 1..Len(f) : f[i] = g[i]
  BY <1>3, PrefixEntries
<1> QED
  BY <1>1, <1>2, <1>4 DEF f, g

\* A path lies beneath another that it repeats up to a slash.
LEMMA BeneathLetters ==
  ASSUME NEW p \in Seq(Letter), NEW s \in Seq(Letter)
  PROVE  IsPrefix(p \o <<"/">>, s)
           <=> /\ Len(p) + 1 <= Len(s) /\ \A i \in 1..Len(p) : s[i] = p[i]
               /\ s[Len(p) + 1] = "/"
<1> DEFINE t == p \o <<"/">>
<1>1. /\ t \in Seq(Letter) /\ Len(p) \in Nat /\ Len(t) = Len(p) + 1
      /\ \A i \in 1..Len(p) : t[i] = p[i]
      /\ t[Len(p) + 1] = "/"
  BY Slashed
<1> HIDE DEF t
<1>2. IsPrefix(t, s) <=> Len(t) <= Len(s) /\ \A i \in 1..Len(t) : t[i] = s[i]
  BY <1>1, PrefixEntries
<1>3. \A i : i \in 1..Len(t) <=> i \in 1..Len(p) \/ i = Len(p) + 1
  BY <1>1
<1>4. IsPrefix(t, s) <=> /\ Len(p) + 1 <= Len(s) /\ \A i \in 1..Len(p) : s[i] = p[i]
                         /\ s[Len(p) + 1] = "/"
  BY <1>1, <1>2, <1>3
<1> QED
  BY <1>4 DEF t

\* Up to place i, where both have a cut, and equally many before it, s repeats p.
Repeats(p, s, i) ==
  /\ i \in Cuts(s) /\ Cardinality(Before(s, i)) = Cardinality(Before(p, i))
  /\ \A j \in 1..(i - 1) : j \in 1..Len(s) /\ s[j] = p[j]

\* A path whose first segments are those of p repeats p up to every cut of p: the first
\* cut that it misses would end a segment that differs.
LEMMA SegmentsRepeat ==
  ASSUME NEW T, NEW p \in Seq(T), NEW s \in Seq(T), IsPrefix(SegmentsOf(p), SegmentsOf(s)),
         NEW c \in Cuts(p)
  PROVE  Repeats(p, s, c)
<1> DEFINE Missed == {j \in Cuts(p) : ~Repeats(p, s, j)}
<1> SUFFICES ASSUME Missed # {} PROVE FALSE
  OBVIOUS
<1>1. /\ Len(p) \in Nat /\ Len(s) \in Nat
      /\ \A j \in Cuts(p) : j \in Nat /\ j <= Len(p) + 1
      /\ \A j \in Cuts(s) : j \in Nat /\ j <= Len(s) + 1
      /\ \A j \in Cuts(p) : j # 0 /\ j # Len(p) + 1 => j \in 1..Len(p) /\ p[j] = "/"
      /\ \A j \in Cuts(s) : j # 0 /\ j # Len(s) + 1 => j \in 1..Len(s) /\ s[j] = "/"
      /\ 0 \in Cuts(s)
  BY CutsFinite
<1>2. PICK i \in Missed : \A j \in Missed : i <= j
  <2>1. Missed \in SUBSET Nat
    BY <1>1
  <2> QED
    BY <2>1, LeastExists
<1>3. i \in Cuts(p) /\ ~Repeats(p, s, i) /\ i \in Nat
  BY <1>1
<1>4. i # 0
  <2>1. Cardinality(Before(s, 0)) = Cardinality(Before(p, 0))
    BY CutsFinite
  <2>2. \A j \in 1..(0 - 1) : FALSE
    OBVIOUS
  <2>3. Repeats(p, s, 0)
    BY <1>1, <2>1, <2>2 DEF Repeats
  <2> QED
    BY <1>3, <2>3
<1>5. PICK h \in Cuts(p) : h < i /\ Cardinality(Before(p, i)) = Cardinality(Before(p, h)) + 1
  BY <1>3, <1>4, LastCut
<1>6. Repeats(p, s, h) /\ h \in Nat
  <2>1. h \in Nat /\ ~(i <= h)
    BY <1>1, <1>3, <1>5
  <2> QED
    BY <1>2, <2>1
<1> DEFINE k == Cardinality(Before(p, i))
<1>7. /\ k \in 1..(Cardinality(Cuts(p)) - 1) /\ k \in Nat /\ k <= Cardinality(Cuts(s)) - 1
      /\ Cardinality(Before(s, h)) + 1 = k /\ SegmentsOf(p)[k] = SegmentsOf(s)[k]
  <2>1. k \in Nat /\ Cardinality(Before(p, h)) \in Nat
    BY CutsFinite
  <2>2. k <= Cardinality(Cuts(p)) - 1
    <3>1. Cardinality(Before(p, Len(p) + 1)) = Cardinality(Cuts(p)) - 1 /\ Len(p) + 1 \in Cuts(p)
      BY CutsFinite
    <3>2. i = Len(p) + 1 \/ i < Len(p) + 1
      BY <1>1, <1>3
    <3>3. i < Len(p) + 1 => k < Cardinality(Before(p, Len(p) + 1))
      BY <1>3, <3>1, RankGrows
    <3>4. Cardinality(Cuts(p)) \in Nat
      BY CutsFinite
    <3> HIDE DEF k
    <3>5. CASE i = Len(p) + 1
      <4>1. k = Cardinality(Cuts(p)) - 1
        BY <3>1, <3>5 DEF k
      <4> QED
        BY <2>1, <3>4, <4>1
    <3>6. CASE i < Len(p) + 1
      BY <2>1, <3>1, <3>3, <3>4, <3>6
    <3> QED
      BY <3>2, <3>5, <3>6
  <2>3. Cardinality(Before(s, h)) + 1 = k
    BY <1>5, <1>6 DEF Repeats
  <2>4. k >= 1
    BY <1>5, <2>1
  <2>5. Cardinality(Cuts(p)) \in Nat /\ Cardinality(Cuts(s)) \in Nat
    BY CutsFinite
  <2> HIDE DEF k
  <2>6. k \in 1..(Cardinality(Cuts(p)) - 1)
    BY <2>1, <2>2, <2>4, <2>5
  <2>7. /\ Cardinality(Cuts(p)) <= Cardinality(Cuts(s))
        /\ \A l \in 1..(Cardinality(Cuts(p)) - 1) : SegmentsOf(p)[l] = SegmentsOf(s)[l]
    BY SegmentPrefix
  <2> QED
    BY <2>1, <2>2, <2>3, <2>5, <2>6, <2>7
<1>8. h \in Cuts(s) /\ h # Len(s) + 1
  <2>1. Cardinality(Before(s, Len(s) + 1)) = Cardinality(Cuts(s)) - 1 /\ Cardinality(Cuts(s)) \in Nat
    BY CutsFinite
  <2>2. Cardinality(Before(s, h)) \in Nat
    BY CutsFinite
  <2> HIDE DEF k
  <2>3. Cardinality(Before(s, h)) # Cardinality(Cuts(s)) - 1
    BY <1>7, <2>1, <2>2
  <2> QED
    BY <1>6, <2>1, <2>3 DEF Repeats
<1>9. PICK v \in Cuts(s) : h < v /\ Cardinality(Before(s, v)) = Cardinality(Before(s, h)) + 1
  BY <1>8, NextCut
<1>10. SubSeq(p, h + 1, i - 1) = SubSeq(s, h + 1, v - 1)
  <2>1. SegmentsOf(p)[k] = SubSeq(p, h + 1, i - 1)
    BY <1>3, <1>5, SegmentIs
  <2>2. Cardinality(Before(s, v)) = k
    BY <1>7, <1>9
  <2>3. SegmentsOf(s)[Cardinality(Before(s, v))] = SubSeq(s, h + 1, v - 1)
    BY <1>8, <1>9, SegmentIs
  <2> QED
    BY <1>7, <2>1, <2>2, <2>3
<1> HIDE DEF k
<1>11. /\ h \in 0..Len(p) /\ i - 1 \in h..Len(p) /\ h \in 0..Len(s) /\ v - 1 \in h..Len(s)
       /\ v \in Nat
  BY <1>1, <1>3, <1>5, <1>6, <1>9
<1>12. /\ Len(SubSeq(p, h + 1, i - 1)) = (i - 1) - h
       /\ \A j \in 1..((i - 1) - h) : SubSeq(p, h + 1, i - 1)[j] = p[h + j]
       /\ Len(SubSeq(s, h + 1, v - 1)) = (v - 1) - h
       /\ \A j \in 1..((v - 1) - h) : SubSeq(s, h + 1, v - 1)[j] = s[h + j]
  BY <1>11, Part
<1>13. v = i
  <2>1. (i - 1) - h = (v - 1) - h
    BY <1>10, <1>12
  <2> QED
    BY <1>3, <1>6, <1>11, <2>1
<1>14. \A j \in 1..((i - 1) - h) : s[h + j] = p[h + j]
  BY <1>10, <1>12, <1>13
<1>15. ASSUME NEW j \in 1..(i - 1) PROVE j \in 1..Len(s) /\ s[j] = p[j]
  <2>1. j \in 1..Len(s) /\ j \in Nat
    BY <1>3, <1>11, <1>13
  <2>2. CASE j < h
    <3>1. j \in 1..(h - 1)
      BY <1>6, <2>1, <2>2
    <3> QED
      BY <1>6, <3>1 DEF Repeats
  <2>3. CASE j = h
    <3>1. h # 0 /\ h # Len(p) + 1 /\ h # Len(s) + 1
      BY <1>1, <1>3, <1>5, <1>6, <1>8, <2>1, <2>3
    <3>2. p[h] = "/" /\ s[h] = "/"
      BY <1>1, <1>5, <1>8, <3>1
    <3> QED
      BY <2>1, <2>3, <3>2
  <2>4. CASE h < j
    <3>1. j - h \in 1..((i - 1) - h) /\ h + (j - h) = j
      BY <1>3, <1>6, <2>1, <2>4
    <3> QED
      BY <1>14, <2>1, <3>1
  <2> QED
    BY <1>6, <2>1, <2>2, <2>3, <2>4
<1>16. Repeats(p, s, i)
  <2>1. Cardinality(Before(s, i)) = Cardinality(Before(p, i))
    BY <1>7, <1>9, <1>13 DEF k
  <2> QED
    BY <1>9, <1>13, <1>15, <2>1 DEF Repeats
<1> QED
  BY <1>3, <1>16

\* A path begins with the segments of p when it is p or lies beneath it.
LEMMA LedBySegments ==
  ASSUME NEW p \in Seq(Letter), NEW s \in Seq(Letter)
  PROVE  IsPrefix(SegmentsOf(p), SegmentsOf(s)) <=> s = p \/ IsPrefix(p \o <<"/">>, s)
<1>1. /\ Len(p) \in Nat /\ Len(s) \in Nat /\ Len(p) + 1 \in Cuts(p) /\ Len(s) + 1 \in Cuts(s)
      /\ Cardinality(Cuts(p)) \in Nat /\ Cardinality(Cuts(s)) \in Nat
  BY CutsFinite
<1>2. ASSUME IsPrefix(SegmentsOf(p), SegmentsOf(s))
      PROVE  s = p \/ IsPrefix(p \o <<"/">>, s)
  <2>1. /\ Len(p) + 1 \in Cuts(s)
        /\ \A j \in 1..((Len(p) + 1) - 1) : j \in 1..Len(s) /\ s[j] = p[j]
    BY <1>1, <1>2, SegmentsRepeat DEF Repeats
  <2>2. \A j \in 1..Len(p) : s[j] = p[j]
    <3>1. (Len(p) + 1) - 1 = Len(p)
      BY <1>1
    <3> QED
      BY <2>1, <3>1
  <2>3. CASE Len(p) + 1 = Len(s) + 1
    <3>1. Len(p) = Len(s)
      BY <1>1, <2>3
    <3> QED
      BY <2>2, <3>1, SeqEqual
  <2>4. CASE Len(p) + 1 # Len(s) + 1
    <3>1. Len(p) + 1 \in 1..Len(s) /\ s[Len(p) + 1] = "/"
      <4>1. Len(p) + 1 # 0
        BY <1>1
      <4> QED
        BY <2>1, <2>4, <4>1, CutsFinite
    <3>2. Len(p) + 1 <= Len(s)
      BY <1>1, <3>1
    <3> QED
      BY <2>2, <3>1, <3>2, BeneathLetters
  <2> QED
    BY <2>3, <2>4
<1>3. ASSUME s = p
      PROVE  IsPrefix(SegmentsOf(p), SegmentsOf(s))
  <2>1. Cardinality(Cuts(p)) <= Cardinality(Cuts(p))
    BY <1>1
  <2> QED
    BY <1>3, <2>1, SegmentPrefix
<1>4. ASSUME IsPrefix(p \o <<"/">>, s)
      PROVE  IsPrefix(SegmentsOf(p), SegmentsOf(s))
  <2>1. /\ Len(p) + 1 <= Len(s) /\ \A j \in 1..Len(p) : s[j] = p[j]
        /\ s[Len(p) + 1] = "/"
    BY <1>4, BeneathLetters
  <2>2. \A j : j \in Cuts(p) <=> j \in Cuts(s) /\ j <= Len(p) + 1
    <3>1. ASSUME NEW j \in 0..Len(p) PROVE j \in Cuts(p) <=> j \in Cuts(s)
      <4>1. /\ j # Len(p) + 1 /\ j # Len(s) + 1 /\ (j = 0 \/ j \in 1..Len(p))
            /\ (j \in 1..Len(p) => j \in 1..Len(s) /\ s[j] = p[j])
        BY <1>1, <2>1
      <4> QED
        BY <4>1 DEF Cuts
    <3>2. Len(p) + 1 \in Cuts(s)
      <4>1. Len(p) + 1 \in 1..Len(s)
        BY <1>1, <2>1
      <4> QED
        BY <2>1, <4>1 DEF Cuts
    <3>3. \A j \in Cuts(p) : j = Len(p) + 1 \/ j \in 0..Len(p)
      BY <1>1, CutsFinite
    <3>4. \A j \in Cuts(s) : j <= Len(p) + 1 => j = Len(p) + 1 \/ j \in 0..Len(p)
      BY <1>1, CutsFinite
    <3>5. \A j \in 0..Len(p) : j <= Len(p) + 1
      BY <1>1
    <3>6. Len(p) + 1 <= Len(p) + 1
      BY <1>1
    <3> QED
      BY <1>1, <3>1, <3>2, <3>3, <3>4, <3>5, <3>6
  <2>3. ASSUME NEW i \in Cuts(p)
        PROVE  i \in Cuts(s) /\ Before(s, i) = Before(p, i)
    <3>1. i \in Nat /\ i <= Len(p) + 1
      BY <1>1, CutsFinite
    <3>2. \A j \in Cuts(s) : j < i => j <= Len(p) + 1
      BY <1>1, <3>1, CutsFinite
    <3> QED
      BY <2>2, <3>2 DEF Before
  <2>4. Cardinality(Cuts(p)) <= Cardinality(Cuts(s))
    <3>1. /\ Cardinality(Before(p, Len(p) + 1)) = Cardinality(Cuts(p)) - 1
          /\ Cardinality(Before(s, Len(s) + 1)) = Cardinality(Cuts(s)) - 1
      BY CutsFinite
    <3>2. Len(p) + 1 \in Cuts(s) /\ Len(p) + 1 < Len(s) + 1
      BY <1>1, <2>1, <2>3
    <3>3. Cardinality(Before(s, Len(p) + 1)) < Cardinality(Before(s, Len(s) + 1))
      BY <1>1, <3>2, RankGrows
    <3>4. Cardinality(Before(s, Len(p) + 1)) = Cardinality(Before(p, Len(p) + 1))
      BY <1>1, <2>3
    <3> QED
      BY <1>1, <3>1, <3>3, <3>4
  <2>5. ASSUME NEW k \in 1..(Cardinality(Cuts(p)) - 1)
        PROVE  SegmentsOf(p)[k] = SegmentsOf(s)[k]
    <3>1. k \in 0..(Cardinality(Cuts(p)) - 1) /\ k # 0
      BY <1>1
    <3>2. PICK i \in Cuts(p) : Cardinality(Before(p, i)) = k
      BY <3>1, CutExists
    <3>3. i # 0
      BY <3>1, <3>2, CutsFinite
    <3>4. PICK h \in Cuts(p) : h < i /\ Cardinality(Before(p, i)) = Cardinality(Before(p, h)) + 1
      BY <3>3, LastCut
    <3>5. /\ h \in Cuts(s) /\ i \in Cuts(s) /\ Cardinality(Before(s, i)) = k
          /\ Cardinality(Before(s, i)) = Cardinality(Before(s, h)) + 1
      BY <2>3, <3>2, <3>4
    <3>6. SegmentsOf(p)[k] = SubSeq(p, h + 1, i - 1)
      BY <3>2, <3>4, SegmentIs
    <3>7. SegmentsOf(s)[k] = SubSeq(s, h + 1, i - 1)
      BY <3>5, SegmentIs
    <3>8. h \in 0..Len(p) /\ i - 1 \in h..Len(p) /\ h \in 0..Len(s) /\ i - 1 \in h..Len(s)
      <4>1. h \in Nat /\ i \in Nat /\ i <= Len(p) + 1
        BY <1>1, CutsFinite
      <4> QED
        BY <1>1, <2>1, <3>4, <4>1
    <3> DEFINE A == SubSeq(p, h + 1, i - 1)
               B == SubSeq(s, h + 1, i - 1)
    <3>9. /\ A \in Seq(Letter) /\ Len(A) = (i - 1) - h /\ \A j \in 1..((i - 1) - h) : A[j] = p[h + j]
          /\ B \in Seq(Letter) /\ Len(B) = (i - 1) - h /\ \A j \in 1..((i - 1) - h) : B[j] = s[h + j]
      BY <3>8, Part
    <3>10. \A j \in 1..((i - 1) - h) : s[h + j] = p[h + j]
      <4>1. \A j \in 1..((i - 1) - h) : h + j \in 1..Len(p)
        BY <1>1, <3>8
      <4> QED
        BY <2>1, <4>1
    <3> HIDE DEF A, B
    <3>11. A = B
      BY <3>9, <3>10, SeqEqual
    <3> QED
      BY <3>6, <3>7, <3>11 DEF A, B
  <2> QED
    BY <2>4, <2>5, SegmentPrefix
<1> QED
  BY <1>2, <1>3, <1>4

\* However a service fills its table, a path is exempt when its segments begin with those
\* of an exempt prefix, and on no other account (ExemptBySegment; IsExempt, pathHasPrefix).
THEOREM ExemptionGoesBySegment == Spec => []ExemptBySegment
<1>1. ASSUME Unhooked, NEW s \in Surfaces, ~IsGRPC(s)
      PROVE  IsExempt(m, s) <=>
               \E p \in m.exemptPaths \ {<<>>} :
                 IsPrefix(SegmentsOf(IF Last(p) = "/" THEN Front(p) ELSE p), SegmentsOf(s.path))
  <2>1. s.path \in Seq(Letter)
    BY TableAssumption, TextIsText
  <2>2. IsExempt(m, s) <=> \E p \in m.exemptPaths : pathHasPrefix(s.path, p)
    BY <1>1 DEF IsExempt, Unhooked
  <2>3. ASSUME NEW p \in m.exemptPaths, p # <<>>
        PROVE  pathHasPrefix(s.path, p) <=>
                 IsPrefix(SegmentsOf(IF Last(p) = "/" THEN Front(p) ELSE p), SegmentsOf(s.path))
    <3> DEFINE q == IF Last(p) = "/" THEN Front(p) ELSE p
    <3>1. p \in Seq(Letter)
      BY <1>1, TableAssumption, TextIsText DEF Unhooked
    <3>2. q \in Seq(Letter)
      <4>1. Len(p) \in Nat /\ Len(p) >= 1
        BY <2>3, <3>1, EmptySeq, LenProperties
      <4>2. 0 \in 0..Len(p) /\ Len(p) - 1 \in 0..Len(p) /\ 0 + 1 = 1
        BY <4>1
      <4>3. SubSeq(p, 0 + 1, Len(p) - 1) \in Seq(Letter)
        BY <3>1, <4>2, Part
      <4>4. Front(p) \in Seq(Letter)
        BY <4>2, <4>3 DEF Front
      <4> QED
        BY <3>1, <4>4
    <3>3. pathHasPrefix(s.path, p) <=> s.path = q \/ IsPrefix(q \o <<"/">>, s.path)
      BY <2>3, Zenon DEF pathHasPrefix
    <3> HIDE DEF q
    <3>4. pathHasPrefix(s.path, p) <=> IsPrefix(SegmentsOf(q), SegmentsOf(s.path))
      BY <2>1, <3>2, <3>3, LedBySegments
    <3> QED
      BY <3>4 DEF q
  <2>4. ~pathHasPrefix(s.path, <<>>)
    BY DEF pathHasPrefix
  <2> QED
    BY <2>2, <2>3, <2>4
<1>2. Unhooked => ExemptBySegment
  BY <1>1 DEF ExemptBySegment
<1> QED
  BY <1>2, UnhookedInv, PTL

================================================================================
