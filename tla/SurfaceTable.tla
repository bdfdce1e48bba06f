------------------------------ MODULE SurfaceTable ------------------------------
(****************************************************************************)
(* A service fills its Map before it builds a Guard: one declaration at a    *)
(* time, in any order, from the zero Map on (authz/permissions.go).  Every   *)
(* set of declarations a service can make is a state.                        *)
(****************************************************************************)
EXTENDS SurfaceMap

CONSTANTS
  PathPrefixes,    \* what Map.Prefix may be
  Keys,            \* the <<verb, path>> pairs declared in Exact, in canonical form
  Segments,        \* the keys declared in Routes
  Methods,         \* the gRPC methods declared
  ExemptPrefixes,  \* the path prefixes exempted
  Rules,           \* the rules declared
  Blanket,         \* Map.BlanketActions
  Operations,      \* Map.OperationPermissions
  Surfaces         \* the surfaces requests are addressed to

\* Paths and prefixes are texts, and no exempt prefix ends in two slashes: pathHasPrefix
\* trims one of them, and the other would tell /a and /a/ apart.
ASSUME TableAssumption ==
  /\ \A s \in Surfaces : DOMAIN s = {"path", "verb", "method"} /\ s.path \in Seq(STRING)
  /\ PathPrefixes \cup ExemptPrefixes \subseteq Seq(STRING)
  /\ \A p \in ExemptPrefixes : Len(p) > 1 => p[Len(p)] # "/" \/ p[Len(p) - 1] # "/"

VARIABLE m

--------------------------------------------------------------------------------
Nothing == [x \in {} |-> {}]

\* The zero Map, but for the parts that are not declared surface by surface.
Init ==
  \E prefix \in PathPrefixes :
    m = [prefix |-> prefix, exact |-> Nothing, routes |-> Nothing,
         methods |-> Nothing, actors |-> Nothing,
         operations |-> Operations, blanket |-> Blanket,
         exemptPaths |-> {}, exemptMethods |-> {}, exempt |-> {}, routeKey |-> NoHook]

\* f with key k declared as v.
With(f, k, v) == [x \in DOMAIN f \cup {k} |-> IF x = k THEN v ELSE f[x]]

DeclareExact ==
  \E k \in Keys \ DOMAIN m.exact, rule \in Rules :
    m' = [m EXCEPT !.exact = With(@, k, rule)]

DeclareRoute ==
  \E k \in Segments \ DOMAIN m.routes, read \in Rules, write \in Rules :
    m' = [m EXCEPT !.routes = With(@, k, [read |-> read, write |-> write])]

DeclareMethod ==
  \E k \in Methods \ DOMAIN m.methods, rule \in Rules :
    m' = [m EXCEPT !.methods = With(@, k, rule.permission),
                   !.actors = IF rule.actor = "any" THEN @ ELSE With(@, k, rule.actor)]

ExemptPath ==
  \E p \in ExemptPrefixes \ m.exemptPaths : m' = [m EXCEPT !.exemptPaths = @ \cup {p}]

ExemptMethod ==
  \E k \in Methods \ m.exemptMethods : m' = [m EXCEPT !.exemptMethods = @ \cup {k}]

Next == DeclareExact \/ DeclareRoute \/ DeclareMethod \/ ExemptPath \/ ExemptMethod

Spec == Init /\ [][Next]_m

--------------------------------------------------------------------------------
\* Whatever a surface demands, setup registers in Auth: "SETUP MUST REGISTER EXACTLY
\* THIS LIST", or no token can carry what the guard asks for (DeclaredPermissions).
EveryDemandIsDeclared ==
  \A s \in Surfaces : Mapped(m, s) =>
    Resolve(m, s).permission \in DeclaredPermissions(m) \cup {<<>>}

\* The two spellings of a path, with and without a slash at its end, are one surface:
\* exempt or not, mapped or not, and under one rule (ExactKey, FirstSegment and
\* pathHasPrefix agree).
SlashChangesNothing ==
  \A s \in Surfaces :
    LET t == [s EXCEPT !.path = @ \o <<"/">>]
    IN  ~IsGRPC(s) /\ s.path # <<>> =>
          /\ IsExempt(m, s) <=> IsExempt(m, t)
          /\ Mapped(m, s) <=> Mapped(m, t)
          /\ Mapped(m, s) => Resolve(m, s) = Resolve(m, t)

\* Where the segments of a path begin and end: its slashes, and the places before and
\* behind it.
Cuts(path) == {i \in 1..Len(path) : path[i] = "/"} \cup {0, Len(path) + 1}

\* The cut that has k before it.
Cut(path, k) == CHOOSE i \in Cuts(path) : Cardinality({j \in Cuts(path) : j < i}) = k

\* The segments of a path.
SegmentsOf(path) ==
  [k \in 1..(Cardinality(Cuts(path)) - 1) |->
     SubSeq(path, Cut(path, k - 1) + 1, Cut(path, k) - 1)]

\* An exempt prefix exempts what its segments lead to and no neighbour whose name
\* merely begins like it (pathHasPrefix).
ExemptBySegment ==
  \A s \in Surfaces : ~IsGRPC(s) =>
    (IsExempt(m, s) <=>
       \E p \in m.exemptPaths \ {<<>>} :
         IsPrefix(SegmentsOf(IF Last(p) = "/" THEN Front(p) ELSE p), SegmentsOf(s.path)))

\* A declaration changes the rule of a surface that has one only by being its first
\* exact entry: in no order of declarations does a segment pair weaken an exact
\* entry, or a later declaration take a surface off the list (Resolve, "an exact
\* entry wins outright").
ExactWinsOutright ==
  [][\A s \in Surfaces : Mapped(m, s) =>
       /\ Mapped(m', s)
       /\ \/ Resolve(m', s) = Resolve(m, s)
          \/ ~Exactly(m, s) /\ Exactly(m', s)]_m

================================================================================
