------------------------------ MODULE SurfaceMap -------------------------------
(****************************************************************************)
(* The surface->permission table of a service (authz/permissions.go): which *)
(* rule a request meets at the door, which surfaces have no guard, and      *)
(* which permissions setup registers in Auth.                               *)
(*                                                                          *)
(* Paths are sequences of the tokens "/" and words; a word may stand for a  *)
(* part of a segment, so that setup and setup-admin differ by one token.    *)
(* Permissions are action texts; verbs and gRPC methods are plain strings.  *)
(****************************************************************************)
EXTENDS Grants

CONSTANTS
  Upcase,     \* strings.ToUpper(strings.TrimSpace(verb)), for every verb sent
  NoHook      \* Map.RouteKey is nil

Actor == {"any", "user-only", "service-only"}

\* Actor.Permits: a restricted surface refuses a kind it does not know.
Permits(actor, kind) ==
  CASE actor = "user-only"    -> kind = "user"
    [] actor = "service-only" -> kind = "service"
    [] OTHER                  -> TRUE

\* A surface has a path and a verb, or a gRPC method.
IsGRPC(s) == s.method # ""

--------------------------------------------------------------------------------
(* Keys.                                                                     *)

trimTrailingSlash(path) ==
  LET ends == {n \in 1..Len(path) : n = 1 \/ path[n] # "/"}
  IN  SubSeq(path, 1, CHOOSE n \in ends \cup {0} : \A k \in ends : k <= n)

\* Mutant of ExactKey: the path is taken as it came.
PlainKey(verb, path) == <<Upcase[verb], path>>

ExactKey(verb, path) == <<Upcase[verb], trimTrailingSlash(path)>>

\* The path up to its first "/".
UpToSlash(path) ==
  LET slashes == {i \in 1..Len(path) : path[i] = "/"}
  IN  IF slashes = {} THEN path
      ELSE SubSeq(path, 1, (CHOOSE i \in slashes : \A j \in slashes : i <= j) - 1)

FirstSegment(prefix, path) ==
  CASE prefix = <<>> ->
         UpToSlash(IF IsPrefix(<<"/">>, path) THEN Tail(path) ELSE path)
    [] prefix # <<>> /\ IsPrefix(prefix, path) ->
         UpToSlash(SubSeq(path, Len(prefix) + 1, Len(path)))
    [] OTHER -> <<>>

\* Map.routeKey.
routeKey(m, s) ==
  IF m.routeKey = NoHook THEN FirstSegment(m.prefix, s.path) ELSE m.routeKey[s]

\* Mutant of pathHasPrefix: strings.HasPrefix.
startsWith(path, prefix) == prefix # <<>> /\ IsPrefix(prefix, path)

\* path is prefix or lies beneath it.
pathHasPrefix(path, prefix) ==
  /\ prefix # <<>>
  /\ LET p == IF Last(prefix) = "/" THEN Front(prefix) ELSE prefix
     IN  path = p \/ IsPrefix(p \o <<"/">>, path)

--------------------------------------------------------------------------------
(* Decisions.                                                                *)

\* Map.Exempt is the set of surfaces that the hook exempts, {} if it is nil.
IsExempt(m, s) ==
  \/ s \in m.exempt
  \/ IsGRPC(s) /\ s.method \in m.exemptMethods
  \/ ~IsGRPC(s) /\ \E prefix \in m.exemptPaths : pathHasPrefix(s.path, prefix)

Exactly(m, s) == ~IsGRPC(s) /\ ExactKey(s.verb, s.path) \in DOMAIN m.exact

\* Resolve reports ok.
Mapped(m, s) ==
  IF IsGRPC(s) THEN s.method \in DOMAIN m.methods
  ELSE Exactly(m, s) \/ routeKey(m, s) \in DOMAIN m.routes

\* A gRPC method's rule: any actor, unless Actors has an entry.
MethodRule(m, method) ==
  [permission |-> m.methods[method],
   actor |-> IF method \in DOMAIN m.actors THEN m.actors[method] ELSE "any"]

\* The rule of a route's pair for the verb.
SegmentRule(m, s) ==
  LET pair == m.routes[routeKey(m, s)]
  IN  IF s.verb \in {"GET", "HEAD"} THEN pair.read ELSE pair.write

\* Mutant of Resolve: the segment pair is asked first.
ResolveBySegment(m, s) ==
  IF IsGRPC(s) THEN MethodRule(m, s.method)
  ELSE IF routeKey(m, s) \in DOMAIN m.routes THEN SegmentRule(m, s)
  ELSE m.exact[ExactKey(s.verb, s.path)]

\* The rule that Resolve returns for a mapped surface.
Resolve(m, s) ==
  IF IsGRPC(s) THEN MethodRule(m, s.method)
  ELSE IF Exactly(m, s) THEN m.exact[ExactKey(s.verb, s.path)]
  ELSE SegmentRule(m, s)

ExactPermissions(m) == {m.exact[k].permission : k \in DOMAIN m.exact}

RoutePermissions(m) ==
  UNION {{m.routes[k].read.permission, m.routes[k].write.permission} : k \in DOMAIN m.routes}

MethodPermissions(m) == {m.methods[k] : k \in DOMAIN m.methods}

\* Mutant of DeclaredPermissions: it walks the routes and the methods.
DeclaredByRoute(m) ==
  (RoutePermissions(m) \cup MethodPermissions(m)
     \cup m.operations \cup (m.blanket \ {WildcardAction})) \ {<<>>}

DeclaredPermissions(m) ==
  (ExactPermissions(m) \cup RoutePermissions(m) \cup MethodPermissions(m)
     \cup m.operations \cup (m.blanket \ {WildcardAction})) \ {<<>>}

================================================================================
