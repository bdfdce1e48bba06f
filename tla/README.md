# The maintainerd SDK in TLA+

TLA+ modules of the Go packages in this repository, the TLC runs that check them
on small instances, and proofs for every size of instance. `PROJECT.json` lists the
components, the runs, a mutant of the code for every property, the source lines
behind every definition, and the hazards the properties are aimed at.

```
tlc -workers 2 -config MCGuard.cfg MCGuard        # one run
tlapm GuardProofs.tla                             # one module of proofs
```

## The system

The SDK has two sides. A **caller** builds a client with credentials; each of its
unary calls asks the credentials for a token and puts it on the request. A **callee**
(a resource server) verifies the token, decides at the door whether the surface is
open to it, and in the handler whether the operation on one resource is.

```
 caller:   sdk.New -> unaryCredsInterceptor -> Credentials.Token
                                                 cachedTokenSource -> token endpoint (Auth)
 callee:   authz.Resolve -> Guard.Check -> VerifyFunc (auth.Verifier, JWKS)
                              |  Map.IsExempt, Map.Resolve          (surface: layer 1)
                              |  Principal.Allows / HasAction
                              v
                           handler -> Allows, RequirePermission     (operation: layer 2)
```

| component | state | operations | talks to | what is hard | what makes it correct |
|---|---|---|---|---|---|
| token cache (`tokensource.go`) | mutex, token, expiry | `Token` | token endpoint, by `fetch` under the mutex | goroutines that miss together, late and lost answers, expiry arithmetic | one refresh at a time, tokens in order, cached tokens still alive, every call returns |
| OAuth2 flows (`tokensource.go`) | none | `ClientCredentials`, `PrivateKeyJWT`, `postToken` | the endpoint | ends of a fetch; 64-bit ttl | a failed fetch leaves the cache alone |
| interceptor (`credentials.go`) | none of its own | `unaryCredsInterceptor` | credentials, gRPC | errors of the source, order of requests | order of bearers, every call is sent |
| client (`sdk.go`) | connections, verifier | `New`, `Close` | gRPC, JWKS | failure half-way, a context that ends | what was opened is closed, nothing half-built is handed out |
| secret client (`secret/`) | none | pass-through calls | gRPC | - | - |
| discovery (`auth/discovery.go`) | none | `Discover` | Auth | - | - |
| verifier (`auth/verifier.go`) | JWKS cache (library) | `NewVerifier`, `Verify`, `Middleware`, `RequireScope` | JWKS endpoint | key rotation, context of the refresh, gates in a wrong order | only Auth's tokens pass a gate, a missing gate refuses, rotation arrives |
| resource names (`mrn/`) | none | `Parse`, `ParsePattern`, `Matches` | - | wildcard placement, colons | one reading per text; a wildcard stops at a colon |
| grants (`authz/authz.go`) | none | `ParseGrants`, `Allows`, `HasAction` | `mrn` | malformed entries, blanket actions | the layers agree, entries are independent, tenants apart |
| surface map (`authz/permissions.go`) | the table | `Resolve`, `IsExempt`, `DeclaredPermissions` | - | spellings, precedence, prefixes | one rule per surface; demanded = declared |
| guard (`authz/guard.go`) | none of its own; the principal per request | `Check`, middleware, interceptors, `RequirePermission` | verifier, map, grants | shared principals, check order, nil verifier | each request decided as if alone |
| start-up (`authz/startup.go`) | the posture | `Resolve`, `LogBanner` | verifier | partial configuration | three rungs and no fourth |
| adapter (`authz/adapter.go`) | none | `SDKVerify`, `PrincipalFromClaims` | verifier | two claim shapes, actor kinds | both shapes mean the same, no machine flow passes for a human |

## The modules

| module | models | state and actions |
|---|---|---|
| `TokenSource` | `cachedTokenSource`, `postToken` | `mu`, `token`, `exp` are the struct's fields; `pc` is where a goroutine is in `Token`. `Call`, `Lock`, `Hit`, `Miss`, `Store`, `FetchFails` are its steps, `Mint` and `Tick` the endpoint and the clock |
| `TokenPromise` | what a shared token source promises: the abstract specification | `value`, `waiting`, `ret`; a call is asked, and answered in one step |
| `UnaryCreds` | the interceptor, over `TokenSource` | `rpc` and `bearer` per caller; `Intercept`, `Invoke`. `latest` and `floor` are history |
| `Arrival` | both ends of a call, over `UnaryCreds`: `AppendToOutgoingContext` there, `BearerFromMetadata` here, a network between them | `got`, `onBehalf` per caller, `flight`, `heard`; `Enter`, `Fetch`, `Depart`, `Deliver` |
| `Mrn` | the package `mrn` | no state: operators over texts |
| `Grants` | `Grant`, `Principal` | no state: `ParseGrant`, `Allows`, `HasAction`, ... over `Mrn` |
| `ClaimsAdapter` | from decoded claims to a `Principal`, over `Grants` | no state: `ClaimsOf`, `PrincipalFromClaims`, `ActorKindFromClaims` |
| `Entitlements` | a claim list that changes from token to token | `scopes`; `Widen`, `Narrow` |
| `SurfaceMap` | `Map`, over `Grants` | no state: `Resolve`, `IsExempt`, `DeclaredPermissions`, ... |
| `SurfaceTable` | a service that fills its `Map` | `m`; one action per kind of declaration |
| `SdkClient` | `New`, `Close`, `NewVerifier`, and the key cache as its library keeps it | `phase`, `config`, `conn`, `secret`, `verifier` per client, `ctx` (the context of `New`), `published` (Auth's keys), `known`, `refreshing`; `New`, `Dial`, `Prepare` and their failures, `Close`, `EndContext`, `Publish`, `Withdraw`, `Refresh` |
| `Verifier` | handlers behind gates of `auth` and `authz`, several enforcing guards among them, over `SdkClient`, `ClaimsAdapter` and `SurfaceMap` | `req`, `at`, `claims`, `holder`, `status` per request; `Arrive`, `Authenticate`, `RequireScope`, `Enforce`, `RequirePermission`, `Handle` |
| `GuardPromise` | what guards promise: the abstract specification | a request is asked, decided at one moment, and handled |
| `Guard` | `Check` in steps, `Resolve`, handlers, over `SurfaceMap` | `guard` and `env` (start-up), `heap` (principals of the verifier's cache), `req`, `pc`, `who`, `out`, `op` per request; `Boot`, `Assemble`, `Arrive`, `Admit`, `Verified`, `Refused`, `Adopt`, `Judge`, `Handle` |

`MC*` modules instantiate these for TLC, `*Proofs` modules hold the theorems.
Definitions keep the names of the source where they have one there.

Texts (names, grants, paths) are sequences of tokens: the separators the code
tests stand for themselves, and letters are the classes its grammar tells apart
(`Lower`, `Upper`, `Unprintable`). Wording, status codes, JSON and logging are left
out. What is not in this repository is external: the endpoint's minting, the clock,
Auth's keys, its changes to a claim list and the scope strings it mints, the key cache of the verifier's library,
a service's declarations and the order in which it wraps its gates. `Guard` takes the
outcome of `Verify` as external, because a service may bring a `VerifyFunc` of its own;
`Verifier` opens it up for the SDK's own. Its `Enforce` is the whole of an enforcing guard's
middleware in one step (no other request can touch a principal that `SDKVerify` has just
made): allowlist, verification, the guard's blanket actions, table, actor, permission on the
resource or on the action. The other postures, and a verifier that caches, are in `Guard`.

A claim is a text, a list, or `Other` (absent, or of another Go type): the code reads
claims by type assertion and tells no more apart. So a `sub_type` that is no string is
the same as none, and rule 5 of `ActorKindFromClaims` makes its bearer a user; Auth mints
strings there (`AuthContract`). `auth.Claims.HasScope` reads the scope string only; the
`permissions` array counts for `authz`'s checks and not for `RequireScope`.

Where a step of the code is one action, nothing in it can be seen by another
goroutine: `Store` runs under the mutex; `Judge` reads values that only its own
request, or nobody, writes. `Check` in `Guard` is cut before and after `Verify`, and at the
copy of the principal, because there other requests can come between.

## The runs

| run | asks | instance and bounds | answer |
|---|---|---|---|
| `TokenSource` | the cache's safety | two callers, seven clock units, three tokens; lifetimes at the margin, above it and beyond the 64-bit wrap, stated or omitted; a fetch takes up to two units | holds (497,000 states) |
| `ShortLivedTokens` | "a call never rides an about-to-expire token" | the shipped 30 s, 5 min and 15 s; tokens of 20 s | **violated**, see below |
| `UnaryCreds` | order and liveness of requests | two callers on one source, one with a fixed token; two tokens, one refresh | holds |
| `AttachedTokens` | "attaches the caller's identity token to every request" | the same | **violated** |
| `Mrn` | parsing and matching against a reference definition, `Denotes` | every text of up to nine tokens, against nine resources | holds (1.9 million texts) |
| `Entitlements` | the decisions over all claim lists | 11 entries of every shape (2,048 lists), eight resources in two services and two tenants | holds |
| `BareGrants` | "equivalent to `=mrn:<service>:*:*:*`" | the same | **violated** |
| `MalformedGrants` | "a malformed pattern is treated as no grant" | the same | **violated** |
| `SurfaceTable` | every table and every order of filling it | two exact keys, a segment, a method, three exemptions, three rules; prefixes `/api/` and none; three verbs, ten paths | holds (20,480 tables) |
| `Arrival` | does a token that was returned in time arrive in time, and whose identity is decided | one caller on a cached source, a token of life 5 kept for 3, fetches of up to 1, two requests under way, one foreign bearer and one entry of another scheme; six clock units, two tokens | holds (1.1 million states) |
| `Verifier` | gates while keys rotate and a client is built, fails and closes | one client with three configurations, two keys, one request; nine tokens (each flow, a foreign audience, a forged signature, a permissions array, an administrator of one resource), one that expires; ten handlers: chains in the right order and in wrong ones, two guards with different blanket actions, resources, an exempt and an unmapped surface | holds (123,250 states) |
| `Guard` | concurrent requests against `GuardPromise` | two guards with different blanket actions, four environments, a caching and a missing verifier, two requests, two good tokens and two forged ones, four surfaces | holds (189,146 states) |

Why the bounds are enough. *Token cache*: a redundant fetch or an overwritten token
needs two callers, and an old token in the cache needs a second token, so three leave
one to spare; seven units are a fetch, a whole life and a second fetch. *Names*: five
parts with a wildcard in each and a colon in the path fit in nine tokens. *Grants*: the
decisions look at one entry at a time, which is a theorem, so two entries of each shape
show everything. *Tables*: the lookup reads one entry of each table. *Guard*: requests
meet only in the verifier's cache, under one token, so two of them with two guards are
every conflict, and two forged tokens are enough to be told apart. *Arrival*: two requests under way are enough to overtake one another,
and six units are a fetch, a whole life and a late delivery. *Verifier*: requests share
nothing but the verifier, which they only read, so one request against every rotation
shows what several would; two keys give a withdrawn and a new one. The proofs below need
no bound at all.

`MaxTime`, `MaxMinted` (token cache), `MaxFlight` (arrival), `Mortal` (the tokens that may
expire) and `MaxLength` (names) are bounds of the models; `Mrn` and `SurfaceTable` stop
when a text is as long, or a table as full, as it may be, `Arrival` when its clock and
its calls are used up, and their configurations do not look for deadlocks.

### What the code does not do as documented

* `tokensource.go:52`, "so a call never rides an about-to-expire token". The expiry is
  counted from the arrival of the answer, and for lives up to 30 s the margin is half of
  the life. A token of 20 s whose answer was 15 s late is returned after its end. From
  30 s on the margin covers the default time-out: `CachedTokenOutlivesReturn`.
* `sdk.go:38`, "to every request". `credentials.go:36` drops the error of `Token` and
  sends the request without a bearer.
* `authz.go:77`, a bare action "equivalent to `=mrn:<service>:*:*:*`". `Allows` does not
  look at the service of the resource.
* `authz.go:209`, a malformed pattern "is treated as no grant". `secret:Get=` is read as
  the bare `secret:Get`, because the empty pattern is how `Grant` says service-wide.

### What the properties that hold leave open

* `RotationReachesVerifiers` ends with the context that `New` (or `authz.Resolve`) was called
  with. A client built under a start-up time-out keeps the keys it had when that ran out,
  and `verifier.go:27`, "automatic key rotation", is true of the time before. `Close` does
  not end the refresh either; only the context does.
* `TimelyRequestsAreAlive` needs a margin: at the shipped numbers 30 s less one fetch of up to
  15 s are left for the way. It reads both ends on one clock.
* `ForwardedIdentityWins`: a call made in a context that already carries an authorization
  entry goes out with two, and the callee reads the first; the client's own credentials
  then count for nothing, even where the first is of another scheme and so no bearer.
* A streaming call leaves without a bearer: `New` registers an interceptor for unary calls
  only (`sdk.go:64`).

## Fairness

Liveness is checked in two runs. In `UnaryCreds`, every `Token` call returns and every call is
sent. It assumes what the code has. `sync.Mutex` hands the lock to a waiter that starved
for a millisecond, so a goroutine that waits is not passed over for ever: strong
fairness of `Lock`. A goroutine that holds the lock, or is in the interceptor, goes on:
weak fairness of `Hit`/`Miss` and `Invoke`. A fetch ends because the HTTP client has a
time-out (15 s unless the caller brings a client; one without a time-out has no such
promise): weak fairness of `Store`/`FetchFails`. Nothing is assumed of the endpoint: it
may fail for ever, and callers make no call they do not want to.

In `Verifier`, a rotation reaches a verifier while its context lives. It assumes that the
key cache is read again and again while it may be (weak fairness of `Refresh`), which is
what `keyfunc.NewDefaultCtx` starts its goroutine for. Nothing is assumed of Auth, of the
client or of requests.

## The proofs

All theorems are stated for every value of the constants under the assumptions that the
modules name. TLC evaluates those on every run.

* **`TokenSourceProofs`** (`TokenSourceAssumption`). `NoRedundantFetch` is not inductive
  by itself: that the cache is not usable during a fetch needs that nobody else fills it,
  hence `HolderAlone` (past `Lock` there is the holder and nobody else). That tokens
  never go backwards needs that the answer on its way is newer than what is cached
  (`ReplyIsNews`) and what is cached at least as new as what was returned
  (`CacheIsLatest`). That a cached token is alive needs how late an answer can be
  (`FetchInTime`) and what the expiry owes the token's end (`ExpiryIsEarly`). `IInv` is
  their conjunction; each action has a lemma, and the two action properties follow from
  it in one step.
  `SourceKeepsPromise` shows that `TokenSource` implements `TokenPromise`: a miss is answered
  when its fetch is stored, a hit when it is read, and every other step is invisible.
  That the token a miss replaces is older is `ReplyIsNews`.
* **`UnaryCredsProofs`** adds the requests: `LatestIsCached` (what was ever sent has been
  cached and not outdone) and `GotNoOlder` (what a call got is no older than what had
  left before it began) to `IInv`, and shows that the source keeps them.
* **`ArrivalProofs`** (`ArrivalAssumption`: guests' bearers are not the client's). `ArrInv` carries
  the margin along: what `CachedTokenOutlivesReturn` says of the moment of return is
  noted per caller, copied to each request as it leaves, and read when it arrives. The
  steps of the source are those of `UnaryCredsProofs`; what is new is that time passes
  between them.
* **`MrnProofs`** proves its properties of texts of every length without induction over
  the text. The k-th colon exists and is unique because a non-empty set of numbers has a
  least element, which the library has as a theorem (`LeastExists`, `NextColon`,
  `ColonIs`); the parts and the colons between them are then adjacent subsequences of the
  text and concatenate to it (`SplitReadsBack`). A resource is no wildcard because its
  segments hold no `*` and its path does not end in one, so matching is equality of
  parts, and equal parts are equal texts.
  `GlobOfAnyText` compares matching with the glob reading of a pattern, `Denotes`: the
  pattern laid over the resource, letter on like letter, each `*` stretched over a run.
  Such a layout is where it is because of the last `*` before (`Ends`, `RunEnds`), so a
  part without a `*` is laid on letters like its own (`PlainRun`) and a layout that is on
  the k-th colon of the resource takes the k-th part to the next colon (`LaidHead`:
  a wildcard of the head covers no colon, and no segment has one). In the other direction
  `Stretch` is the layout: a part that matches takes it from colon to colon (`HeadLaid`).
  What is left is the path, whose only `*` is at its end (`PathLaid`).
* **`EntitlementsProofs`**. `Allows` of a list is the disjunction of `Allows` of its entries
  (`GrantsByEntry`, `AllowsByGrant`); `EntryByEntry`,
  `LayersAgree` and `BlanketStaysInside` follow. They hold in every state, so no induction
  is needed, and nothing about `Mrn` but that matching is a function of pattern and
  resource. `TenantsStayApart` needs the text itself: `ParseGrant`
  trims an entry before it looks for the `=`, the property looks for it in the entry as it
  was minted, and `PatternOfEntry` shows that both find the same pattern.
  `OneMeaningOfTwoShapes` (`ScopeContract`: a scope string holds the words that were said,
  in any order, and blanks between them) shows that cutting the string at its blanks
  gives those words back: a word is a field because it stands between blanks
  (`WordInPlace`, `IsField`), and a field has a letter, which is in some word, which then
  is that field (`FieldsAre`). The blank entry in an array is none (`BlankIsNoGrant`).
* **`SurfaceTableProofs`**. Each branch of `Resolve` reads a table that
  `DeclaredPermissions` walks. For the order of declarations, `Shape` says that a table
  is made of functions, so that declaring a new key leaves the old ones as they were.
  `SpellingIsNoMatter` (`TableAssumption`: no exempt prefix ends in two slashes, since
  `pathHasPrefix` trims only one) follows what a slash at the end of a text does to
  `trimTrailingSlash`, `UpToSlash`, `FirstSegment` and `pathHasPrefix`; their first and
  last places exist by `LeastExists` and `GreatestExists`.
  `ExemptionGoesBySegment` compares `pathHasPrefix`, which compares texts, with the
  segments of both, which are counted by the slashes before them (`SegmentIs`). A path that has
  the segments of the prefix repeats it up to each slash: at the first slash that it
  missed a segment would differ (`SegmentsRepeat`). A path that repeats the prefix up to a
  slash has the prefix's slashes so far, and so its segments (`LedBySegments`).
* **`GuardProofs`** (`GuardAssumption`: a built guard is not the nil pointer). `IInv` says
  what each request holds, at each step, in terms of its own token and guard alone
  (`HoldsItsOwn`), and that what it was told is the promise's verdict (`ToldTheVerdict`).
  The step that matters is `Adopt`: it copies, so what the other requests share stays
  what the token says. With `IInv`, every step of `Guard` is a step of `GuardPromise` or
  none: `Check` takes effect when it answers. `UnverifiedLearnNothing` (two bad tokens get
  the same answer on any two surfaces) and `ServedByTheLadder` follow from the verdict.
* **`VerifierProofs`** (`ClientAssumption`, `ChainAssumption`, `AuthContract`: what Auth promises
  of the claims it mints). `ClientInv` says what there is of a client in each phase of
  its life. `Vouched` says that a request has the assurance of every gate before the one
  it is at, in terms of its own token, and that what the gates put in its context is what
  they make of that token: the claims are its claims, and the principal is its principal as
  the nearest guard that did not exempt the surface adopted it (`Nearest`, `HolderAt`), with
  that guard's blanket actions if it has any. So a permission that `RequirePermission` finds
  was granted by the token or implied by a blanket action of that guard, never of one further
  out. It holds through rotation because
  `Genuine` speaks of the keys that were ever published (`KeysAreIssued`), which only
  grow. `FlowsAreToldApart` is the one theorem that needs `AuthContract`.

Only model-checked: the three liveness properties, since fairness and `ENABLED` are beyond
the prover. Every invariant and every other action property of the passing runs is a
theorem. The reference definitions (`Denotes`, `SegmentsOf`, the scope strings of
`MintedAs`) are written with sets, functions and `CHOOSE`, never by recursion, and where
an argument would be an induction over a text it takes the least place at which the claim
fails. The four violated properties are shown by their counterexamples.

## Not modelled

The secret client and `Discover`: each operation is one remote call with an error return,
without state, branches or anything of its own that two callers could meet in. PEM
parsing and the signing of assertions are cryptography; their failure is `FetchFails`.
What the constructors of credentials check of their arguments has no state. Header
parsing, status codes, error bodies and `LogBanner` are wording.

Also outside: streams after they were opened (the only check is at the door); two clocks
that disagree; the wait of a caller whose context ended while it was blocked on the mutex
(the code does not look at the context there, and neither does `Lock`); an `Exact` key that
is not canonical, which `Resolve` can never find because `ExactKey` returns no such key.

## Plan

Done: all modules above and their proofs. Further work, in this order:

1. `Registration`: a table, what set-up registered in Auth, tokens that carry it, and a new
   version of the table while the old one still serves.
2. `Arrival` with `Verifier` at its end in place of the reading of a clock, so that key rotation
   and a cached token meet: a token signed by a key that was withdrawn while it was cached.
