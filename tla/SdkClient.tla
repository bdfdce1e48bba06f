------------------------------- MODULE SdkClient -------------------------------
(****************************************************************************)
(* sdk.New and Close, and the token verifier that New builds (sdk.go,        *)
(* auth/verifier.go: NewVerifier).                                           *)
(*                                                                          *)
(* A client dials the services that its Config names, then prepares a        *)
(* verifier, under a context that its caller may end at any time.  External: *)
(* gRPC's connections; Auth, which publishes signing keys and withdraws      *)
(* them; and the key cache of a verifier, refreshed by its library from      *)
(* Auth's key endpoint for as long as the context lives.                     *)
(****************************************************************************)
EXTENDS Naturals

CONSTANTS
  Clients,   \* the clients of the process
  Configs,   \* the Config values they are built from
  Keys,      \* Auth's signing keys
  None       \* a nil pointer; no Config yet

\* A Config says whether SecretAddr and AuthJWKSURL are set, and what issuer and
\* audience to check.
ASSUME ClientAssumption ==
  /\ \A f \in Configs : f.secret \in BOOLEAN /\ f.jwks \in BOOLEAN
  /\ None \notin Configs

VARIABLES
  published,   \* the keys at Auth's key endpoint
  ctx,         \* whether the context of each client's New is alive
  phase,       \* where each client is in its life
  config,      \* the Config of each client
  conn,        \* the connection of each client: "none", "open" or "shut"
  secret,      \* whether Client.Secret is set
  verifier,    \* Client.Auth: what it checks
  known,       \* external: the keys in the cache of each verifier
  refreshing   \* external: whether that cache is refreshed

cache == <<known, refreshing>>
clientvars == <<published, ctx, phase, config, conn, secret, verifier, cache>>

--------------------------------------------------------------------------------
ClientInit ==
  /\ published \in SUBSET Keys
  /\ ctx = [c \in Clients |-> "alive"]
  /\ phase = [c \in Clients |-> "unborn"]
  /\ config = [c \in Clients |-> None]
  /\ conn = [c \in Clients |-> "none"]
  /\ secret = [c \in Clients |-> FALSE]
  /\ verifier = [c \in Clients |-> None]
  /\ known = [c \in Clients |-> {}]
  /\ refreshing = [c \in Clients |-> FALSE]

\* External: Auth publishes a key, or withdraws one.
Publish(k) ==
  /\ k \notin published
  /\ published' = published \cup {k}
  /\ UNCHANGED <<ctx, phase, config, conn, secret, verifier, cache>>

Withdraw(k) ==
  /\ k \in published
  /\ published' = published \ {k}
  /\ UNCHANGED <<ctx, phase, config, conn, secret, verifier, cache>>

\* New is called.
New(c) ==
  /\ phase[c] = "unborn"
  /\ \E f \in Configs : config' = [config EXCEPT ![c] = f]
  /\ phase' = [phase EXCEPT ![c] = "dialing"]
  /\ UNCHANGED <<published, ctx, conn, secret, verifier, cache>>

\* The secret service is dialled, if its address is set.
Dial(c) ==
  /\ phase[c] = "dialing"
  /\ IF config[c].secret
     THEN /\ conn' = [conn EXCEPT ![c] = "open"]
          /\ secret' = [secret EXCEPT ![c] = TRUE]
     ELSE UNCHANGED <<conn, secret>>
  /\ phase' = [phase EXCEPT ![c] = "preparing"]
  /\ UNCHANGED <<published, ctx, config, verifier, cache>>

\* conn.Close() on what was dialled.
Shut(c) == [conn EXCEPT ![c] = IF @ = "open" THEN "shut" ELSE @]

\* New returns an error, and no client: what had been dialled was closed before.
Fail(c) ==
  /\ phase' = [phase EXCEPT ![c] = "failed"]
  /\ conn' = Shut(c)
  /\ secret' = [secret EXCEPT ![c] = FALSE]
  /\ UNCHANGED <<published, ctx, config, verifier, cache>>

\* grpc.NewClient refuses the address.
DialFails(c) == phase[c] = "dialing" /\ config[c].secret /\ Fail(c)

\* External: the library reads the keys once before it returns, and bears with an
\* endpoint that does not answer.
FirstRead(c) == {{}} \cup (IF ctx[c] = "alive" THEN {published} ELSE {})

\* NewVerifier; the refresh of the keys goes on while `on' holds.
NewVerifier(c, on) ==
  /\ verifier' = [verifier EXCEPT ![c] = [issuer |-> config[c].issuer,
                                          audience |-> config[c].audience]]
  /\ \E read \in FirstRead(c) : known' = [known EXCEPT ![c] = read]
  /\ refreshing' = [refreshing EXCEPT ![c] = on]

\* Mutant of Prepare: the context that the refresh is bound to ends with New.
PrepareBriefly(c) ==
  /\ phase[c] = "preparing"
  /\ IF config[c].jwks THEN NewVerifier(c, FALSE) ELSE UNCHANGED <<verifier, cache>>
  /\ phase' = [phase EXCEPT ![c] = "ready"]
  /\ UNCHANGED <<published, ctx, config, conn, secret>>

\* The verifier is built under the context of New, if a key URL is set, and New
\* returns the client.
Prepare(c) ==
  /\ phase[c] = "preparing"
  /\ IF config[c].jwks THEN NewVerifier(c, ctx[c] = "alive")
     ELSE UNCHANGED <<verifier, cache>>
  /\ phase' = [phase EXCEPT ![c] = "ready"]
  /\ UNCHANGED <<published, ctx, config, conn, secret>>

\* Mutant of PrepareFails: New returns the error and leaves the rest.
PrepareFailsOpen(c) ==
  /\ phase[c] = "preparing" /\ config[c].jwks
  /\ phase' = [phase EXCEPT ![c] = "failed"]
  /\ secret' = [secret EXCEPT ![c] = FALSE]
  /\ UNCHANGED <<published, ctx, config, conn, verifier, cache>>

\* NewVerifier fails: the URL is unusable.
PrepareFails(c) == phase[c] = "preparing" /\ config[c].jwks /\ Fail(c)

\* Close.  The sub-clients stay, and so does the refresh of the verifier.
Close(c) ==
  /\ phase[c] = "ready"
  /\ phase' = [phase EXCEPT ![c] = "closed"]
  /\ conn' = Shut(c)
  /\ UNCHANGED <<published, ctx, config, secret, verifier, cache>>

\* The context that New was called with is cancelled or times out.
EndContext(c) ==
  /\ ctx[c] = "alive" /\ phase[c] # "unborn"
  /\ ctx' = [ctx EXCEPT ![c] = "done"]
  /\ refreshing' = [refreshing EXCEPT ![c] = FALSE]
  /\ UNCHANGED <<published, phase, config, conn, secret, verifier, known>>

\* External: the library reads Auth's keys again.
Refresh(c) ==
  /\ refreshing[c] /\ known[c] # published
  /\ known' = [known EXCEPT ![c] = published]
  /\ UNCHANGED <<published, ctx, phase, config, conn, secret, verifier, refreshing>>

Live(c) ==
  \/ New(c) \/ Dial(c) \/ DialFails(c) \/ Prepare(c) \/ PrepareFails(c)
  \/ Close(c) \/ EndContext(c) \/ Refresh(c)

ClientNext ==
  \/ \E k \in Keys : Publish(k) \/ Withdraw(k)
  \/ \E c \in Clients : Live(c)

ClientSpec == ClientInit /\ [][ClientNext]_clientvars

--------------------------------------------------------------------------------
\* Every variable has its type.
ClientTypeOK ==
  /\ published \subseteq Keys
  /\ ctx \in [Clients -> {"alive", "done"}]
  /\ phase \in [Clients -> {"unborn", "dialing", "preparing", "ready", "failed", "closed"}]
  /\ config \in [Clients -> {None} \cup Configs]
  /\ conn \in [Clients -> {"none", "open", "shut"}]
  /\ secret \in [Clients -> BOOLEAN]
  /\ DOMAIN verifier = Clients
  /\ known \in [Clients -> SUBSET Keys]
  /\ refreshing \in [Clients -> BOOLEAN]

\* What there is of a client at each phase of its life: what its Config asked for
\* and no more; a verifier that is refreshed has a context that lives.
Staged(c) ==
  /\ phase[c] = "unborn" <=> config[c] = None
  /\ phase[c] \in {"unborn", "dialing"} => conn[c] = "none"
  /\ phase[c] \in {"preparing", "ready"} => (conn[c] = "open" <=> config[c].secret)
  /\ phase[c] \in {"failed", "closed"} => conn[c] # "open"
  /\ secret[c] <=> phase[c] \in {"preparing", "ready", "closed"} /\ config[c].secret
  /\ IF phase[c] \in {"ready", "closed"} /\ config[c].jwks
     THEN /\ verifier[c] = [issuer |-> config[c].issuer, audience |-> config[c].audience]
          /\ refreshing[c] <=> ctx[c] = "alive"
     ELSE verifier[c] = None /\ ~refreshing[c]

\* The inductive invariant of clients.
ClientInv == ClientTypeOK /\ \A c \in Clients : Staged(c)

\* Nothing stays open behind a New that failed half-way or a client that was closed,
\* and no client that failed is left with a part to be used.
NothingLeftOpen ==
  \A c \in Clients :
    /\ phase[c] \in {"failed", "closed"} => conn[c] # "open"
    /\ phase[c] = "failed" => ~secret[c] /\ verifier[c] = None

\* A verifier is behind Auth about key k: it misses a new one, or trusts one that
\* was withdrawn.
Lags(c, k) == verifier[c] # None /\ (k \in published <=> k \notin known[c])

\* A verifier catches up with every rotation, in both directions, until the context
\* that its client was built under ends ("automatic key rotation").
RotationReachesVerifiers ==
  \A c \in Clients, k \in Keys :
    Lags(c, k) ~> (~Lags(c, k) \/ ctx[c] = "done")

================================================================================
