-------------------------------- MODULE Arrival --------------------------------
(****************************************************************************)
(* Both ends of a unary call: what the interceptor puts on a request         *)
(* (credentials.go), and which bearer the guard of the service it reaches    *)
(* takes off it (authz/guard.go, BearerFromMetadata), and when.              *)
(*                                                                          *)
(* A call may be made on behalf of somebody: its context then carries an     *)
(* authorization entry already.  The network is external: requests overtake  *)
(* one another, are late without limit, or lost.                             *)
(****************************************************************************)
EXTENDS UnaryCreds, Sequences, FiniteSets

CONSTANTS
  Guests,      \* bearers of others that a context may carry
  Basic,       \* an authorization entry of another scheme
  Nothing,     \* no request has just arrived
  MaxFlight    \* bound: requests under way at a time

ASSUME ArrivalAssumption ==
  /\ Guests \cap (Token \cup {NoToken, Fixed, Basic}) = {}
  /\ Basic \notin Token \cup {NoToken, Fixed}

VARIABLES
  got,        \* when Token() last returned to each caller
  onBehalf,   \* the entries that the context of each caller's call carries
  flight,     \* the requests under way
  heard       \* the request that has just arrived, and the bearer taken off it

arrvars == <<allvars, got, onBehalf, flight, heard>>

--------------------------------------------------------------------------------
\* Mutant of Outgoing: the client's own entry goes first.
OwnFirst(m) == (IF m.own = NoToken THEN <<>> ELSE <<m.own>>) \o m.carried

\* metadata.AppendToOutgoingContext: the authorization entries of request m.
Outgoing(m) == m.carried \o (IF m.own = NoToken THEN <<>> ELSE <<m.own>>)

\* Bearer: the token of an entry, "" for another scheme.
Bearer(entry) == IF entry = Basic THEN NoToken ELSE entry

\* BearerFromMetadata: the first entry counts.
BearerFromMetadata(entries) ==
  IF entries = <<>> THEN NoToken ELSE Bearer(entries[1])

ArrInit ==
  /\ CredsInit
  /\ got = [c \in Callers |-> 0]
  /\ onBehalf = [c \in Callers |-> <<>>]
  /\ flight = {} /\ heard = Nothing

\* A call begins, under a context with an entry or with none.
Enter(c) ==
  /\ Intercept(c)
  /\ \E entries \in {<<>>} \cup {<<e>> : e \in Guests \cup {Basic}} :
       onBehalf' = [onBehalf EXCEPT ![c] = entries]
  /\ heard' = Nothing
  /\ UNCHANGED <<got, flight>>

\* A step of the source for c; it is noted when Token() returns.
Fetch(c) ==
  /\ Step(c) \/ Answer(c)
  /\ got' = IF pc'[c] = "returned" THEN [got EXCEPT ![c] = now] ELSE got
  /\ heard' = Nothing
  /\ UNCHANGED <<rpcvars, onBehalf, flight>>

\* The interceptor sends the request of c.
Depart(c) ==
  /\ Cardinality(flight) < MaxFlight
  /\ Invoke(c)
  /\ flight' = flight \cup
       {[by |-> c, carried |-> onBehalf[c], own |-> TokenOf(c), got |-> got[c]]}
  /\ heard' = Nothing
  /\ UNCHANGED <<got, onBehalf>>

\* A request reaches the guard, in whatever order.
Deliver(m) ==
  /\ m \in flight
  /\ flight' = flight \ {m}
  /\ heard' = [req |-> m, bearer |-> BearerFromMetadata(Outgoing(m)), at |-> now]
  /\ UNCHANGED <<allvars, got, onBehalf>>

ArrNext ==
  \/ Tick /\ heard' = Nothing /\ UNCHANGED <<rpcvars, got, onBehalf, flight>>
  \/ \E c \in Callers : Enter(c) \/ Fetch(c) \/ Depart(c)
  \/ \E m \in flight : Deliver(m)

ArrSpec == ArrInit /\ [][ArrNext]_arrvars

--------------------------------------------------------------------------------
\* What is left of token tok's life at time t, if the endpoint did not overstate it,
\* exceeds the refresh margin less one fetch.
InMargin(tok, t) ==
  TTL(tok.says) <= tok.life => tok.dies - t > SkewOf(TTL(tok.says)) - FetchLimit

\* Request m left with the token that its source had returned at time m.got.
Departed(m) ==
  /\ m.by \in Callers /\ m.got \in Nat /\ m.got <= now
  /\ m.by \in Cached => m.own \in Token \cup {NoToken}
  /\ m.by \notin Cached => m.own \in {NoToken, Fixed}
  /\ m.carried \in {<<>>} \cup {<<e>> : e \in Guests \cup {Basic}}
  /\ m.by \in Cached /\ m.own # NoToken => InMargin(m.own, m.got)

\* The inductive invariant: what callers hold, what is under way and what arrived was
\* in the margin when its source returned it.
ArrInv ==
  /\ CredsInv
  /\ got \in [Callers -> Nat]
  /\ \A c \in Callers : got[c] <= now
  /\ onBehalf \in [Callers -> {<<>>} \cup {<<e>> : e \in Guests \cup {Basic}}]
  /\ \A c \in Callers : pc[c] = "returned" /\ ret[c] # NoToken => InMargin(ret[c], got[c])
  /\ \A m \in flight : Departed(m)
  /\ heard # Nothing =>
       /\ Departed(heard.req) /\ heard.at \in Nat
       /\ heard.bearer = BearerFromMetadata(Outgoing(heard.req))

\* A request finds its token alive at the callee if, since Token() returned it, no more
\* time went by than the refresh margin has beyond one fetch: so much delay the skew of
\* the cache pays for, and the callee's verification is part of it.
TimelyRequestsAreAlive ==
  heard # Nothing =>
    LET m == heard.req
        tok == heard.bearer
    IN  /\ m.by \in Cached /\ tok \notin Guests \cup {NoToken}
        /\ TTL(tok.says) <= tok.life
        /\ (heard.at - m.got) + FetchLimit <= SkewOf(TTL(tok.says))
        => heard.at < tok.dies

\* A call on somebody's behalf is never decided as the client's own, not even where
\* what the context carries is no bearer; and no other call is decided as anything else
\* (AppendToOutgoingContext here, the first entry there).
ForwardedIdentityWins ==
  heard # Nothing =>
    IF heard.req.carried = <<>> THEN heard.bearer = heard.req.own
    ELSE heard.bearer \in Guests \cup {NoToken}

================================================================================
