------------------------------ MODULE TokenSource ------------------------------
(****************************************************************************)
(* cachedTokenSource (tokensource.go): the Credentials behind               *)
(* ClientCredentials and PrivateKeyJWT.  Goroutines that share one source   *)
(* call Token(); the mutex c.mu is held from the expiry test to the return, *)
(* the request to the token endpoint included.                              *)
(*                                                                          *)
(* The endpoint is external: it mints tokens, says how long they live or    *)
(* leaves expires_in out, and its answer may be late, lost or a refusal.    *)
(* Times and durations are integers in one clock unit.                      *)
(****************************************************************************)
EXTENDS Integers

CONSTANTS
  Callers,        \* the goroutines that share the source
  NoToken,        \* the empty string where a token could be
  Nobody,         \* the mutex is free
  Skew,           \* 30 seconds
  DefaultTTL,     \* 5 minutes
  DurationLimit,  \* 2^63 ns: where a time.Duration wraps to negative
  FetchLimit,     \* longest a fetch runs: the HTTP client's Timeout
  Lifetimes,      \* lifetimes the endpoint gives to tokens
  Omits,          \* whether the endpoint may leave expires_in out
  MaxTime,        \* bound: the clock stops here
  MaxMinted       \* bound: the endpoint mints no more tokens than this

ASSUME TokenSourceAssumption ==
  /\ Skew \in Nat /\ FetchLimit \in Nat /\ MaxTime \in Nat /\ MaxMinted \in Nat
  /\ DefaultTTL \in Nat \ {0} /\ DurationLimit \in Nat \ {0}
  /\ Lifetimes \subseteq Nat \ {0}
  /\ Omits \subseteq BOOLEAN
  /\ Nobody \notin Callers

(* A minted token: its place in minting order, when it stops verifying, how *)
(* long it was given, and the expires_in the endpoint stated (0: omitted).  *)
Token == [id : Nat, dies : Nat, life : Nat, says : Nat]

VARIABLES
  now,     \* the clock time.Now() reads
  mu,      \* the caller that holds c.mu
  token,   \* c.token
  exp,     \* c.exp
  pc,      \* where each caller is in Token()
  sent,    \* when each caller's fetch began (0 outside a fetch)
  reply,   \* the endpoint's success body on its way to each caller
  minted,  \* how many tokens the endpoint has minted
  ret      \* what each caller's last Token() call returned (NoToken: an error)

vars == <<now, mu, token, exp, pc, sent, reply, minted, ret>>

--------------------------------------------------------------------------------
(* The arithmetic of postToken and Token.                                   *)

\* time.Duration(e) * time.Second in the 64 bits of a time.Duration.
Wrapped(e) == ((e + DurationLimit) % (2 * DurationLimit)) - DurationLimit

\* Mutant of TTL: the wrapped product is taken as it is.
UncheckedTTL(e) == Wrapped(e)

\* The ttl postToken reports for a stated expires_in.
TTL(e) == IF Wrapped(e) <= 0 THEN DefaultTTL ELSE Wrapped(e)

\* How early a token of this ttl is refreshed.
SkewOf(ttl) == IF ttl <= Skew THEN ttl \div 2 ELSE Skew

Usable == token # NoToken /\ now < exp

--------------------------------------------------------------------------------
Init ==
  /\ now = 0 /\ mu = Nobody /\ token = NoToken /\ exp = 0 /\ minted = 0
  /\ pc = [c \in Callers |-> "idle"]
  /\ sent = [c \in Callers |-> 0]
  /\ reply = [c \in Callers |-> NoToken]
  /\ ret = [c \in Callers |-> NoToken]

\* A goroutine calls Token().
Call(c) ==
  /\ pc[c] \in {"idle", "returned"}
  /\ pc' = [pc EXCEPT ![c] = "locking"]
  /\ UNCHANGED <<now, mu, token, exp, sent, reply, minted, ret>>

\* Mutant of Lock: the mutex lets a second caller in.
SharedLock(c) ==
  /\ pc[c] = "locking"
  /\ mu' = c
  /\ pc' = [pc EXCEPT ![c] = "checking"]
  /\ UNCHANGED <<now, token, exp, sent, reply, minted, ret>>

Lock(c) ==
  /\ pc[c] = "locking" /\ mu = Nobody
  /\ mu' = c
  /\ pc' = [pc EXCEPT ![c] = "checking"]
  /\ UNCHANGED <<now, token, exp, sent, reply, minted, ret>>

\* Token() returns tok to c and the deferred Unlock runs.
Return(c, tok) ==
  /\ ret' = [ret EXCEPT ![c] = tok]
  /\ pc' = [pc EXCEPT ![c] = "returned"]
  /\ sent' = [sent EXCEPT ![c] = 0]
  /\ mu' = Nobody

Hit(c) ==
  /\ pc[c] = "checking" /\ Usable
  /\ Return(c, token)
  /\ UNCHANGED <<now, token, exp, reply, minted>>

Miss(c) ==
  /\ pc[c] = "checking" /\ ~Usable
  /\ sent' = [sent EXCEPT ![c] = now]
  /\ pc' = [pc EXCEPT ![c] = "fetching"]
  /\ UNCHANGED <<now, mu, token, exp, reply, minted, ret>>

\* External: the token endpoint mints a token for the request of c.
Mint(c, life, omitted) ==
  /\ pc[c] = "fetching" /\ reply[c] = NoToken
  /\ minted < MaxMinted
  /\ minted' = minted + 1
  /\ reply' = [reply EXCEPT ![c] =
       [id |-> minted + 1, dies |-> now + life, life |-> life,
        says |-> IF omitted THEN 0 ELSE life]]
  /\ UNCHANGED <<now, mu, token, exp, pc, sent, ret>>

\* Mutant of Store: the token is kept for all of its ttl.
StoreToTheEnd(c) ==
  /\ pc[c] = "fetching" /\ reply[c] # NoToken
  /\ exp' = now + TTL(reply[c].says)
  /\ token' = reply[c]
  /\ reply' = [reply EXCEPT ![c] = NoToken]
  /\ Return(c, reply[c])
  /\ UNCHANGED <<now, minted>>

\* The answer arrives: cache the token and return it.
Store(c) ==
  /\ pc[c] = "fetching" /\ reply[c] # NoToken
  /\ LET ttl == TTL(reply[c].says)
     IN  exp' = now + (ttl - SkewOf(ttl))
  /\ token' = reply[c]
  /\ reply' = [reply EXCEPT ![c] = NoToken]
  /\ Return(c, reply[c])
  /\ UNCHANGED <<now, minted>>

\* Mutant of FetchFails: a failed fetch is tried again under the lock.
FetchRetries(c) ==
  /\ pc[c] = "fetching"
  /\ sent' = [sent EXCEPT ![c] = now]
  /\ reply' = [reply EXCEPT ![c] = NoToken]
  /\ UNCHANGED <<now, mu, token, exp, pc, minted, ret>>

\* fetch returns an error: the assertion could not be signed, the context was
\* cancelled, the request timed out, the answer was lost, unreadable or a refusal.
FetchFails(c) ==
  /\ pc[c] = "fetching"
  /\ reply' = [reply EXCEPT ![c] = NoToken]
  /\ Return(c, NoToken)
  /\ UNCHANGED <<now, token, exp, minted>>

\* Time passes, but not beyond the time-out of a fetch in progress.
Tick ==
  /\ now < MaxTime
  /\ \A c \in Callers : pc[c] = "fetching" => now < sent[c] + FetchLimit
  /\ now' = now + 1
  /\ UNCHANGED <<mu, token, exp, pc, sent, reply, minted, ret>>

\* The steps a caller takes inside Token(), up to the wait for the endpoint.
Step(c) == Lock(c) \/ Hit(c) \/ Miss(c) \/ Store(c) \/ FetchFails(c)

Answer(c) == \E life \in Lifetimes, omitted \in Omits : Mint(c, life, omitted)

Next == Tick \/ \E c \in Callers : Call(c) \/ Step(c) \/ Answer(c)

Spec == Init /\ [][Next]_vars

(* sync.Mutex hands the lock to a waiter that has starved for 1 ms, so no    *)
(* waiter is passed over for ever (strong fairness of Lock); a goroutine     *)
(* that holds the lock keeps running, and a fetch ends by its time-out.      *)
Fairness ==
  \A c \in Callers :
    /\ SF_vars(Lock(c))
    /\ WF_vars(Hit(c) \/ Miss(c))
    /\ WF_vars(Store(c) \/ FetchFails(c))

FairSpec == Spec /\ Fairness

--------------------------------------------------------------------------------
(* Correctness.                                                              *)

\* Every variable has its type; the expiry is never before the clock's start,
\* so no ttl was negative (postToken and the int64 product it tests).
TypeOK ==
  /\ now \in Nat /\ minted \in Nat /\ exp \in Nat
  /\ mu \in Callers \cup {Nobody}
  /\ token \in Token \cup {NoToken}
  /\ pc \in [Callers -> {"idle", "locking", "checking", "fetching", "returned"}]
  /\ sent \in [Callers -> Nat]
  /\ reply \in [Callers -> Token \cup {NoToken}]
  /\ ret \in [Callers -> Token \cup {NoToken}]

\* The waiters of a refresh share its result: nobody asks the endpoint for a
\* token while the cached one could still be handed out (Token, the second
\* caller re-tests the expiry after it got the lock).
NoRedundantFetch == \A c \in Callers : pc[c] = "fetching" => ~Usable

\* Token() returns a token to c in this step, from the cache or fetched.
Returns(c) == pc[c] # "returned" /\ pc'[c] = "returned" /\ ret'[c] # NoToken

\* A return out of the cache, in this step, of a token whose life the endpoint
\* did not overstate.
ReturnsCached(c) ==
  Returns(c) /\ pc[c] = "checking" /\ TTL(ret'[c].says) <= ret'[c].life

MarginLeft(c) ==
  ReturnsCached(c) => ret'[c].dies - now > SkewOf(TTL(ret'[c].says)) - FetchLimit

\* A token handed out of the cache is no older than the refresh margin promises:
\* unless the endpoint overstated its life, more than the margin, less the time
\* a fetch can take, is left of it (Token counts the expiry from the arrival of
\* the answer, not from the minting).
CachedTokenOutlivesReturn == [][\A c \in Callers : MarginLeft(c)]_vars

NoneNewer(c) ==
  Returns(c) => \A d \in Callers : ret[d] # NoToken => ret'[c].id >= ret[d].id

\* No call returns an older token than one some call has returned before it:
\* a slow refresh never overwrites the result of a later one.
TokensNeverGoBackwards == [][\A c \in Callers : NoneNewer(c)]_vars

\* Every call of Token() returns, however many fail and whoever else calls.
EveryCallReturns ==
  \A c \in Callers : pc[c] = "locking" ~> pc[c] = "returned"

\* "Refresh a little early so a call never rides an about-to-expire token"
\* (the comment in Token): what is returned has not expired.
NeverRidesAnExpiredToken ==
  [][\A c \in Callers : Returns(c) => now < ret'[c].dies]_vars

\* The callers inside Token().
Waiting == {c \in Callers : pc[c] \in {"locking", "checking", "fetching"}}

Promise == INSTANCE TokenPromise WITH value <- token, waiting <- Waiting

\* To its callers, the source is a Credentials that answers each call at one moment,
\* though a call waits for the mutex, for the endpoint, and while others are served.
KeepsTokenPromise == Promise!PromiseSpec

--------------------------------------------------------------------------------
(* The inductive invariant behind the safety properties.                     *)

\* Past Lock there is the holder of the mutex and nobody else.
HolderAlone ==
  \A c \in Callers : pc[c] \in {"checking", "fetching"} <=> mu = c

\* A fetch in progress is within its time-out.
FetchInTime ==
  \A c \in Callers :
    pc[c] = "fetching" => sent[c] <= now /\ now <= sent[c] + FetchLimit

\* A token on its way was minted for the fetch in progress, after every token
\* that is cached or was returned.
ReplyIsNews ==
  \A c \in Callers : reply[c] # NoToken =>
    /\ pc[c] = "fetching"
    /\ sent[c] + reply[c].life <= reply[c].dies
    /\ reply[c].id <= minted
    /\ token # NoToken => token.id < reply[c].id

\* What callers were given has since been cached and never outdone by older.
CacheIsLatest ==
  /\ token # NoToken => token.id <= minted
  /\ \A c \in Callers :
       ret[c] # NoToken => token # NoToken /\ ret[c].id <= token.id

\* The cached expiry overshoots the token's end, less the margin, by no more
\* than the fetch took.
ExpiryIsEarly ==
  token # NoToken /\ TTL(token.says) <= token.life
    => exp + SkewOf(TTL(token.says)) <= token.dies + FetchLimit

\* The state of a source at every step of a run: lock, fetch, cache and returned
\* tokens agree (Token under c.mu).
IInv ==
  /\ TypeOK
  /\ HolderAlone
  /\ FetchInTime
  /\ NoRedundantFetch
  /\ ReplyIsNews
  /\ CacheIsLatest
  /\ ExpiryIsEarly

================================================================================
