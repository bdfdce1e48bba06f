------------------------------ MODULE UnaryCreds -------------------------------
(****************************************************************************)
(* unaryCredsInterceptor (credentials.go) over the credentials a client was *)
(* built with (sdk.go, New).  Callers issue unary calls through clients     *)
(* that share one cachedTokenSource, or hold a StaticToken, or are          *)
(* Anonymous.  The interceptor asks for a token, puts it on the request if  *)
(* it got one, and sends the request either way.                            *)
(****************************************************************************)
EXTENDS TokenSource

CONSTANTS
  Cached,   \* the callers whose client has the cached source as Credentials
  Static,   \* the callers whose client has a StaticToken; the rest: Anonymous
  Fixed     \* the text of that StaticToken

ASSUME CredentialsAssumption ==
  /\ Cached \subseteq Callers /\ Static \subseteq Callers
  /\ Cached \cap Static = {}

VARIABLES
  rpc,      \* where each caller's unary call is
  bearer,   \* the bearer on each caller's last request (NoToken: anonymous)
  latest,   \* history: the newest minted token that was ever on a request
  floor     \* history: latest, when each caller's current call began

rpcvars == <<rpc, bearer, latest, floor>>
allvars == <<vars, rpcvars>>

--------------------------------------------------------------------------------
CredsInit ==
  /\ Init
  /\ rpc = [c \in Callers |-> "none"]
  /\ bearer = [c \in Callers |-> NoToken]
  /\ latest = 0
  /\ floor = [c \in Callers |-> 0]

\* A unary call enters the interceptor, which calls creds.Token.
Intercept(c) ==
  /\ rpc[c] \in {"none", "sent"}
  /\ rpc' = [rpc EXCEPT ![c] = "asking"]
  /\ floor' = [floor EXCEPT ![c] = latest]
  /\ IF c \in Cached THEN Call(c) ELSE UNCHANGED vars
  /\ UNCHANGED <<bearer, latest>>

\* What creds.Token has returned to c (NoToken: an error, or Anonymous's "").
TokenOf(c) ==
  CASE c \in Cached -> ret[c]
    [] c \in Static -> Fixed
    [] OTHER        -> NoToken

Answered(c) == rpc[c] = "asking" /\ (c \in Cached => pc[c] = "returned")

\* The request goes out with tok in its authorization metadata.
Send(c, tok) ==
  /\ rpc' = [rpc EXCEPT ![c] = "sent"]
  /\ bearer' = [bearer EXCEPT ![c] = tok]
  /\ latest' = IF c \in Cached /\ tok # NoToken /\ tok.id > latest
               THEN tok.id ELSE latest
  /\ UNCHANGED <<vars, floor>>

\* Mutant of Invoke: after an error the bearer of the caller's last request is
\* used again.
InvokeWithLast(c) ==
  /\ Answered(c)
  /\ Send(c, IF TokenOf(c) = NoToken THEN bearer[c] ELSE TokenOf(c))

\* Mutant of Invoke: without a token the request is not sent.
InvokeSigned(c) ==
  /\ Answered(c) /\ TokenOf(c) # NoToken
  /\ Send(c, TokenOf(c))

\* invoker is called with what Token returned, and without a bearer after an error.
Invoke(c) ==
  /\ Answered(c)
  /\ Send(c, TokenOf(c))

CredsNext ==
  \/ Tick /\ UNCHANGED rpcvars
  \/ \E c \in Callers :
       \/ Intercept(c)
       \/ (Step(c) \/ Answer(c)) /\ UNCHANGED rpcvars
       \/ Invoke(c)

CredsSpec == CredsInit /\ [][CredsNext]_allvars

\* The fairness of the source, and the goroutine in the interceptor runs on.
CredsFairSpec ==
  CredsSpec /\ Fairness /\ \A c \in Callers : WF_allvars(Invoke(c))

--------------------------------------------------------------------------------
\* Every variable has its type.
CredsTypeOK ==
  /\ TypeOK
  /\ rpc \in [Callers -> {"none", "asking", "sent"}]
  /\ bearer \in [Callers -> Token \cup {NoToken, Fixed}]
  /\ latest \in 0..minted
  /\ floor \in [Callers -> 0..latest]

\* What was put on a request has been cached, and is never outdone by older.
LatestIsCached == latest = 0 \/ (token # NoToken /\ latest <= token.id)

\* A token that a call got is no older than what had left before the call began.
GotNoOlder ==
  \A c \in Cached :
    rpc[c] = "asking" /\ pc[c] = "returned" /\ ret[c] # NoToken => ret[c].id >= floor[c]

\* The inductive invariant: the requests follow the cache.
CredsInv == IInv /\ CredsTypeOK /\ LatestIsCached /\ GotNoOlder

CarriesNoOlder(c) ==
  c \in Cached /\ rpc[c] = "asking" /\ rpc'[c] = "sent" /\ bearer'[c] # NoToken
    => bearer'[c].id >= floor[c]

\* A request carries no older token than a request that had left before its call
\* began, whichever goroutine sent that one and whatever failed in between.
RequestsKeepTokenOrder == [][\A c \in Callers : CarriesNoOlder(c)]_allvars

\* Every unary call reaches the wire: a token endpoint that fails for ever delays
\* a call but holds none back.
EveryCallIsSent == \A c \in Callers : rpc[c] = "asking" ~> rpc[c] = "sent"

\* "Credentials attaches the caller's identity token to every request" (the
\* comment on Config.Credentials): with a token source for credentials, no
\* request leaves without a bearer.
AttachedToEveryRequest ==
  \A c \in Cached : rpc[c] = "sent" => bearer[c] # NoToken

================================================================================
