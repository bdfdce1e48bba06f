--------------------------- MODULE UnaryCredsProofs ----------------------------
(* The order of the bearers on unary requests, for every number of callers   *)
(* and every mixture of credentials.                                         *)
EXTENDS UnaryCreds, TokenSourceProofs

USE CredentialsAssumption

--------------------------------------------------------------------------------
\* No call has begun.
LEMMA CredsInitInv == CredsInit => CredsInv
<1> SUFFICES ASSUME CredsInit PROVE CredsInv
  OBVIOUS
<1>1. IInv
  BY InitInv DEF CredsInit
<1>2. CredsTypeOK
  BY <1>1 DEF CredsInit, CredsTypeOK, IInv, Init
<1>3. LatestIsCached
  BY DEF CredsInit, LatestIsCached
<1>4. GotNoOlder
  BY DEF CredsInit, GotNoOlder
<1> QED
  BY <1>1, <1>2, <1>3, <1>4 DEF CredsInv

\* A step of the source: the cached token changes for a newer one only, and what a
\* call returns is the cached token.
LEMMA SourceStep ==
  ASSUME CredsInv, Tick \/ \E c \in Callers : Step(c) \/ Answer(c)
  PROVE  /\ token # NoToken => token' # NoToken /\ token.id <= token'.id
         /\ \A c \in Callers :
              \/ pc'[c] = pc[c] /\ ret'[c] = ret[c]
              \/ pc'[c] # "returned"
              \/ ret'[c] = NoToken
              \/ ret'[c] = token'
<1> USE DEF CredsInv, IInv, TypeOK
<1>1. CASE Tick
  BY <1>1 DEF Tick, Token
<1>2. ASSUME NEW c \in Callers, Answer(c)
      PROVE  UNCHANGED <<token, pc, ret>>
  BY <1>2 DEF Answer, Mint
<1>3. ASSUME NEW c \in Callers, Lock(c) \/ Miss(c)
      PROVE  /\ UNCHANGED <<token, ret>>
             /\ \A d \in Callers : pc'[d] = pc[d] \/ pc'[d] # "returned"
  BY <1>3 DEF Lock, Miss
<1>4. ASSUME NEW c \in Callers, Hit(c) \/ FetchFails(c)
      PROVE  /\ token' = token
             /\ ret'[c] = token' \/ ret'[c] = NoToken
             /\ \A d \in Callers \ {c} : pc'[d] = pc[d] /\ ret'[d] = ret[d]
  BY <1>4 DEF Hit, FetchFails, Return
<1>5. ASSUME NEW c \in Callers, Store(c)
      PROVE  /\ token' # NoToken /\ token # NoToken => token.id <= token'.id
             /\ token' # NoToken
             /\ ret'[c] = token'
             /\ \A d \in Callers \ {c} : pc'[d] = pc[d] /\ ret'[d] = ret[d]
  BY <1>5 DEF Store, Return, ReplyIsNews, Token
<1>6. token # NoToken => token.id <= token.id
  BY DEF Token
<1> QED
  BY <1>1, <1>2, <1>3, <1>4, <1>5, <1>6 DEF Step

\* A step of the source leaves the calls alone.
LEMMA SourceInv ==
  ASSUME CredsInv, Tick \/ \E c \in Callers : Step(c) \/ Answer(c), UNCHANGED rpcvars
  PROVE  CredsInv'
<1>1. IInv'
  BY NextInv DEF CredsInv, Next
<1>2. minted <= minted'
  BY DEF CredsInv, IInv, TypeOK, Tick, Step, Lock, Hit, Miss, Store, FetchFails, Answer, Mint
<1>3. CredsTypeOK'
  BY <1>1, <1>2 DEF CredsInv, CredsTypeOK, rpcvars, IInv, TypeOK
<1>4. LatestIsCached'
  BY <1>1, SourceStep DEF CredsInv, CredsTypeOK, LatestIsCached, rpcvars, IInv, TypeOK, Token
<1>5. GotNoOlder'
  <2> SUFFICES ASSUME NEW c \in Cached, rpc[c] = "asking", pc'[c] = "returned", ret'[c] # NoToken
               PROVE  ret'[c].id >= floor[c]
    BY DEF GotNoOlder, rpcvars
  <2>1. CASE pc'[c] = pc[c] /\ ret'[c] = ret[c]
    BY <2>1 DEF CredsInv, GotNoOlder
  <2>2. CASE ret'[c] = token'
    <3>1. floor[c] \in 0..latest /\ latest \in Nat /\ ret'[c].id \in Nat
      BY <1>1 DEF CredsInv, CredsTypeOK, IInv, TypeOK, Token
    <3> QED
      BY <1>4, <2>2, <3>1 DEF LatestIsCached, rpcvars
  <2> QED
    BY <2>1, <2>2, SourceStep
<1> QED
  BY <1>1, <1>3, <1>4, <1>5 DEF CredsInv

\* The interceptor asks the source.
LEMMA InterceptInv ==
  ASSUME CredsInv, NEW c \in Callers, Intercept(c)
  PROVE  CredsInv'
<1>1. IInv'
  BY NextInv DEF CredsInv, Intercept, Next
<1>2. UNCHANGED <<token, minted, ret, bearer, latest>>
  BY DEF Intercept, Call, vars
<1>3. CredsTypeOK'
  <2>1. rpc' = [rpc EXCEPT ![c] = "asking"] /\ floor' = [floor EXCEPT ![c] = latest]
    BY DEF Intercept
  <2>2. latest \in 0..latest
    BY DEF CredsInv, CredsTypeOK, IInv, TypeOK
  <2> QED
    BY <1>1, <1>2, <2>1, <2>2 DEF CredsInv, CredsTypeOK, IInv
<1>4. LatestIsCached'
  BY <1>2 DEF CredsInv, LatestIsCached
<1>5. GotNoOlder'
  BY <1>2 DEF CredsInv, CredsTypeOK, IInv, TypeOK, GotNoOlder, Intercept, Call, vars
<1> QED
  BY <1>1, <1>3, <1>4, <1>5 DEF CredsInv

\* A call goes out with what the source answered.
LEMMA InvokeInv ==
  ASSUME CredsInv, NEW c \in Callers, Invoke(c)
  PROVE  CredsInv'
<1> DEFINE tok == TokenOf(c)
<1>1. /\ rpc[c] = "asking"
      /\ c \in Cached => pc[c] = "returned" /\ tok = ret[c]
      /\ rpc' = [rpc EXCEPT ![c] = "sent"]
      /\ bearer' = [bearer EXCEPT ![c] = tok]
      /\ latest' = IF c \in Cached /\ tok # NoToken /\ tok.id > latest THEN tok.id ELSE latest
      /\ UNCHANGED vars /\ floor' = floor
  BY DEF Invoke, Answered, Send, TokenOf
<1>2. tok \in Token \cup {NoToken, Fixed}
  BY DEF TokenOf, CredsInv, IInv, TypeOK
<1>3. c \in Cached /\ tok # NoToken =>
        tok \in Token /\ tok.id \in Nat /\ token # NoToken /\ tok.id <= token.id /\ token.id <= minted
  <2> SUFFICES ASSUME c \in Cached, tok # NoToken
               PROVE  /\ tok \in Token /\ tok.id \in Nat
                      /\ token # NoToken /\ tok.id <= token.id /\ token.id <= minted
    OBVIOUS
  <2>1. tok = ret[c]
    BY <1>1
  <2>2. tok \in Token
    BY <2>1 DEF CredsInv, IInv, TypeOK
  <2>3. token # NoToken /\ tok.id <= token.id /\ token.id <= minted
    BY <2>1 DEF CredsInv, IInv, CacheIsLatest
  <2> QED
    BY <2>2, <2>3 DEF Token
<1> HIDE DEF tok
<1>4. IInv'
  BY <1>1, NextInv DEF CredsInv
<1>5. latest <= latest' /\ latest' \in 0..minted
  BY <1>1, <1>3 DEF CredsInv, CredsTypeOK, IInv, TypeOK, Token
<1>6. CredsTypeOK'
  BY <1>1, <1>2, <1>4, <1>5 DEF CredsInv, CredsTypeOK, IInv, vars
<1>7. LatestIsCached'
  BY <1>1, <1>3 DEF CredsInv, LatestIsCached, vars
<1>8. GotNoOlder'
  BY <1>1 DEF CredsInv, CredsTypeOK, GotNoOlder, vars
<1> QED
  BY <1>4, <1>6, <1>7, <1>8 DEF CredsInv

\* Every step keeps the invariant.
LEMMA CredsNextInv ==
  ASSUME CredsInv, [CredsNext]_allvars
  PROVE  CredsInv'
<1>1. CASE UNCHANGED allvars
  <2>1. IInv'
    BY <1>1, NextInv DEF CredsInv, allvars
  <2> QED
    BY <1>1, <2>1 DEF CredsInv, CredsTypeOK, IInv, LatestIsCached, GotNoOlder, allvars, vars, rpcvars
<1> QED
  BY <1>1, SourceInv, InterceptInv, InvokeInv DEF CredsNext

--------------------------------------------------------------------------------
\* The requests, the cache and the tokens returned agree at every step of any number
\* of clients that share a source (unaryCredsInterceptor over Token).
THEOREM CredsInvariance == CredsSpec => []CredsInv
<1> QED
  BY CredsInitInv, CredsNextInv, PTL DEF CredsSpec

\* The types: in particular no bearer is anything but a minted token, the fixed one,
\* or none.
THEOREM CredsTypeCorrect == CredsSpec => []CredsTypeOK
<1>1. CredsInv => CredsTypeOK
  BY DEF CredsInv
<1> QED
  BY <1>1, CredsInvariance, PTL

\* One step's part of RequestsKeepTokenOrder.
LEMMA InvokeCarriesNoOlder ==
  ASSUME CredsInv, [CredsNext]_allvars, NEW c \in Callers
  PROVE  CarriesNoOlder(c)
<1> SUFFICES ASSUME c \in Cached, rpc[c] = "asking", rpc'[c] = "sent", bearer'[c] # NoToken
             PROVE  bearer'[c].id >= floor[c]
  BY DEF CarriesNoOlder
<1>1. Invoke(c)
  BY DEF CredsNext, CredsInv, CredsTypeOK, rpcvars, allvars, Intercept, Invoke, Send
<1>2. bearer'[c] = ret[c] /\ pc[c] = "returned"
  BY <1>1 DEF Invoke, Answered, Send, TokenOf, CredsInv, CredsTypeOK
<1> QED
  BY <1>2 DEF CredsInv, GotNoOlder

\* Whoever shares the source and whatever fails, a request carries no older token
\* than a request that had left before its call began.
THEOREM RequestOrder == CredsSpec => RequestsKeepTokenOrder
<1>1. CredsInv /\ [CredsNext]_allvars => \A c \in Callers : CarriesNoOlder(c)
  BY InvokeCarriesNoOlder
<1> QED
  BY <1>1, CredsInvariance, PTL DEF CredsSpec, RequestsKeepTokenOrder

================================================================================
