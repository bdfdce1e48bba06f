--------------------------- MODULE TokenSourceProofs ---------------------------
(* The safety properties of TokenSource, for every number of callers, every  *)
(* skew, default and time-out, and every lifetime.                           *)
EXTENDS TokenSource, TLAPS

USE TokenSourceAssumption

--------------------------------------------------------------------------------
(* The arithmetic.                                                           *)

\* What postToken reports is a positive duration, whatever the endpoint stated
\* and wherever the product wrapped.
LEMMA TTLPositive ==
  ASSUME NEW e \in Nat
  PROVE  TTL(e) \in Nat \ {0}
<1>1. Wrapped(e) \in Int
  <2>1. 2 * DurationLimit \in Nat \ {0}
    OBVIOUS
  <2>2. (e + DurationLimit) % (2 * DurationLimit) \in Int
    BY <2>1
  <2> QED
    BY <2>2 DEF Wrapped
<1> QED
  BY <1>1 DEF TTL

\* The refresh margin of a ttl leaves something of it.
LEMMA SkewBelowTTL ==
  ASSUME NEW ttl \in Nat \ {0}
  PROVE  SkewOf(ttl) \in Nat /\ SkewOf(ttl) < ttl
BY DEF SkewOf

--------------------------------------------------------------------------------
\* Nothing is cached or held at the start.
LEMMA InitInv == Init => IInv
BY DEF Init, IInv, TypeOK, HolderAlone, FetchInTime, NoRedundantFetch, Usable,
       ReplyIsNews, CacheIsLatest, ExpiryIsEarly

\* Every step of a caller, of the endpoint and of the clock keeps the invariant.
LEMMA CallInv ==
  ASSUME NEW c \in Callers, IInv, Call(c)
  PROVE  IInv'
BY DEF IInv, TypeOK, HolderAlone, FetchInTime, NoRedundantFetch, Usable,
       ReplyIsNews, CacheIsLatest, ExpiryIsEarly, Call

\* A caller takes the mutex.
LEMMA LockInv ==
  ASSUME NEW c \in Callers, IInv, Lock(c)
  PROVE  IInv'
BY DEF IInv, TypeOK, HolderAlone, FetchInTime, NoRedundantFetch, Usable,
       ReplyIsNews, CacheIsLatest, ExpiryIsEarly, Lock

\* A caller is answered from the cache.
LEMMA HitInv ==
  ASSUME NEW c \in Callers, IInv, Hit(c)
  PROVE  IInv'
<1> USE DEF IInv, TypeOK
<1>1. TypeOK'
  BY DEF Hit, Return, Usable
<1>2. HolderAlone'
  BY DEF Hit, Return, HolderAlone
<1>3. FetchInTime'
  BY DEF Hit, Return, FetchInTime
<1>4. NoRedundantFetch'
  BY DEF Hit, Return, NoRedundantFetch, Usable
<1>5. ReplyIsNews'
  BY DEF Hit, Return, ReplyIsNews
<1>6. CacheIsLatest'
  <2>1. token \in Token
    BY DEF Hit, Usable
  <2> QED
    BY <2>1 DEF Hit, Return, CacheIsLatest, Token
<1>7. ExpiryIsEarly'
  BY DEF Hit, ExpiryIsEarly
<1> QED
  BY <1>1, <1>2, <1>3, <1>4, <1>5, <1>6, <1>7 DEF IInv

\* A caller finds no token that lasts.
LEMMA MissInv ==
  ASSUME NEW c \in Callers, IInv, Miss(c)
  PROVE  IInv'
BY DEF IInv, TypeOK, HolderAlone, FetchInTime, NoRedundantFetch, Usable,
       ReplyIsNews, CacheIsLatest, ExpiryIsEarly, Miss

\* Auth mints, and the token is cached.
LEMMA MintInv ==
  ASSUME NEW c \in Callers, IInv, NEW life \in Lifetimes, NEW omitted \in Omits,
         Mint(c, life, omitted)
  PROVE  IInv'
BY DEF IInv, TypeOK, HolderAlone, FetchInTime, NoRedundantFetch, Usable,
       ReplyIsNews, CacheIsLatest, ExpiryIsEarly, Mint, Token

\* The step that the argument is about: the answer is newer than all that was
\* returned, it arrives within the time-out, and it is cached less the margin.
LEMMA StoreInv ==
  ASSUME NEW c \in Callers, IInv, Store(c)
  PROVE  IInv'
<1> DEFINE tok == reply[c]
           ttl == TTL(tok.says)
<1> USE DEF IInv, TypeOK
<1>1. tok \in Token /\ tok # NoToken /\ tok.says \in Nat
  BY DEF Store, Token
<1>2. /\ ttl \in Nat \ {0}
      /\ SkewOf(ttl) \in Nat
      /\ SkewOf(ttl) < ttl
  <2>1. ttl \in Nat \ {0}
    BY <1>1, TTLPositive
  <2> QED
    BY <2>1, SkewBelowTTL
<1>3. /\ exp' = now + (ttl - SkewOf(ttl))
      /\ token' = tok
      /\ minted' = minted /\ now' = now
  BY DEF Store
<1>4. /\ pc[c] = "fetching" /\ mu = c
      /\ pc' = [pc EXCEPT ![c] = "returned"] /\ mu' = Nobody
      /\ reply' = [reply EXCEPT ![c] = NoToken]
      /\ ret' = [ret EXCEPT ![c] = tok]
      /\ sent' = [sent EXCEPT ![c] = 0]
  BY DEF Store, Return, HolderAlone
<1> HIDE DEF tok, ttl
<1>5. TypeOK'
  <2>1. exp' \in Nat
    BY <1>2, <1>3
  <2> QED
    BY <2>1, <1>1, <1>3, <1>4
<1>6. HolderAlone'
  BY <1>4 DEF HolderAlone
<1>7. FetchInTime'
  BY <1>3, <1>4 DEF FetchInTime
<1>8. \A d \in Callers : pc'[d] # "fetching" /\ reply'[d] = NoToken
  BY <1>4 DEF HolderAlone, ReplyIsNews
<1>9. NoRedundantFetch'
  BY <1>8 DEF NoRedundantFetch
<1>10. ReplyIsNews'
  BY <1>8 DEF ReplyIsNews
<1>11. CacheIsLatest'
  <2>1. tok.id <= minted /\ (token # NoToken => token.id < tok.id)
    BY <1>1 DEF ReplyIsNews, tok
  <2>2. token # NoToken => token \in Token /\ token.id \in Nat
    BY DEF Token
  <2>3. \A d \in Callers : ret[d] # NoToken => ret[d].id \in Nat
    BY DEF Token
  <2>4. \A d \in Callers : ret[d] # NoToken => ret[d].id <= tok.id
    BY <1>1, <2>1, <2>2, <2>3 DEF CacheIsLatest, Token
  <2> QED
    BY <1>1, <1>3, <1>4, <2>1, <2>4 DEF CacheIsLatest, Token
<1>12. ExpiryIsEarly'
  <2>1. SUFFICES ASSUME ttl <= tok.life
                 PROVE  exp' + SkewOf(ttl) <= tok.dies + FetchLimit
    BY <1>3 DEF ExpiryIsEarly, ttl
  <2>2. sent[c] + tok.life <= tok.dies /\ now <= sent[c] + FetchLimit
    BY <1>1, <1>4 DEF ReplyIsNews, FetchInTime, tok
  <2>3. tok.life \in Nat /\ tok.dies \in Nat /\ sent[c] \in Nat
    BY <1>1 DEF Token
  <2> QED
    BY <1>2, <1>3, <2>1, <2>2, <2>3
<1> QED
  BY <1>5, <1>6, <1>7, <1>9, <1>10, <1>11, <1>12 DEF IInv

\* A fetch fails and leaves the cache alone.
LEMMA FetchFailsInv ==
  ASSUME NEW c \in Callers, IInv, FetchFails(c)
  PROVE  IInv'
BY DEF IInv, TypeOK, HolderAlone, FetchInTime, NoRedundantFetch, Usable,
       ReplyIsNews, CacheIsLatest, ExpiryIsEarly, FetchFails, Return

\* Time passes.
LEMMA TickInv ==
  ASSUME IInv, Tick
  PROVE  IInv'
BY DEF IInv, TypeOK, HolderAlone, FetchInTime, NoRedundantFetch, Usable,
       ReplyIsNews, CacheIsLatest, ExpiryIsEarly, Tick

\* Every step keeps the invariant.
LEMMA NextInv ==
  ASSUME IInv, [Next]_vars
  PROVE  IInv'
<1>1. CASE UNCHANGED vars
  BY <1>1 DEF vars, IInv, TypeOK, HolderAlone, FetchInTime, NoRedundantFetch,
              Usable, ReplyIsNews, CacheIsLatest, ExpiryIsEarly
<1>2. CASE Tick
  BY <1>2, TickInv
<1>3. ASSUME NEW c \in Callers, Call(c) \/ Step(c) \/ Answer(c)
      PROVE  IInv'
  <2>1. CASE Call(c)
    BY <2>1, CallInv
  <2>2. CASE Step(c)
    BY <2>2, LockInv, HitInv, MissInv, StoreInv, FetchFailsInv DEF Step
  <2>3. CASE Answer(c)
    BY <2>3, MintInv DEF Answer
  <2> QED
    BY <1>3, <2>1, <2>2, <2>3
<1> QED
  BY <1>1, <1>2, <1>3 DEF Next

\* At every step of every run of a token source, its lock, its fetch, its cache
\* and the tokens it returned agree.
THEOREM Invariance == Spec => []IInv
<1> QED
  BY InitInv, NextInv, PTL DEF Spec

--------------------------------------------------------------------------------
(* What follows.                                                             *)

\* The types, and no expiry before the clock's start: the int64 product that
\* postToken tests never reaches the cache as a negative ttl.
THEOREM TypeCorrect == Spec => []TypeOK
<1>1. IInv => TypeOK
  BY DEF IInv
<1> QED
  BY <1>1, Invariance, PTL

\* No call is at the endpoint while the cache could serve it, for any number of
\* callers that missed together.
THEOREM OneRefresh == Spec => []NoRedundantFetch
<1>1. IInv => NoRedundantFetch
  BY DEF IInv
<1> QED
  BY <1>1, Invariance, PTL

\* Which steps can return a token, and what they return.
LEMMA ReturningStep ==
  ASSUME IInv, NEW c \in Callers, [Next]_vars, Returns(c)
  PROVE  Hit(c) \/ Store(c)
<1> USE DEF IInv, TypeOK
<1>1. pc'[c] = "returned" /\ pc[c] # "returned" /\ ret'[c] # NoToken
  BY DEF Returns
<1>2. \A d \in Callers : d # c => ~(Call(d) \/ Step(d) \/ Answer(d))
  BY <1>1 DEF Call, Step, Lock, Hit, Miss, Store, FetchFails, Return, Answer, Mint
<1>3. ~Tick /\ ~UNCHANGED vars
  BY <1>1 DEF Tick, vars
<1>4. ~Call(c) /\ ~Lock(c) /\ ~Miss(c) /\ ~FetchFails(c) /\ ~Answer(c)
  BY <1>1 DEF Call, Lock, Miss, FetchFails, Return, Answer, Mint
<1> QED
  BY <1>2, <1>3, <1>4 DEF Next, Step

\* One step's part of CachedTokenOutlivesReturn.
LEMMA HitLeavesMargin ==
  ASSUME IInv, NEW c \in Callers, [Next]_vars
  PROVE  MarginLeft(c)
<1> USE DEF IInv, TypeOK
<1>1. SUFFICES ASSUME ReturnsCached(c)
               PROVE  ret'[c].dies - now > SkewOf(TTL(ret'[c].says)) - FetchLimit
  BY DEF MarginLeft
<1>2. Hit(c)
  BY <1>1, ReturningStep DEF ReturnsCached, Store
<1>3. /\ ret'[c] = token /\ token # NoToken /\ token \in Token
      /\ now < exp /\ TTL(token.says) <= token.life
  BY <1>1, <1>2 DEF Hit, Return, Usable, ReturnsCached
<1>4. /\ token.says \in Nat /\ token.dies \in Nat
      /\ SkewOf(TTL(token.says)) \in Nat
  <2>1. token.says \in Nat /\ token.dies \in Nat
    BY <1>3 DEF Token
  <2> QED
    BY <2>1, TTLPositive, SkewBelowTTL
<1>5. exp + SkewOf(TTL(token.says)) <= token.dies + FetchLimit
  BY <1>3 DEF ExpiryIsEarly
<1> QED
  BY <1>3, <1>4, <1>5

\* Whatever the lifetimes, the margin and the time-out, a token that comes out of
\* the cache has the refresh margin, less one fetch, still to live.
THEOREM CacheServesLiveTokens == Spec => CachedTokenOutlivesReturn
<1>1. IInv /\ [Next]_vars => \A c \in Callers : MarginLeft(c)
  BY HitLeavesMargin
<1> QED
  BY <1>1, Invariance, PTL DEF Spec, CachedTokenOutlivesReturn

\* One step's part of TokensNeverGoBackwards.
LEMMA ReturnsTheNewest ==
  ASSUME IInv, NEW c \in Callers, [Next]_vars
  PROVE  NoneNewer(c)
<1> USE DEF IInv, TypeOK
<1>1. SUFFICES ASSUME Returns(c), NEW d \in Callers, ret[d] # NoToken
               PROVE  ret'[c].id >= ret[d].id
  BY DEF NoneNewer
<1>2. /\ token # NoToken /\ ret[d].id <= token.id
      /\ token.id \in Nat /\ ret[d].id \in Nat
  BY <1>1 DEF CacheIsLatest, Token
<1>3. CASE Hit(c)
  BY <1>2, <1>3 DEF Hit, Return
<1>4. CASE Store(c)
  <2>1. ret'[c] = reply[c] /\ reply[c] # NoToken /\ reply[c].id \in Nat
    BY <1>4 DEF Store, Return, Token
  <2>2. token.id < reply[c].id
    BY <2>1, <1>2 DEF ReplyIsNews
  <2> QED
    BY <1>2, <2>1, <2>2
<1> QED
  BY <1>1, <1>3, <1>4, ReturningStep

\* Whoever refreshes and however slow the endpoint is, the tokens that a source
\* returns are in the order in which they were minted.
THEOREM MintingOrder == Spec => TokensNeverGoBackwards
<1>1. IInv /\ [Next]_vars => \A c \in Callers : NoneNewer(c)
  BY ReturnsTheNewest
<1> QED
  BY <1>1, Invariance, PTL DEF Spec, TokensNeverGoBackwards

--------------------------------------------------------------------------------
(* The source keeps the promise.                                             *)

\* A step outside the answer of a call is a call, or nothing to the callers.
LEMMA QuietStep ==
  ASSUME IInv, NEW c \in Callers, Call(c) \/ Lock(c) \/ Miss(c) \/ Answer(c)
  PROVE  Promise!Ask(c) \/ UNCHANGED <<token, Waiting, ret>>
<1> USE DEF IInv, TypeOK, Waiting
<1>1. CASE Call(c)
  BY <1>1 DEF Call, Promise!Ask
<1>2. CASE Lock(c)
  BY <1>2 DEF Lock
<1>3. CASE Miss(c)
  BY <1>3 DEF Miss
<1>4. CASE Answer(c)
  BY <1>4 DEF Answer, Mint
<1> QED
  BY <1>1, <1>2, <1>3, <1>4

\* The answer of a call is one of the promise's.
LEMMA AnswerStep ==
  ASSUME IInv, NEW c \in Callers, Hit(c) \/ Store(c) \/ FetchFails(c)
  PROVE  Promise!Fail(c) \/ Promise!Serve(c) \/ Promise!Renew(c)
<1> USE DEF IInv, TypeOK, Waiting, Promise!Reply
<1>1. c \in Waiting /\ Waiting' = Waiting \ {c}
  BY DEF Hit, Store, FetchFails, Return
<1>2. CASE Hit(c)
  BY <1>1, <1>2 DEF Hit, Usable, Return, Promise!Serve
<1>3. CASE FetchFails(c)
  BY <1>1, <1>3 DEF FetchFails, Return, Promise!Fail
<1>4. CASE Store(c)
  <2>1. /\ token' = reply[c] /\ reply[c] \in Token
        /\ ret' = [ret EXCEPT ![c] = reply[c]]
        /\ token # NoToken => token.id < reply[c].id
    BY <1>4 DEF Store, Return, ReplyIsNews
  <2> QED
    BY <1>1, <2>1 DEF Promise!Renew
<1> QED
  BY <1>2, <1>3, <1>4

\* For any number of goroutines, the cache under its mutex answers each call as one
\* indivisible step that takes the newest token forward (KeepsTokenPromise).
THEOREM SourceKeepsPromise == Spec => KeepsTokenPromise
<1>1. Init => Promise!PromiseInit
  BY DEF Init, Promise!PromiseInit, Waiting
<1>2. IInv /\ [Next]_vars => [Promise!PromiseNext]_Promise!promisevars
  <2> SUFFICES ASSUME IInv, [Next]_vars
               PROVE  Promise!PromiseNext \/ UNCHANGED <<token, Waiting, ret>>
    BY DEF Promise!promisevars
  <2>1. CASE Tick \/ UNCHANGED vars
    BY <2>1 DEF Tick, vars, Waiting
  <2>2. ASSUME NEW c \in Callers, Call(c) \/ Step(c) \/ Answer(c)
        PROVE  Promise!PromiseNext \/ UNCHANGED <<token, Waiting, ret>>
    BY <2>2, QuietStep, AnswerStep DEF Step, Promise!PromiseNext
  <2> QED
    BY <2>1, <2>2 DEF Next
<1> QED
  BY <1>1, <1>2, Invariance, PTL DEF Spec, KeepsTokenPromise, Promise!PromiseSpec

================================================================================
