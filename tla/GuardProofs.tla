------------------------------ MODULE GuardProofs ------------------------------
(* That the guards keep their promise, for every set of requests, guards,    *)
(* tokens, surfaces, tables and configurations.                              *)
EXTENDS Guard, TLAPS

USE GuardAssumption

--------------------------------------------------------------------------------
(* What is built.                                                            *)

\* Resolve's guards, and those put together by hand, are wirings.
LEMMA BuiltIsWiring ==
  ASSUME NEW g \in Guards
  PROVE  /\ g \in Resolving => \A e \in Environments : Resolved(g, e) \in Wirings[g]
         /\ \A v \in Verifiers[g] : Wired(g, "enforced", v) \in Wirings[g]
BY DEF Wirings

--------------------------------------------------------------------------------
(* The inductive invariant.                                                  *)

\* No request has asked yet.
LEMMA InitInv == Init => IInv
<1> SUFFICES ASSUME Init PROVE IInv
  OBVIOUS
<1>1. TypeOK
  BY DEF Init, TypeOK
<1>2. GuardsResolve /\ GuardsStand /\ \A r \in Requests : HoldsItsOwn(r) /\ ToldTheVerdict(r)
  BY DEF Init, GuardsResolve, GuardsStand, HoldsItsOwn, ToldTheVerdict, Nobody
<1> QED
  BY <1>1, <1>2 DEF IInv

\* Building a guard touches no guard that a request stands before.
LEMMA BuildInv ==
  ASSUME IInv, NEW g \in Guards, Boot(g) \/ Assemble(g)
  PROVE  IInv'
<1>1. PICK w \in Wirings[g] : guard[g] = None /\ guard' = [guard EXCEPT ![g] = w]
  BY BuiltIsWiring DEF Boot, Assemble
<1>2. UNCHANGED <<heap, req, pc, who, out, op>>
  BY DEF Boot, Assemble
<1>3. TypeOK'
  BY <1>1, <1>2 DEF IInv, TypeOK, Boot, Assemble
<1>4. GuardsResolve'
  <2>1. CASE Boot(g)
    <3>1. PICK e \in Environments : /\ guard' = [guard EXCEPT ![g] = Resolved(g, e)]
                                   /\ env' = [env EXCEPT ![g] = e]
      BY <2>1 DEF Boot
    <3>2. Resolved(g, e) # None
      BY <2>1, BuiltIsWiring DEF Boot
    <3> QED
      BY <3>1, <3>2 DEF IInv, TypeOK, GuardsResolve
  <2>2. CASE Assemble(g)
    <3>1. env[g] = None /\ env' = env
      BY <2>2, <1>1 DEF IInv, GuardsResolve, Assemble
    <3>2. \A h \in Guards \ {g} : guard'[h] = guard[h]
      BY <1>1 DEF IInv, TypeOK
    <3> QED
      BY <3>1, <3>2 DEF IInv, GuardsResolve
  <2> QED
    BY <2>1, <2>2
<1>5. GuardsStand' /\ \A r \in Requests : pc[r] # "idle" => GuardOf(r)' = GuardOf(r)
  BY <1>1, <1>2 DEF IInv, TypeOK, GuardsStand, GuardOf, Request
<1>6. \A r \in Requests : HoldsItsOwn(r)'
  BY <1>2, <1>5 DEF IInv, HoldsItsOwn, Enforcing, Principal
<1>7. \A r \in Requests : ToldTheVerdict(r)'
  BY <1>2, <1>5 DEF IInv, ToldTheVerdict
<1> QED
  BY <1>3, <1>4, <1>5, <1>6, <1>7 DEF IInv

\* A new request holds nothing and has been told nothing.
LEMMA ArriveInv ==
  ASSUME IInv, NEW r \in Requests, Arrive(r)
  PROVE  IInv'
<1>1. PICK g \in Guards, t \in Bearers, s \in Surfaces :
        /\ guard[g] # None
        /\ req' = [req EXCEPT ![r] = [guard |-> g, token |-> t, surface |-> s]]
  BY DEF Arrive, Bearers
<1>2. /\ pc' = [pc EXCEPT ![r] = "arrived"]
      /\ who' = [who EXCEPT ![r] = Nobody]
      /\ out' = [out EXCEPT ![r] = None]
      /\ op' = [op EXCEPT ![r] = None]
      /\ UNCHANGED <<guard, env, heap>>
  BY DEF Arrive
<1>3. TypeOK'
  BY <1>1, <1>2 DEF IInv, TypeOK, Request
<1>4. GuardsResolve'
  BY <1>2 DEF IInv, GuardsResolve
<1>5. GuardsStand'
  BY <1>1, <1>2, <1>3 DEF IInv, TypeOK, GuardsStand, Request
<1>6. \A q \in Requests \ {r} : req'[q] = req[q] /\ who'[q] = who[q] /\ pc'[q] = pc[q] /\ out'[q] = out[q]
  BY <1>1, <1>2 DEF IInv, TypeOK
<1>7. who'[r] = Nobody /\ pc'[r] = "arrived" /\ out'[r] = None
  BY <1>2 DEF IInv, TypeOK
<1>8. \A q \in Requests : HoldsItsOwn(q)'
  BY <1>2, <1>6, <1>7 DEF IInv, HoldsItsOwn, Enforcing, GuardOf, Principal, Nobody
<1>9. \A q \in Requests : ToldTheVerdict(q)'
  BY <1>2, <1>6, <1>7 DEF IInv, ToldTheVerdict, GuardOf
<1> QED
  BY <1>3, <1>4, <1>5, <1>8, <1>9 DEF IInv

--------------------------------------------------------------------------------
(* The steps of a request.  Each changes what that request holds and was     *)
(* told, and perhaps fills the verifier's cache, and leaves the rest alone.  *)

StepOf(r) ==
  /\ UNCHANGED <<guard, env, req>>
  /\ DOMAIN heap' = Tokens
  /\ \A t \in Tokens : /\ heap'[t] \in {None, Says[t]}
                       /\ heap[t] = Says[t] => heap'[t] = Says[t]
  /\ pc' \in [Requests -> {"idle", "arrived", "verifying", "verified", "adopted",
                           "handling", "done"}]
  /\ DOMAIN who' = Requests /\ DOMAIN out' = Requests /\ DOMAIN op' = Requests
  /\ \A q \in Requests \ {r} : pc'[q] = pc[q] /\ who'[q] = who[q] /\ out'[q] = out[q]
  /\ pc[r] # "idle"

\* A step of r leaves to show only what the invariant says of r.
LEMMA OthersInv ==
  ASSUME IInv, NEW r \in Requests, StepOf(r), HoldsItsOwn(r)', ToldTheVerdict(r)'
  PROVE  IInv'
<1>1. TypeOK'
  BY DEF IInv, TypeOK, StepOf
<1>2. GuardsResolve'
  BY DEF IInv, GuardsResolve, StepOf
<1>3. GuardsStand'
  BY DEF IInv, GuardsStand, StepOf
<1>4. ASSUME NEW q \in Requests \ {r}
      PROVE  HoldsItsOwn(q)' /\ ToldTheVerdict(q)'
  <2>1. HoldsItsOwn(q) /\ ToldTheVerdict(q)
    BY DEF IInv
  <2>2. /\ pc'[q] = pc[q] /\ who'[q] = who[q] /\ out'[q] = out[q]
        /\ UNCHANGED <<guard, env, req>>
    BY DEF StepOf
  <2>3. who[q].holds = "cache" =>
          /\ req[q].token \in Tokens
          /\ heap'[req[q].token] = Says[req[q].token] /\ heap[req[q].token] = Says[req[q].token]
    BY <2>1 DEF StepOf, HoldsItsOwn
  <2>4. Principal(q)' = Principal(q)
    BY <2>2, <2>3 DEF Principal
  <2>5. HoldsItsOwn(q)'
    BY <2>1, <2>2, <2>3, <2>4 DEF HoldsItsOwn, Enforcing, GuardOf
  <2>6. ToldTheVerdict(q)'
    BY <2>1, <2>2 DEF ToldTheVerdict, GuardOf
  <2> QED
    BY <2>5, <2>6
<1> QED
  BY <1>1, <1>2, <1>3, <1>4 DEF IInv

--------------------------------------------------------------------------------
(* Every step keeps the invariant, and is a step of the promise or a stutter. *)

Kept == IInv' /\ [Promise!Next]_(Promise!promisevars)

\* The moment of decision: a denial, or the call of the handler, with the promise's
\* verdict, is its Decide.
LEMMA DecideStep ==
  ASSUME IInv, NEW r \in Requests, NEW code, NEW verified \in BOOLEAN,
         pc[r] \in {"arrived", "verifying", "adopted"},
         verified => req[r].token \in Tokens,
         code = Promise!Verdict(GuardOf(r), req[r].token, req[r].surface, verified),
         out' = [out EXCEPT ![r] = code],
         pc' = [pc EXCEPT ![r] = IF code = "served" THEN "handling" ELSE "done"],
         UNCHANGED <<guard, req, op>>
  PROVE  ToldTheVerdict(r)' /\ Promise!Next
<1>1. out'[r] = code /\ pc'[r] = IF code = "served" THEN "handling" ELSE "done"
  BY DEF IInv, TypeOK
<1>2. ToldTheVerdict(r)'
  BY <1>1 DEF ToldTheVerdict, GuardOf
<1>3. Promise!Decide(r)
  <2> DEFINE phase == [q \in Requests |->
                         IF pc[q] \in {"arrived", "verifying", "verified", "adopted"}
                         THEN "asked" ELSE pc[q]]
  <2>1. phase[r] = "asked"
    OBVIOUS
  <2>2. phase' = [phase EXCEPT ![r] = IF out'[r] = "served" THEN "handling" ELSE "done"]
    BY <1>1 DEF IInv, TypeOK
  <2>3. \E v \in BOOLEAN :
          /\ v => req[r].token \in Tokens
          /\ out' = [out EXCEPT ![r] =
                       Promise!Verdict(guard[req[r].guard], req[r].token, req[r].surface, v)]
    BY DEF GuardOf
  <2>4. \E next \in {"handling", "done"} : phase' = [phase EXCEPT ![r] = next]
    BY <2>2
  <2>5. phase'[r] = "handling" <=> out'[r] = "served"
    BY <1>1
  <2> HIDE DEF phase
  <2> QED
    BY <2>1, <2>3, <2>4, <2>5 DEF Promise!Decide, phase
<1> QED
  BY <1>2, <1>3 DEF Promise!Next

\* A refusal that is the verdict is a step of the promise.
LEMMA DenyStep ==
  ASSUME IInv, NEW r \in Requests, NEW code, NEW verified \in BOOLEAN,
         pc[r] \in {"arrived", "verifying", "adopted"},
         verified => req[r].token \in Tokens,
         code = Promise!Verdict(GuardOf(r), req[r].token, req[r].surface, verified),
         code # "served",
         Deny(r, code)
  PROVE  Kept
<1>1. ToldTheVerdict(r)' /\ Promise!Next
  BY DecideStep DEF Deny
<1>2. StepOf(r)
  BY DEF Deny, StepOf, IInv, TypeOK
<1>3. HoldsItsOwn(r)'
  BY DEF Deny, HoldsItsOwn, IInv, TypeOK
<1> QED
  BY <1>1, <1>2, <1>3, OthersInv DEF Kept

\* The handler is called with a principal that is rightly the request's.
LEMMA ServeStep ==
  ASSUME IInv, NEW r \in Requests, NEW w, NEW verified \in BOOLEAN,
         pc[r] \in {"arrived", "adopted"},
         verified => req[r].token \in Tokens,
         Promise!Verdict(GuardOf(r), req[r].token, req[r].surface, verified) = "served",
         Serve(r, w), HoldsItsOwn(r)'
  PROVE  Kept
<1>1. ToldTheVerdict(r)' /\ Promise!Next
  BY DecideStep DEF Serve
<1>2. StepOf(r)
  BY DEF Serve, StepOf, IInv, TypeOK
<1> QED
  BY <1>1, <1>2, OthersInv DEF Kept

\* So is an admission ...
LEMMA AdmitStep ==
  ASSUME IInv, NEW r \in Requests, Admit(r)
  PROVE  Kept
<1> DEFINE g == GuardOf(r)
           s == req[r].surface
<1>1. CASE IsExempt(g.map, s)
  <2>1. Serve(r, Nobody) /\ pc[r] = "arrived"
    BY <1>1 DEF Admit
  <2>2. Promise!Verdict(g, req[r].token, s, FALSE) = "served"
    BY <1>1 DEF Promise!Verdict
  <2>3. HoldsItsOwn(r)'
    BY <1>1, <2>1 DEF Serve, HoldsItsOwn, IInv, TypeOK, GuardOf, Nobody
  <2> QED
    BY <2>1, <2>2, <2>3, ServeStep
<1>2. CASE ~IsExempt(g.map, s) /\ g.mode = "dev-open"
  <2>1. Serve(r, Own(DevPrincipal(g))) /\ pc[r] = "arrived"
    BY <1>2 DEF Admit
  <2>2. Promise!Verdict(g, req[r].token, s, FALSE) = "served"
    BY <1>2 DEF Promise!Verdict
  <2>3. /\ who'[r] = Own(DevPrincipal(g)) /\ pc'[r] = "handling"
        /\ UNCHANGED <<guard, heap, req>>
    BY <2>1 DEF Serve, IInv, TypeOK
  <2>4. HoldsItsOwn(r)'
    BY <1>2, <2>3 DEF HoldsItsOwn, GuardOf, Principal, Own, Nobody
  <2> QED
    BY <2>1, <2>2, <2>4, ServeStep
<1>3. CASE /\ ~IsExempt(g.map, s) /\ g.mode # "dev-open"
           /\ g.mode = "unavailable" \/ g.verify = "none"
  <2>1. Deny(r, "auth_unavailable") /\ pc[r] = "arrived"
    BY <1>3 DEF Admit
  <2>2. Promise!Verdict(g, req[r].token, s, FALSE) = "auth_unavailable"
    BY <1>3 DEF Promise!Verdict
  <2> QED
    BY <2>1, <2>2, DenyStep
<1>4. CASE /\ ~IsExempt(g.map, s) /\ g.mode \notin {"dev-open", "unavailable"}
           /\ g.verify # "none" /\ req[r].token = NoBearer
  <2>1. Deny(r, "missing_token") /\ pc[r] = "arrived"
    BY <1>4 DEF Admit
  <2>2. Promise!Verdict(g, req[r].token, s, FALSE) = "missing_token"
    BY <1>4 DEF Promise!Verdict
  <2> QED
    BY <2>1, <2>2, DenyStep
<1>5. CASE Enforcing(r)
  <2>1. CallVerify(r) /\ pc[r] = "arrived"
    BY <1>5 DEF Admit, Enforcing
  <2>2. StepOf(r)
    BY <2>1 DEF CallVerify, StepOf, IInv, TypeOK
  <2>3. HoldsItsOwn(r)' /\ ToldTheVerdict(r)'
    BY <1>5, <2>1 DEF CallVerify, HoldsItsOwn, ToldTheVerdict, Enforcing, GuardOf, IInv, TypeOK
  <2>4. UNCHANGED Promise!promisevars
    BY <2>1 DEF CallVerify, Promise!promisevars, IInv, TypeOK
  <2> QED
    BY <2>2, <2>3, <2>4, OthersInv DEF Kept
<1> QED
  BY <1>1, <1>2, <1>3, <1>4, <1>5 DEF Enforcing

\* Verify answers: the request's own principal, or the cache's.
LEMMA VerifiedStep ==
  ASSUME IInv, NEW r \in Requests, Verified(r)
  PROVE  Kept
<1> DEFINE t == req[r].token
<1>1. /\ t \in Tokens /\ pc[r] = "verifying"
      /\ pc' = [pc EXCEPT ![r] = "verified"]
      /\ UNCHANGED <<guard, env, req, out, op>>
  BY DEF Verified
<1>2. /\ DOMAIN heap' = Tokens /\ DOMAIN who' = Requests
      /\ \A x \in Tokens : /\ heap'[x] \in {None, Says[x]}
                           /\ heap[x] = Says[x] => heap'[x] = Says[x]
      /\ \A q \in Requests \ {r} : who'[q] = who[q]
  BY <1>1 DEF Verified, IInv, TypeOK
<1>3. \/ who'[r] = Shared /\ heap'[t] = Says[t]
      \/ who'[r] = Own(Says[t])
  BY <1>1 DEF Verified, IInv, TypeOK
<1>4. StepOf(r)
  BY <1>1, <1>2 DEF StepOf, IInv, TypeOK
<1>5. pc'[r] = "verified"
  BY <1>1 DEF IInv, TypeOK
<1>6. HoldsItsOwn(r)'
  <2>1. Enforcing(r)'
    BY <1>1 DEF IInv, HoldsItsOwn, Enforcing, GuardOf
  <2>2. who'[r] # Nobody /\ Principal(r)' = Says[t]
    BY <1>1, <1>3 DEF Principal, Shared, Own, Nobody
  <2>3. who'[r].holds = "cache" => heap'[t] = Says[t]
    BY <1>3 DEF Shared, Own
  <2> QED
    BY <1>1, <1>5, <2>1, <2>2, <2>3 DEF HoldsItsOwn
<1>7. ToldTheVerdict(r)'
  BY <1>1, <1>5 DEF IInv, ToldTheVerdict
<1>8. UNCHANGED Promise!promisevars
  BY <1>1 DEF Promise!promisevars, IInv, TypeOK
<1> QED
  BY <1>4, <1>6, <1>7, <1>8, OthersInv DEF Kept

\* ... a refusal on the way ...
LEMMA RefusedStep ==
  ASSUME IInv, NEW r \in Requests, Refused(r)
  PROVE  Kept
<1>1. pc[r] = "verifying" /\ Deny(r, "invalid_token") /\ Enforcing(r)
  BY DEF Refused, IInv, HoldsItsOwn
<1>2. Promise!Verdict(GuardOf(r), req[r].token, req[r].surface, FALSE) = "invalid_token"
  BY <1>1 DEF Enforcing, Promise!Verdict
<1> QED
  BY <1>1, <1>2, DenyStep

\* The blanket actions go into a copy: the cache stays as it was.
LEMMA AdoptStep ==
  ASSUME IInv, NEW r \in Requests, Adopt(r)
  PROVE  Kept
<1> DEFINE t == req[r].token
           g == GuardOf(r)
<1>1. /\ pc[r] = "verified" /\ pc' = [pc EXCEPT ![r] = "adopted"]
      /\ UNCHANGED <<guard, env, heap, req, out, op>>
  BY DEF Adopt
<1>2. HoldsItsOwn(r) /\ ToldTheVerdict(r)
  BY DEF IInv
<1>3. t \in Tokens /\ who[r] # Nobody /\ Principal(r) = Says[t] /\ Enforcing(r)
  BY <1>1, <1>2 DEF HoldsItsOwn
<1>4. \/ who' = who /\ Promise!Adopted(g, Says[t]) = Says[t]
      \/ who' = [who EXCEPT ![r] = Own(Promise!Adopted(g, Says[t]))]
  BY <1>3 DEF Adopt, Filled, Promise!Adopted
<1>5. /\ DOMAIN who' = Requests /\ pc'[r] = "adopted"
      /\ \A q \in Requests \ {r} : who'[q] = who[q]
      /\ \/ who'[r] = who[r] /\ Promise!Adopted(g, Says[t]) = Says[t]
         \/ who'[r] = Own(Promise!Adopted(g, Says[t]))
  BY <1>1, <1>4 DEF IInv, TypeOK
<1>6. StepOf(r)
  BY <1>1, <1>5 DEF StepOf, IInv, TypeOK
<1>7. HoldsItsOwn(r)'
  <2>1. Enforcing(r)' /\ g' = g
    BY <1>1, <1>3 DEF Enforcing, GuardOf
  <2>2. who'[r] # Nobody /\ Principal(r)' = Promise!Adopted(g, Says[t])
    BY <1>1, <1>3, <1>5 DEF Principal, Own, Nobody
  <2>3. who'[r].holds = "cache" => heap'[t] = Says[t]
    BY <1>1, <1>2, <1>5 DEF HoldsItsOwn, Own
  <2> QED
    BY <1>1, <1>3, <1>5, <2>1, <2>2, <2>3 DEF HoldsItsOwn
<1>8. ToldTheVerdict(r)'
  BY <1>1, <1>2, <1>5 DEF ToldTheVerdict
<1>9. UNCHANGED Promise!promisevars
  BY <1>1 DEF Promise!promisevars, IInv, TypeOK
<1> QED
  BY <1>6, <1>7, <1>8, <1>9, OthersInv DEF Kept

\* The rest of Check decides as the promise does for the principal it states.
LEMMA JudgeStep ==
  ASSUME IInv, NEW r \in Requests, Judge(r)
  PROVE  Kept
<1> DEFINE t == req[r].token
           g == GuardOf(r)
           s == req[r].surface
           p == Principal(r)
<1>1. /\ pc[r] = "adopted" /\ t \in Tokens /\ Enforcing(r) /\ who[r] # Nobody
      /\ p = Promise!Adopted(g, Says[t])
  BY DEF Judge, IInv, HoldsItsOwn
<1>2. Promise!Verdict(g, t, s, TRUE) = Promise!Shortfall(g, p, s)
  BY <1>1 DEF Enforcing, Promise!Verdict
<1>3. \/ Deny(r, Promise!Shortfall(g, p, s)) /\ Promise!Shortfall(g, p, s) # "served"
      \/ Serve(r, who[r]) /\ Promise!Shortfall(g, p, s) = "served"
  <2> HIDE DEF p
  <2> QED
    BY DEF Judge, p, Promise!Shortfall, Promise!Holds
<1>4. CASE Deny(r, Promise!Shortfall(g, p, s)) /\ Promise!Shortfall(g, p, s) # "served"
  BY <1>1, <1>2, <1>4, DenyStep
<1>5. CASE Serve(r, who[r]) /\ Promise!Shortfall(g, p, s) = "served"
  <2>1. /\ who'[r] = who[r] /\ pc'[r] = "handling"
        /\ UNCHANGED <<guard, heap, req>>
    BY <1>5 DEF Serve, IInv, TypeOK
  <2>2. HoldsItsOwn(r)'
    BY <1>1, <2>1 DEF HoldsItsOwn, Enforcing, GuardOf, Principal, IInv
  <2> QED
    BY <1>1, <1>2, <1>5, <2>2, ServeStep
<1> QED
  BY <1>3, <1>4, <1>5

\* A handler's check is the promise's: it is made on the principal the promise states.
LEMMA HandleStep ==
  ASSUME IInv, NEW r \in Requests, Handle(r)
  PROVE  Kept
<1> DEFINE t == req[r].token
           g == GuardOf(r)
           s == req[r].surface
<1>1. /\ pc[r] = "handling" /\ HoldsItsOwn(r) /\ ToldTheVerdict(r)
      /\ pc' = [pc EXCEPT ![r] = "done"] /\ pc'[r] = "done"
      /\ UNCHANGED <<guard, env, heap, req, who, out>>
  BY DEF Handle, IInv, TypeOK
<1>2. PICK c \in Checks :
        op' = [op EXCEPT ![r] =
                 [check |-> c,
                  passed |-> /\ who[r] # Nobody
                             /\ IF c.target = NoTarget THEN HasAction(Principal(r), c.action)
                                ELSE Allows(Principal(r), c.action, c.target)]]
  BY DEF Handle
<1>3. StepOf(r)
  BY <1>1, <1>2 DEF StepOf, IInv, TypeOK
<1>4. HoldsItsOwn(r)' /\ ToldTheVerdict(r)'
  BY <1>1 DEF HoldsItsOwn, ToldTheVerdict, GuardOf
<1>5. (/\ who[r] # Nobody
       /\ IF c.target = NoTarget THEN HasAction(Principal(r), c.action)
          ELSE Allows(Principal(r), c.action, c.target))
        = Promise!PassesBehind(g, t, s, c)
  BY <1>1 DEF HoldsItsOwn, Promise!PassesBehind, Promise!Passes
<1>6. Promise!Handle(r)
  BY <1>1, <1>2, <1>5 DEF Promise!Handle, GuardOf, IInv, TypeOK
<1> QED
  BY <1>3, <1>4, <1>6, OthersInv DEF Kept, Promise!Next

\* A guard that comes into being is built, and a request that comes in is asked.
LEMMA BuildStep ==
  ASSUME IInv, NEW g \in Guards, Boot(g) \/ Assemble(g)
  PROVE  Kept
<1>1. PICK w \in Wirings[g] : guard[g] = None /\ guard' = [guard EXCEPT ![g] = w]
  BY BuiltIsWiring DEF Boot, Assemble
<1>2. UNCHANGED <<req, pc, out, op>>
  BY DEF Boot, Assemble
<1>3. Promise!Build(g)
  BY <1>1, <1>2 DEF Promise!Build
<1> QED
  BY <1>3, BuildInv DEF Kept, Promise!Next

\* ... while an arrival is none of its steps.
LEMMA ArriveStep ==
  ASSUME IInv, NEW r \in Requests, Arrive(r)
  PROVE  Kept
<1>1. PICK g \in Guards, t \in Tokens \cup Forged \cup {NoBearer}, s \in Surfaces :
        /\ guard[g] # None
        /\ req' = [req EXCEPT ![r] = [guard |-> g, token |-> t, surface |-> s]]
  BY DEF Arrive
<1>2. req'[r].guard = g
  BY <1>1 DEF IInv, TypeOK
<1>3. Promise!Ask(r)
  BY <1>1, <1>2 DEF Arrive, Promise!Ask, IInv, TypeOK
<1> QED
  BY <1>3, ArriveInv DEF Kept, Promise!Next

\* Nothing changes when nothing happens.
LEMMA StutterStep ==
  ASSUME IInv, UNCHANGED vars
  PROVE  Kept
<1>1. UNCHANGED Promise!promisevars
  BY DEF vars, Promise!promisevars
<1>2. TypeOK' /\ GuardsResolve' /\ GuardsStand'
  BY DEF vars, IInv, TypeOK, GuardsResolve, GuardsStand
<1>3. \A r \in Requests : HoldsItsOwn(r)' /\ ToldTheVerdict(r)'
  BY DEF vars, IInv, HoldsItsOwn, ToldTheVerdict, Enforcing, GuardOf, Principal
<1> QED
  BY <1>1, <1>2, <1>3 DEF Kept, IInv

\* Every step keeps IInv and is a step of the promise, or none.
LEMMA NextStep ==
  ASSUME IInv, [Next]_vars
  PROVE  Kept
<1>1. ASSUME NEW g \in Guards, Boot(g) \/ Assemble(g) PROVE Kept
  BY <1>1, BuildStep
<1>2. ASSUME NEW r \in Requests, Arrive(r) PROVE Kept
  BY <1>2, ArriveStep
<1>3. ASSUME NEW r \in Requests, Pass(r) PROVE Kept
  BY <1>3, AdmitStep, VerifiedStep, RefusedStep, AdoptStep, JudgeStep, HandleStep DEF Pass
<1>4. CASE UNCHANGED vars
  BY <1>4, StutterStep
<1> QED
  BY <1>1, <1>2, <1>3, <1>4 DEF Next

--------------------------------------------------------------------------------
(* The theorems.                                                             *)

\* The guards are Resolve's, what each request holds of a principal is its own, and
\* what it was told follows from that alone (Check with concurrent requests).
THEOREM Invariance == Spec => []IInv
<1>1. IInv /\ [Next]_vars => IInv'
  BY NextStep DEF Kept
<1> QED
  BY InitInv, <1>1, PTL DEF Spec

\* The variables keep their types; in particular no request writes to a principal that
\* a verifier's cache hands out (the copy in Check).
THEOREM TypeCorrect == Spec => []TypeOK
<1>1. IInv => TypeOK
  BY DEF IInv
<1> QED
  BY Invariance, <1>1, PTL

\* Guards at work keep the promise of GuardPromise: each decision of Check, and each
\* check of a handler, is the one for that request alone.
THEOREM Refinement == Spec => KeepsPromise
<1>1. Init => Promise!Init
  BY DEF Init, Promise!Init
<1>2. IInv /\ [Next]_vars => [Promise!Next]_(Promise!promisevars)
  BY NextStep DEF Kept
<1> QED
  BY Invariance, <1>1, <1>2, PTL DEF Spec, KeepsPromise, Promise!Spec

\* What a caller without a good token is told depends on the guard's posture and on
\* whether it brought a token, whichever it is, and on nothing else (the order of Check).
THEOREM NothingLearnt == Spec => []UnverifiedLearnNothing
<1>1. ASSUME IInv PROVE UnverifiedLearnNothing
  <2>1. ASSUME NEW r \in Requests, out[r] \notin {None, "served"}, req[r].token \notin Tokens
        PROVE  out[r] = IF GuardOf(r).mode = "unavailable" \/ GuardOf(r).verify = "none"
                        THEN "auth_unavailable"
                        ELSE IF req[r].token = NoBearer THEN "missing_token"
                        ELSE "invalid_token"
    <3>1. out[r] = Promise!Verdict(GuardOf(r), req[r].token, req[r].surface, FALSE)
      BY <1>1, <2>1 DEF IInv, ToldTheVerdict
    <3> QED
      BY <2>1, <3>1 DEF Promise!Verdict
  <2> QED
    BY <2>1 DEF UnverifiedLearnNothing, GuardOf
<1> QED
  BY Invariance, <1>1, PTL

\* A guard that Resolve built serves a guarded surface to a good token under a complete
\* configuration, or to anybody in development without one, and otherwise not.
THEOREM Ladder == Spec => []ServedByTheLadder
<1>1. ASSUME IInv PROVE ServedByTheLadder
  <2> SUFFICES ASSUME NEW r \in Requests, out[r] = "served", env[req[r].guard] # None,
                      ~IsExempt(GuardOf(r).map, req[r].surface)
               PROVE  LET e == env[req[r].guard]
                          blank == \E x \in {e.jwks, e.issuer, e.audience} : TrimSpace(x) = <<>>
                      IN  IF blank THEN e.development ELSE e.reachable /\ req[r].token \in Tokens
    BY DEF ServedByTheLadder
  <2> DEFINE g == req[r].guard
             e == env[g]
             blank == \E x \in {e.jwks, e.issuer, e.audience} : TrimSpace(x) = <<>>
  <2>1. \/ GuardOf(r).mode = "dev-open"
        \/ /\ GuardOf(r).mode # "unavailable" /\ GuardOf(r).verify # "none"
           /\ req[r].token \in Tokens
    BY <1>1 DEF IInv, ToldTheVerdict, Promise!Verdict
  <2>2. GuardOf(r) = Resolved(g, e)
    <3>1. pc[r] # "idle"
      BY <1>1 DEF IInv, ToldTheVerdict
    <3>2. g \in Guards
      BY <1>1, <3>1 DEF IInv, GuardsStand, Request
    <3> QED
      BY <1>1, <3>2 DEF IInv, GuardsResolve, GuardOf
  <2>3. Complete(e) <=> ~blank
    BY DEF Complete
  <2> QED
    BY <2>1, <2>2, <2>3 DEF Resolved, Wired, ZeroGuard
<1> QED
  BY Invariance, <1>1, PTL

================================================================================
