----------------------------- MODULE TokenPromise ------------------------------
(****************************************************************************)
(* What a Credentials that caches its token promises to goroutines that     *)
(* share it ("Implementations must be safe for concurrent use",              *)
(* credentials.go): a call is answered in one indivisible step, with an      *)
(* error, with the token there is, or with a newer one that replaces it.     *)
(****************************************************************************)
EXTENDS Naturals

CONSTANTS
  Callers,   \* the goroutines
  Token,     \* the tokens there can be; id is their place in minting order
  NoToken    \* an error

VARIABLES
  value,     \* the token there is
  waiting,   \* the callers that wait for an answer
  ret        \* what each caller was last answered

promisevars == <<value, waiting, ret>>

--------------------------------------------------------------------------------
PromiseInit ==
  /\ value = NoToken /\ waiting = {}
  /\ ret = [c \in Callers |-> NoToken]

Ask(c) ==
  /\ c \notin waiting
  /\ waiting' = waiting \cup {c}
  /\ UNCHANGED <<value, ret>>

\* The answer to c.
Reply(c, tok) ==
  /\ c \in waiting
  /\ waiting' = waiting \ {c}
  /\ ret' = [ret EXCEPT ![c] = tok]

Fail(c) == Reply(c, NoToken) /\ UNCHANGED value

Serve(c) == value # NoToken /\ Reply(c, value) /\ UNCHANGED value

Renew(c) ==
  /\ value' \in Token
  /\ value # NoToken => value.id < value'.id
  /\ Reply(c, value')

PromiseNext == \E c \in Callers : Ask(c) \/ Fail(c) \/ Serve(c) \/ Renew(c)

PromiseSpec == PromiseInit /\ [][PromiseNext]_promisevars

================================================================================
