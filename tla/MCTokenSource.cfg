\* Lifetimes 3 (at the skew: halved), 6 (above it) and 9 (wraps to -7); the
\* endpoint may omit expires_in, and then the default (5) may overstate.
CONSTANTS
  Callers = {c1, c2}
  NoToken = NoToken
  Nobody = Nobody
  Skew = 3
  DefaultTTL = 5
  DurationLimit = 8
  FetchLimit = 2
  Lifetimes = {3, 6, 9}
  Omits = {TRUE, FALSE}
  MaxTime = 7
  MaxMinted = 3
SPECIFICATION Spec
INVARIANTS
  TypeOK
  NoRedundantFetch
  IInv
SYMMETRY CallerSymmetry
PROPERTIES
  CachedTokenOutlivesReturn
  TokensNeverGoBackwards
  KeepsTokenPromise
