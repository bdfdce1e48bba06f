\* Two callers share the source; the third has a fixed token.  The one lifetime
\* wraps to a negative ttl, so the default of 3 is taken and a token is kept for
\* 1: it is refreshed within the bounds.
CONSTANTS
  Callers = {c1, c2, c3}
  Cached = {c1, c2}
  Static = {c3}
  Fixed = Fixed
  NoToken = NoToken
  Nobody = Nobody
  Skew = 2
  DefaultTTL = 3
  DurationLimit = 4
  FetchLimit = 1
  Lifetimes = {5}
  Omits = {FALSE}
  MaxTime = 2
  MaxMinted = 2
SPECIFICATION CredsFairSpec
INVARIANTS
  CredsTypeOK
  CredsInv
PROPERTIES
  RequestsKeepTokenOrder
  EveryCallReturns
  EveryCallIsSent
