\* The shipped figures in units of 5 s: a 30 s skew, a 5 min default, a 15 s
\* time-out of the HTTP client, and tokens that live 20 s.
CONSTANTS
  Callers = {c1, c2}
  NoToken = NoToken
  Nobody = Nobody
  Skew = 6
  DefaultTTL = 60
  DurationLimit = 1000
  FetchLimit = 3
  Lifetimes = {4}
  Omits = {FALSE}
  MaxTime = 8
  MaxMinted = 2
SPECIFICATION Spec
PROPERTY NeverRidesAnExpiredToken
