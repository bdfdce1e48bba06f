\* A token lives for 5 and is kept for 3: a margin of 2, one fetch and a delay of 1.
CONSTANTS
  Callers = {c1}
  Cached = {c1}
  Static = {}
  Fixed = Fixed
  NoToken = NoToken
  Nobody = Nobody
  Skew = 2
  DefaultTTL = 3
  DurationLimit = 8
  FetchLimit = 1
  Lifetimes = {5}
  Omits = {FALSE}
  MaxTime = 6
  MaxMinted = 2
  Guests = {guest}
  Basic = Basic
  Nothing = Nothing
  MaxFlight = 2
SPECIFICATION ArrSpec
INVARIANTS
  ArrInv
  TimelyRequestsAreAlive
  ForwardedIdentityWins
CHECK_DEADLOCK FALSE
