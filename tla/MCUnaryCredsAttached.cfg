\* The instance of MCUnaryCreds.cfg, without fairness.
CONSTANTS
  Callers = {c1, c2, c3}
  Cached = {c1, c2}
  Static = {c3}
  Fixed = Fixed
  NoToken = NoToken
  Nobody = Nobody
  Skew = 2
  DefaultTTL = 3
  DurationLimit = 4
  FetchLimit = 1
  Lifetimes = {5}
  Omits = {FALSE}
  MaxTime = 2
  MaxMinted = 2
SPECIFICATION CredsSpec
INVARIANT AttachedToEveryRequest
