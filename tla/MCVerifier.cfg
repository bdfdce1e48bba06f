CONSTANTS
  Lower = {"mrn", "secret", "acme", "staging", "prod", "device", "exchange", "agent"}
  Upper = {"Get", "Purge", "Admin", "Root", "Exchange"}
  Unprintable = {}
  Upcase <- MCUpcase
  NoHook = NoHook
  Downcase <- MCDowncase
  None = None
  NoBearer = NoBearer
  NoCheck = NoCheck
  client = client
  k1 = k1
  k2 = k2
  rogue = rogue
  Clients = {client}
  Configs <- MCConfigs
  Keys = {k1, k2}
  Requests = {r1}
  Tokens <- MCTokens
  Mortal <- MCMortal
  Flows <- MCFlows
  HumanFlows <- MCHumanFlows
  Handlers <- MCHandlers
  NoTarget = NoTarget
SPECIFICATION FairSpec
INVARIANTS
  IInv
  OnlyAuthsTokens
  MissingGatesFailClosed
  ActorsAreToldApart
  NothingLeftOpen
PROPERTY RotationReachesVerifiers
