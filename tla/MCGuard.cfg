CONSTANTS
  Lower = {"mrn", "secret", "acme", "staging", "prod", "db"}
  Upper = {"Get", "Purge", "Admin", "Root"}
  Unprintable = {}
  Upcase <- MCUpcase
  NoHook = NoHook
  NoTarget = NoTarget
  NoBearer = NoBearer
  None = None
  api = api
  admin = admin
  human = human
  robot = robot
  forged = forged
  stale = stale
  Requests = {r1, r2}
  Guards = {api, admin}
  Resolving = {api}
  Verifiers <- MCVerifiers
  Surfaces <- MCSurfaces
  Tokens = {human, robot}
  Forged = {forged, stale}
  Says <- MCSays
  Environments <- MCEnvironments
  MapOf <- MCMapOf
  TargetOf <- MCTargetOf
  Checks <- MCChecks
SPECIFICATION Spec
SYMMETRY SlotSymmetry
INVARIANTS
  TypeOK
  IInv
  UnverifiedLearnNothing
  ServedByTheLadder
PROPERTY KeepsPromise
