CONSTANTS
  Lower = {"mrn", "secret"}
  Upper = {"Get", "Read", "Admin"}
  Unprintable = {}
  NoHook = NoHook
  Upcase <- MCUpcase
  PathPrefixes <- MCPathPrefixes
  Keys <- MCKeys
  Segments <- MCSegments
  Methods <- MCMethods
  ExemptPrefixes <- MCPrefixes
  Rules <- MCRules
  Blanket <- MCBlanket
  Operations <- MCOperations
  Surfaces <- MCSurfaces
SPECIFICATION Spec
INVARIANTS
  EveryDemandIsDeclared
  SlashChangesNothing
  ExemptBySegment
PROPERTY ExactWinsOutright
CHECK_DEADLOCK FALSE
