CONSTANTS
  Lower = {"mrn", "secret", "storage", "acme", "corp", "billing", "prod", "staging", "db", "a", "b"}
  Upper = {"Get", "Purge", "Admin"}
  Unprintable = {"bel"}
  Downcase <- MCDowncase
  Entries <- MCEntries
  Actions <- MCActions
  Resources <- MCResources
  Vocabularies <- MCVocabularies
  ScopeOf <- MCScopeOf
SPECIFICATION Spec
INVARIANTS
  Layer1CoversLayer2
  EntriesAreIndependent
  BlanketWidensActionsOnly
  TenantIsolation
  ShapesAgree
