CONSTANTS
  Lower = {"a", "mrn"}
  Upper = {"B"}
  Unprintable = {"bel"}
  MaxLength = 9
SPECIFICATION Spec
INVARIANTS
  MatchIsSegmentGlob
  OneSpelling
  ResourceIsNoWildcard
CHECK_DEADLOCK FALSE
