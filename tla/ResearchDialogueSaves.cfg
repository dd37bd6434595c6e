SPECIFICATION Spec
CONSTANTS
  Calls = {c1, c2}
  Evidence = {e1}
  Claims = {k1}
  Scope = scope
  NumKeys = 0
  MaxVersion = 2
  MaxLinks = 2
  None = none
INVARIANTS StaleOnlyInRace
SYMMETRY Symmetry
CHECK_DEADLOCK FALSE
