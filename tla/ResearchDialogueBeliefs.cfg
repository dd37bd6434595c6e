SPECIFICATION Spec
CONSTANTS
  Calls = {c1}
  Evidence = {e1, e2}
  Claims = {k1}
  Scope = scope
  NumKeys = 0
  MaxVersion = 3
  MaxLinks = 2
  None = none
INVARIANTS EdgesResolve BeliefsAreFounded
SYMMETRY Symmetry
CHECK_DEADLOCK FALSE
