SPECIFICATION Spec
CONSTANTS
  Calls = {c1}
  Evidence = {}
  Claims = {}
  Scope = scope
  NumKeys = 2
  MaxVersion = 2
  MaxLinks = 0
  None = none
INVARIANT AnswersTheQuestion
CHECK_DEADLOCK FALSE
