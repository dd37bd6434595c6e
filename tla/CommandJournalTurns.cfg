SPECIFICATION LiveSpec
CONSTANTS
  c1 = c1
  c2 = c2
  id1 = id1
  id2 = id2
  x = x
  y = y
  NoId = NoId
  Calls <- MCCalls
  Ids <- MCIds
  Contents <- MCContents
  MaxTurns = 2
  MaxFaults = 2
INVARIANTS
  RunsOnce
  AnswersAgree
PROPERTIES
  KeepsPromise
  TurnEnds
CHECK_DEADLOCK FALSE
