SPECIFICATION Spec
CONSTANTS
  Workers = {w1, w2}
  Others = {o1}
  Modes = {"chat"}
  Unclassified <- UnclassifiedSteps
  Workflow <- ChatRoute
  LastTarget = 9
  MaxRevision = 10
  MaxNotes = 0
  MaxGates = 3
  MaxFaults = 1
SYMMETRY ThreadsSymmetry
INVARIANTS
  TypeOK
  StepsHaveCandidates
  HumanGatesPassed
  CompletedWasReviewed
PROPERTIES
  CheckpointIsAnswered
CHECK_DEADLOCK FALSE
