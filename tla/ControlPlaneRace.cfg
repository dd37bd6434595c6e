SPECIFICATION Spec
CONSTANTS
  Workers = {w1, w2}
  Others = {o1}
  Modes = {"chat", "api"}
  Unclassified <- UnclassifiedSteps
  Workflow <- RaceRoute
  LastTarget = 9
  MaxRevision = 7
  MaxNotes = 1
  MaxGates = 2
  MaxFaults = 0
SYMMETRY ThreadsSymmetry
INVARIANTS
  ActiveGateIsAhead
  DataBeforeAnalysis
  NoLostUpdate
PROPERTIES
  GatesDecidedOnce
CHECK_DEADLOCK FALSE
