SPECIFICATION Spec
CONSTANTS
  r1 = r1
  loop = loop
  alice = alice
  bob = bob
  NoOne = NoOne
  Requests <- MCRequests
  Loop = loop
  Users <- MCUsers
  Owner <- MCOwner
  LastStep = 2
  GateSteps <- MCGateSteps
  MaxAttempts = 2
  MaxRevision = 3
  Edits = {}
  MaxTasks = 2
  MaxFaults = 0
PROPERTIES
  CandidateIsForActiveAction
CHECK_DEADLOCK FALSE
