SPECIFICATION LiveSpec
CONSTANTS
  r1 = r1
  loop = loop
  alice = alice
  bob = bob
  NoOne = NoOne
  Requests <- MCRequests
  Loop = loop
  Users <- MCUsers
  Owner <- MCOwner
  LastStep = 1
  GateSteps = {}
  MaxAttempts = 2
  MaxRevision = 2
  Edits = {}
  MaxTasks = 3
  MaxFaults = 1
INVARIANTS
  IInv
PROPERTIES
  PendingTaskEnds
CHECK_DEADLOCK FALSE
