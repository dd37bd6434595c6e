SPECIFICATION Spec
CONSTANTS
  r1 = r1
  loop = loop
  alice = alice
  bob = bob
  NoOne = NoOne
  Requests <- MCRequests
  Loop = loop
  Users <- MCUsers
  Owner <- MCOwner
  LastStep = 2
  GateSteps <- MCGateSteps
  MaxAttempts = 2
  MaxRevision = 4
  Edits = {1, 2}
  MaxTasks = 2
  MaxFaults = 0
INVARIANTS
  OneTaskPerKey
  CommitsFollowRevisions
  CompletedWasCommitted
  ClaimableIsPending
PROPERTIES
  ClaimRespectsLease
CHECK_DEADLOCK FALSE
