---------------------------- MODULE TaskQueueMC ----------------------------
(* Small instances of TaskQueue for TLC. *)
EXTENDS TaskQueue

CONSTANTS r1, loop, alice, bob

MCRequests == {r1}
MCUsers == {alice, bob}
MCGateSteps == {1}
\* The request is the project owner's, and the background loop runs as the
\* owner: both threads have the same worker_id.
MCOwner == [t \in {r1, loop} |-> alice]
=============================================================================
