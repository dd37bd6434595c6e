----------------------------- MODULE TaskQueue -----------------------------
(***************************************************************************)
(* The durable task queue of one project: the orchestration_tasks table,   *)
(* the threads of the single API process that enqueue, claim, execute and  *)
(* report tasks, the heartbeat thread of each execution, and the           *)
(* compare-and-swap on state_revision that lets at most one execution      *)
(* commit its candidate.                                                   *)
(*                                                                         *)
(* Granularity: one action per database transaction.  Claim and heartbeat  *)
(* read a row in one statement and write it in a later one; they hold the  *)
(* repository lock in between, but update_task does not take that lock.    *)
(* The first read of continue_project_orchestration and the second one of  *)
(* enqueue_next_action are two steps.                                      *)
(***************************************************************************)
EXTENDS Naturals, Sequences

CONSTANTS
  Requests,      \* request and continuation threads of the API process
  Loop,          \* the durable background worker thread
  Users, NoOne,  \* user names; claimed_by of a task nobody has claimed
  Owner,         \* the user a thread runs as; its worker_id is "api-<user>"
  LastStep,      \* number of steps of the active workstream
  GateSteps,     \* steps whose candidate needs a human Gate
  MaxAttempts,   \* TaskLease.max_attempts
  MaxRevision,   \* bound: state_revision
  Edits,         \* bound: the revisions that a save of another writer replaces
  MaxTasks,      \* bound: rows of orchestration_tasks
  MaxFaults     \* bound: restarts of the process and failed heartbeats

Threads == Requests \cup {Loop}

ASSUME LoopAssumption == Loop \notin Requests
ASSUME OwnerAssumption == Owner \in [Threads -> Users] /\ NoOne \notin Users
ASSUME StepAssumption == LastStep \in Nat \ {0} /\ GateSteps \subseteq 1..LastStep
ASSUME BoundAssumption == /\ MaxAttempts \in Nat \ {0}
                          /\ MaxRevision \in Nat \ {0}
                          /\ Edits \subseteq 1..MaxRevision
                          /\ MaxTasks \in Nat
                          /\ MaxFaults \in Nat

VARIABLES
  state,     \* orchestration_states: revision, current step, "a Gate is active",
             \* "the project is ACTIVE", current_action where it names an action
  tasks,     \* orchestration_tasks, in rowid order
  commits,   \* the candidates committed, as recorded by their audit events
  pc,        \* where each thread is in continue_project_orchestration/run_once
  seen,      \* the state a thread read when it chose its action
  lease,     \* the thread's local copy of the task it works on
  beat,      \* the heartbeat thread of the thread's execution
  faults

vars == <<state, tasks, commits, pc, seen, lease, beat, faults>>

Pending == {"QUEUED", "RUNNING"}
Retryable == {"FAILED", "STALE"}
Terminal == Retryable \cup {"COMPLETED"}
Status == Pending \cup Terminal

\* The JSON body of a task: "live" says that lease_until lies in the future
\* (it is read only of a RUNNING task), "backoff" that next_attempt_at does.
\* The attempt count is only ever compared with max_attempts: it saturates.
Body == [status : Status, owner : Users \cup {NoOne}, live : BOOLEAN,
         attempt : 0..MaxAttempts, backoff : BOOLEAN]
NewBody == [status |-> "QUEUED", owner |-> NoOne, live |-> FALSE,
            attempt |-> 0, backoff |-> FALSE]

\* input_hash: continue hashes the revision it read, retry the one it requeues at.
Hash == [kind : {"continue", "retry"}, rev : 1..MaxRevision]
Key == [action : 1..LastStep, expected : 1..MaxRevision, hash : Hash]
\* A row: its idempotency key, its status column and its body.
Row == [key : Key, column : Status, body : Body]

NoLease == [task |-> 0, body |-> NewBody]
NoBeat == [pc |-> "off", task |-> 0, body |-> NewBody]
NothingSeen == [rev |-> 0, step |-> 0]

Rows == DOMAIN tasks
TaskOf(t) == tasks[lease[t].task]
\* Mutant of RepositoryFree: the repository has no lock.
Unlocked == TRUE

\* claim, heartbeat and enqueue hold SQLiteControlPlaneRepository._lock.
RepositoryFree == \A t \in Threads : pc[t] # "claiming" /\ beat[t].pc # "renewing"
Goto(t, l) == pc' = [pc EXCEPT ![t] = l]

Init == /\ state = [rev |-> 1, step |-> 1, gate |-> FALSE, active |-> TRUE, action |-> 0]
        /\ tasks = <<>>
        /\ commits = {}
        /\ pc = [t \in Threads |-> "idle"]
        /\ seen = [t \in Threads |-> NothingSeen]
        /\ lease = [t \in Threads |-> NoLease]
        /\ beat = [t \in Threads |-> NoBeat]
        /\ faults = 0

----------------------------------------------------------------------------
(* continue_project_orchestration: choose the action, enqueue it, retry it. *)

\* A thread reads the state and picks the action of the current step.
ChooseAction(t) ==
  /\ pc[t] \in {"idle", "again"} /\ beat[t].pc = "off"
  /\ state.active /\ ~state.gate
  /\ state.step <= LastStep
  /\ seen' = [seen EXCEPT ![t] = [rev |-> state.rev, step |-> state.step]]
  /\ Goto(t, "enqueue")
  /\ UNCHANGED <<state, tasks, commits, lease, beat, faults>>

\* Mutant of Claimable: an expired lease is not taken over.
ClaimableIfQueued(i) == tasks[i].column = "QUEUED" /\ ~tasks[i].body.backoff

\* A row claim and list_pending_tasks select: a pending status column, no
\* backoff under way, and a body that is not RUNNING under a live lease.
Claimable(i) ==
  LET b == tasks[i].body IN
  /\ tasks[i].column \in Pending
  /\ ~b.backoff
  /\ ~(b.status = "RUNNING" /\ b.live)

\* A request, or the background loop after an action it has executed: it goes
\* on with the next one, at most 32 times.
Continue(t) == (t \in Requests \/ pc[t] = "again") /\ ChooseAction(t)

StopContinuing(t) ==
  /\ pc[t] = "again"
  /\ Goto(t, "idle")
  /\ UNCHANGED <<state, tasks, commits, seen, lease, beat, faults>>

\* The background loop begins to continue a project only for a pending task of
\* the action the project is waiting for.
Recover ==
  /\ pc[Loop] = "idle"
  /\ \E i \in Rows : Claimable(i) /\ tasks[i].key.action = state.step
  /\ ChooseAction(Loop)

\* Mutant of Enqueue: the key is not looked up.
EnqueueAlways(key) ==
  /\ Len(tasks) < MaxTasks
  /\ tasks' = Append(tasks, [key |-> key, column |-> "QUEUED", body |-> NewBody])

\* repository.enqueue: the existing row of the key, or a new one.
Enqueue(key) ==
  \/ \E i \in Rows : tasks[i].key = key /\ UNCHANGED tasks
  \/ /\ \A i \in Rows : tasks[i].key # key
     /\ Len(tasks) < MaxTasks
     /\ tasks' = Append(tasks, [key |-> key, column |-> "QUEUED", body |-> NewBody])

\* Mutant of KeyToEnqueue: the step is read again, its end is not checked again.
KeyOfLatestStep(t) ==
  [action |-> state.step, expected |-> state.rev,
   hash |-> [kind |-> "continue", rev |-> seen[t].rev]]

\* enqueue_next_action reads the state again: the action and the hash are
\* those of the first read, the expected revision that of the second.
KeyToEnqueue(t) ==
  [action |-> seen[t].step, expected |-> state.rev,
   hash |-> [kind |-> "continue", rev |-> seen[t].rev]]

EnqueueNextAction(t) ==
  /\ pc[t] = "enqueue" /\ RepositoryFree
  /\ Enqueue(KeyToEnqueue(t))
  /\ LET failed == {i \in Rows : /\ tasks[i].key = KeyToEnqueue(t)
                                 /\ tasks[i].body.status \in Retryable}
     IN IF failed = {}
        THEN Goto(t, "claim") /\ UNCHANGED lease
        ELSE /\ Goto(t, "retry")
             /\ \E i \in failed : lease' = [lease EXCEPT ![t].task = i]
  /\ UNCHANGED <<state, commits, seen, beat, faults>>

\* retry_task accepts a terminal task of the current step, or of the action
\* whose Gate was refused last.  (It accepts CANCELLED too, which nothing sets.
\* It holds the lock of the control plane between its reads of the state.)
CanRetry(i) ==
  /\ tasks[i].body.status \in Retryable
  /\ state.active /\ ~state.gate
  /\ tasks[i].key.action \in {state.step, state.action}

RetryKey(i) == [action |-> tasks[i].key.action, expected |-> state.rev,
                hash |-> [kind |-> "retry", rev |-> state.rev]]

Retry(t) ==
  /\ pc[t] = "retry" /\ RepositoryFree
  /\ IF CanRetry(lease[t].task)
     THEN Enqueue(RetryKey(lease[t].task)) /\ Goto(t, "claim") /\ UNCHANGED seen
     ELSE /\ UNCHANGED tasks                \* ValueError: the request fails
          /\ Goto(t, "idle")
          /\ seen' = [seen EXCEPT ![t] = NothingSeen]
  /\ lease' = [lease EXCEPT ![t] = NoLease]
  /\ UNCHANGED <<state, commits, beat, faults>>

\* POST .../tasks/{id}/retry.
RetryRequest(i) ==
  /\ RepositoryFree
  /\ CanRetry(i)
  /\ Enqueue(RetryKey(i))
  /\ UNCHANGED <<state, commits, pc, seen, lease, beat, faults>>

----------------------------------------------------------------------------
(* repository.claim and ControlPlaneWorker.run_once. *)

\* The body a claim by t gives to row i.
Claimed(i, t) ==
  LET attempts == tasks[i].body.attempt IN
  [status |-> "RUNNING", owner |-> Owner[t], live |-> TRUE, backoff |-> FALSE,
   attempt |-> IF attempts < MaxAttempts THEN attempts + 1 ELSE attempts]

\* The oldest claimable row is read ...
ClaimRead(t) ==
  /\ pc[t] = "claim" /\ RepositoryFree
  /\ LET ready == {i \in Rows : Claimable(i)} IN
     IF ready = {}
     THEN /\ Goto(t, "idle")
          /\ seen' = [seen EXCEPT ![t] = NothingSeen]
          /\ UNCHANGED lease
     ELSE /\ \E i \in ready :
               /\ \A j \in ready : i <= j
               /\ lease' = [lease EXCEPT ![t] = [task |-> i, body |-> Claimed(i, t)]]
          /\ Goto(t, "claiming")
          /\ UNCHANGED seen
  /\ UNCHANGED <<state, tasks, commits, beat, faults>>

\* Mutant of WriteRow: the body is written, the status column forgotten.
WriteBody(t) == tasks' = [tasks EXCEPT ![lease[t].task].body = lease[t].body]

\* ... and written, whatever update_task put there meanwhile.
WriteRow(t) ==
  tasks' = [tasks EXCEPT ![lease[t].task] =
              [key |-> @.key, column |-> lease[t].body.status, body |-> lease[t].body]]

ClaimWrite(t) ==
  /\ pc[t] = "claiming"
  /\ WriteRow(t)
  /\ Goto(t, "claimed")
  /\ UNCHANGED <<state, commits, seen, lease, beat, faults>>

\* The outcome of a run is kept in the thread's copy until it is written; the
\* heartbeat is told to stop, but a renewal that has begun still finishes.
Finish(t, status, backoff) ==
  /\ lease' = [lease EXCEPT ![t].body =
                 [@ EXCEPT !.status = status, !.live = FALSE, !.backoff = backoff]]
  /\ beat' = [beat EXCEPT ![t] = IF @.pc = "renewing" THEN @ ELSE NoBeat]
  /\ Goto(t, "report")
  /\ seen' = [seen EXCEPT ![t] = NothingSeen]
  /\ UNCHANGED <<tasks, faults>>

\* Mutant of RevisionHolds: the expected revision is not compared.
RevisionIgnored(t) == TRUE

\* validate_worker_revision, and the check before a candidate is committed.
RevisionHolds(t) == state.rev = TaskOf(t).key.expected

\* validate_worker_revision fails before the execution.
RejectStale(t) ==
  /\ pc[t] = "claimed" /\ ~RevisionHolds(t)
  /\ Finish(t, "STALE", FALSE)
  /\ UNCHANGED <<state, commits>>

\* The claimed task is not of the one action the caller has a handler for.
RejectAction(t) ==
  /\ pc[t] = "claimed" /\ RevisionHolds(t)
  /\ TaskOf(t).key.action # seen[t].step
  /\ Finish(t, "FAILED", FALSE)
  /\ UNCHANGED <<state, commits>>

StartHandler(t) ==
  /\ pc[t] = "claimed" /\ RevisionHolds(t)
  /\ TaskOf(t).key.action = seen[t].step
  /\ beat' = [beat EXCEPT ![t] = [pc |-> "on", task |-> lease[t].task, body |-> NewBody]]
  /\ Goto(t, "executing")
  /\ seen' = [seen EXCEPT ![t] = NothingSeen]     \* not read any more
  /\ UNCHANGED <<state, tasks, commits, lease, faults>>

\* The index moves on to the end of the workflow and no further.
StepAfter(s) == IF s <= LastStep THEN s + 1 ELSE s

\* complete_action_with_candidate: the revision is the expected one; the
\* state it advances is the current one, whose step it does not compare with
\* the task's action.
CommitCandidate(t) ==
  /\ pc[t] = "executing" /\ RevisionHolds(t) /\ state.rev < MaxRevision
  /\ LET action == TaskOf(t).key.action IN
     state' = IF action \in GateSteps
              THEN [state EXCEPT !.rev = @ + 1, !.gate = TRUE, !.action = action]
              ELSE [state EXCEPT !.rev = @ + 1, !.gate = FALSE, !.action = 0,
                                 !.step = StepAfter(@)]
  /\ commits' = commits \cup {[task |-> lease[t].task, base |-> state.rev]}
  /\ Goto(t, "committed")
  /\ UNCHANGED <<tasks, seen, lease, beat, faults>>

\* Mutant of RejectLateCandidate: the conflict is reported as a completion.
CompleteLateCandidate(t) ==
  /\ pc[t] = "executing" /\ ~RevisionHolds(t)
  /\ Finish(t, "COMPLETED", FALSE)
  /\ UNCHANGED <<state, commits>>

\* ConcurrentStateError out of complete_action_with_candidate.
RejectLateCandidate(t) ==
  /\ pc[t] = "executing" /\ ~RevisionHolds(t)
  /\ Finish(t, "STALE", FALSE)
  /\ UNCHANGED <<state, commits>>

\* Any other exception, before the commit or in the writes that follow it.
HandlerFails(t) ==
  /\ pc[t] \in {"executing", "committed"}
  /\ IF lease[t].body.attempt < MaxAttempts
     THEN Finish(t, "QUEUED", TRUE)
     ELSE Finish(t, "FAILED", FALSE)
  /\ UNCHANGED <<state, commits>>

HandlerReturns(t) ==
  /\ pc[t] = "committed"
  /\ Finish(t, "COMPLETED", FALSE)
  /\ UNCHANGED <<state, commits>>

\* The closing update_task writes the thread's copy unconditionally.
Report(t) ==
  /\ pc[t] = "report"
  /\ WriteRow(t)
  /\ Goto(t, "idle") \/ (t = Loop /\ Goto(t, "again"))
  /\ lease' = [lease EXCEPT ![t] = NoLease]
  /\ UNCHANGED <<state, commits, seen, beat, faults>>

----------------------------------------------------------------------------
(* repository.heartbeat, called by the renew_lease thread of an execution. *)

\* The renewal reads the row; the thread ends when the task is no longer
\* RUNNING for this worker_id.
BeatRead(t) ==
  /\ beat[t].pc = "on" /\ RepositoryFree
  /\ LET b == tasks[beat[t].task].body IN
     beat' = [beat EXCEPT ![t] =
                IF b.status = "RUNNING" /\ b.owner = Owner[t]
                THEN [@ EXCEPT !.pc = "renewing", !.body = [b EXCEPT !.live = TRUE]]
                ELSE NoBeat]
  /\ UNCHANGED <<state, tasks, commits, pc, seen, lease, faults>>

\* ... and writes the body it read, not the status column.
BeatWrite(t) ==
  /\ beat[t].pc = "renewing"
  /\ tasks' = [tasks EXCEPT ![beat[t].task].body = beat[t].body]
  /\ beat' = [beat EXCEPT ![t] = IF pc[t] \in {"executing", "committed"}
                                 THEN [@ EXCEPT !.pc = "on", !.body = NewBody]
                                 ELSE NoBeat]
  /\ UNCHANGED <<state, commits, pc, seen, lease, faults>>

\* renew_lease does not catch: a sqlite3 error ends the heartbeat for good.
BeatDies(t) ==
  /\ beat[t].pc # "off"
  /\ faults < MaxFaults
  /\ faults' = faults + 1
  /\ beat' = [beat EXCEPT ![t] = NoBeat]
  /\ UNCHANGED <<state, tasks, commits, pc, seen, lease>>

\* Time passes lease_until.  A heartbeat that runs renews in time (30 s of
\* 300 s), and the steps around the handler are shorter than a lease.
LeaseExpires(i) ==
  /\ tasks[i].body.status = "RUNNING" /\ tasks[i].body.live
  /\ \A t \in Threads : /\ beat[t].task # i
                        /\ lease[t].task = i => pc[t] \notin {"claimed", "report"}
  /\ tasks' = [tasks EXCEPT ![i].body.live = FALSE]
  /\ UNCHANGED <<state, commits, pc, seen, lease, beat, faults>>

\* Time passes next_attempt_at.
BackoffElapses(i) ==
  /\ tasks[i].body.backoff
  /\ tasks' = [tasks EXCEPT ![i].body.backoff = FALSE]
  /\ UNCHANGED <<state, commits, pc, seen, lease, beat, faults>>

----------------------------------------------------------------------------
(* The other writers of the state and of the tasks, and the process. *)

\* decide_gate: an approval goes on to the next step; a revision may go back to
\* an earlier one (of the evidence, of the writing); a rejection stays and leaves
\* current_action as it is; a stop ends the project.
Decisions ==
  LET decided == [state EXCEPT !.rev = @ + 1, !.gate = FALSE] IN
  {[decided EXCEPT !.step = StepAfter(@), !.action = 0],
   decided, [decided EXCEPT !.active = FALSE]}
  \cup {[decided EXCEPT !.step = s, !.action = 0] : s \in 1..state.step}

DecideGate ==
  /\ state.gate /\ state.rev < MaxRevision
  /\ state' \in Decisions
  /\ UNCHANGED <<tasks, commits, pc, seen, lease, beat, faults>>

\* A save that leaves step and Gate alone: research constraints, scope,
\* publication target, checkpoint answers.
EditState ==
  /\ state.rev \in Edits /\ state.rev < MaxRevision
  /\ state' = [state EXCEPT !.rev = @ + 1]
  /\ UNCHANGED <<tasks, commits, pc, seen, lease, beat, faults>>

\* A conversation turn that is to resume the queued action reads the state ...
ResumeTurn(t) ==
  /\ t \in Requests /\ pc[t] = "idle" /\ beat[t].pc = "off"
  /\ ~state.gate
  /\ state.step <= LastStep
  /\ seen' = [seen EXCEPT ![t] = [rev |-> state.rev, step |-> state.step]]
  /\ Goto(t, "resume")
  /\ UNCHANGED <<state, tasks, commits, lease, beat, faults>>

\* ... later the project's tasks, and marks the RUNNING or COMPLETED ones of that
\* action STALE (bound: one of them).
ReclaimRead(t) ==
  /\ pc[t] = "resume"
  /\ LET found == {i \in Rows : /\ tasks[i].key.action = seen[t].step
                                /\ tasks[i].body.status \in {"RUNNING", "COMPLETED"}}
     IN IF found = {}
        THEN Goto(t, "idle") /\ UNCHANGED lease
        ELSE /\ Goto(t, "reclaim")
             /\ \E i \in found : lease' = [lease EXCEPT ![t] =
                  [task |-> i,
                   body |-> [tasks[i].body EXCEPT !.status = "STALE", !.live = FALSE]]]
  /\ seen' = [seen EXCEPT ![t] = NothingSeen]
  /\ UNCHANGED <<state, tasks, commits, beat, faults>>

ReclaimWrite(t) ==
  /\ pc[t] = "reclaim"
  /\ WriteRow(t)
  /\ lease' = [lease EXCEPT ![t] = NoLease]
  /\ Goto(t, "idle")
  /\ UNCHANGED <<state, commits, seen, beat, faults>>

\* The process dies and restarts: the threads are gone, the database stays.
Crash ==
  /\ faults < MaxFaults
  /\ faults' = faults + 1
  /\ pc' = [t \in Threads |-> "idle"]
  /\ seen' = [t \in Threads |-> NothingSeen]
  /\ lease' = [t \in Threads |-> NoLease]
  /\ beat' = [t \in Threads |-> NoBeat]
  /\ UNCHANGED <<state, tasks, commits>>

----------------------------------------------------------------------------
HandlerEnds(t) == \/ CommitCandidate(t) \/ RejectLateCandidate(t)
                  \/ HandlerFails(t) \/ HandlerReturns(t)

\* What a thread does next once it has begun.
ThreadStep(t) == \/ EnqueueNextAction(t) \/ Retry(t)
                 \/ ClaimRead(t) \/ ClaimWrite(t)
                 \/ RejectStale(t) \/ RejectAction(t) \/ StartHandler(t)
                 \/ HandlerEnds(t) \/ Report(t) \/ StopContinuing(t)
                 \/ ReclaimRead(t) \/ ReclaimWrite(t)

BeatStep(t) == BeatRead(t) \/ BeatWrite(t)
Clock(i) == LeaseExpires(i) \/ BackoffElapses(i)

Next == \/ \E t \in Threads : \/ Continue(t) \/ ResumeTurn(t) \/ ThreadStep(t)
                              \/ BeatStep(t) \/ BeatDies(t)
        \/ Recover
        \/ \E i \in Rows : Clock(i) \/ RetryRequest(i)
        \/ DecideGate \/ EditState \/ Crash

Spec == Init /\ [][Next]_vars

\* Threads that have begun go on, the background loop scans every two
\* seconds, leases and backoffs are finite times.
Fairness == /\ \A t \in Threads : WF_vars(ThreadStep(t)) /\ WF_vars(BeatStep(t))
            /\ WF_vars(Recover)
            /\ \A i \in 1..MaxTasks : WF_vars(i \in Rows /\ Clock(i))

LiveSpec == Spec /\ Fairness

----------------------------------------------------------------------------
(* Properties. *)

PCs == {"idle", "enqueue", "retry", "claim", "claiming", "claimed",
        "executing", "committed", "report", "again", "resume", "reclaim"}
\* Where a thread's copy refers to a row.
Working == {"retry", "claiming", "claimed", "executing", "committed", "report", "reclaim"}

TablesType ==
  /\ state \in [rev : 1..MaxRevision, step : 1..LastStep + 1, gate : BOOLEAN,
               active : BOOLEAN, action : 0..LastStep]
  /\ tasks \in Seq(Row) /\ Len(tasks) <= MaxTasks
  /\ commits \subseteq [task : Rows, base : 1..MaxRevision]
  /\ faults \in 0..MaxFaults

SeenType ==
  /\ seen \in [Threads -> [rev : 0..MaxRevision, step : 0..LastStep]]
  /\ \A t \in Threads : pc[t] = "enqueue" => seen[t].rev > 0 /\ seen[t].step > 0

LeaseType ==
  /\ lease \in [Threads -> [task : Rows \cup {0}, body : Body]]
  /\ \A t \in Threads : pc[t] \in Working => lease[t].task \in Rows

BeatType ==
  /\ beat \in [Threads -> [pc : {"off", "on", "renewing"}, task : Rows \cup {0},
                           body : Body]]
  /\ \A t \in Threads : beat[t].pc # "off" => beat[t].task \in Rows

\* The type invariant of the queue.
TypeOK == TablesType /\ pc \in [Threads -> PCs] /\ SeenType /\ LeaseType /\ BeatType

\* Two rows never share an idempotency key, whichever threads enqueue,
\* retry, crash and come back (enqueue; the unique index behind it).
OneTaskPerKey == \A i, j \in Rows : tasks[i].key = tasks[j].key => i = j

\* A candidate is committed only on the revision its task was queued for, no
\* revision gets two candidates, and no task commits twice: not when its lease
\* expires under a running handler, when the process dies between the commit
\* and the report, or when the task is requeued after the commit.
CommitsFollowRevisions ==
  \A c \in commits :
    /\ c.base = tasks[c.task].key.expected
    /\ c.base < state.rev
    /\ \A d \in commits : c.base = d.base \/ c.task = d.task => c = d

\* A task recorded COMPLETED has committed its candidate: no crash, conflict
\* or takeover makes a result disappear behind a COMPLETED record.
CompletedWasCommitted ==
  \A i \in Rows : "COMPLETED" \in {tasks[i].column, tasks[i].body.status}
                   => \E c \in commits : c.task = i

Leased(i) == tasks[i].body.status = "RUNNING" /\ tasks[i].body.live

\* A claim never takes a task away under a live lease, although it decides on
\* a row it read earlier and update_task runs outside the repository lock.
ClaimRespectsLease ==
  [][\A t \in Threads : pc[t] = "claiming" /\ pc'[t] = "claimed"
                         => ~Leased(lease[t].task)]_vars

\* No row whose status column makes it claimable hides a terminal body: a
\* finished task is never selected for execution again.
ClaimableIsPending ==
  \A i \in Rows : tasks[i].column \in Pending => tasks[i].body.status \in Pending

\* The task the project waits for at its current revision.
Current(i) == /\ i \in Rows /\ state.active /\ ~state.gate
              /\ tasks[i].key.action = state.step
              /\ tasks[i].key.expected = state.rev

\* A pending task of the current action is eventually finished or overtaken,
\* also when the process died while it was queued, claimed or executing:
\* the background loop claims it once its lease and backoff have passed.
PendingTaskEnds ==
  \A i \in 1..MaxTasks :
    (Current(i) /\ tasks[i].column \in Pending)
      ~> ~(Current(i) /\ tasks[i].column \in Pending)

----------------------------------------------------------------------------
(* The inductive strengthening of the safety properties. *)

\* What a thread's copy and a renewal's copy may hold at each place.
CopiesOK ==
  \A t \in Threads :
    /\ pc[t] \in {"claiming", "claimed", "executing", "committed"}
         => lease[t].body.status = "RUNNING"
    /\ pc[t] \in {"report", "reclaim"} => lease[t].body.status # "RUNNING"
    /\ pc[t] = "reclaim" => lease[t].body.status = "STALE"
    /\ beat[t].pc = "renewing" => beat[t].body.status = "RUNNING"

\* The repository lock is held by one claim or one renewal.
LockOK ==
  \A t, u \in Threads :
    pc[t] = "claiming" => beat[u].pc # "renewing" /\ (pc[u] = "claiming" => t = u)

\* A row that a claim has read is not leased until the claim writes it.
SnapshotOK == \A t \in Threads : pc[t] = "claiming" => ~Leased(lease[t].task)

\* A thread about to report COMPLETED has committed.
OutcomeOK ==
  \A t \in Threads :
    pc[t] = "committed" \/ (pc[t] = "report" /\ lease[t].body.status = "COMPLETED")
      => \E c \in commits : c.task = lease[t].task

IInv == /\ TypeOK /\ OneTaskPerKey /\ CommitsFollowRevisions
        /\ CopiesOK /\ LockOK /\ SnapshotOK /\ OutcomeOK
        /\ CompletedWasCommitted /\ ClaimableIsPending

----------------------------------------------------------------------------
(* What comments and tests of the repository say and the code does not do. *)

\* control_plane.py:1763: a worker's candidate "is no longer for the active
\* action and must never overwrite a later conversational checkpoint".
CandidateIsForActiveAction ==
  [][\A t \in Threads : CommitCandidate(t)
       => TaskOf(t).key.action = state.step /\ ~state.gate]_vars

\* control_plane.py:1877: "A longer lease plus heartbeat prevents the durable
\* recovery loop from claiming the same still-running task."
NoDoubleExecution ==
  \A t, u \in Threads :
    /\ t # u
    /\ pc[t] \in {"executing", "committed"} /\ pc[u] \in {"executing", "committed"}
    => lease[t].task # lease[u].task

\* api.py:6773: a finished action leaves its lease marked RUNNING "for a short
\* period".
RunningEnds ==
  \A i \in 1..MaxTasks :
    (i \in Rows /\ tasks[i].body.status = "RUNNING")
      ~> (i \in Rows /\ tasks[i].body.status # "RUNNING")
=============================================================================
