----------------------------- MODULE AgentPlans -----------------------------
(***************************************************************************)
(* One plan of agent tasks: the researcher approves a selection of its     *)
(* tasks, which then run in waves of those whose dependencies are done, or *)
(* one by one with a review after each.  Every request reads the whole     *)
(* plan from the store, works on its copy, and puts the whole plan back;   *)
(* no lock is held in between, so what a request puts may be old.          *)
(***************************************************************************)
EXTENDS Naturals, FiniteSets

CONSTANTS
  Calls,      \* request threads
  NumTasks,   \* bound: tasks of the plan, in the plan's order
  Agents,
  Withheld,   \* agents whose task is planned with a blocked_reason
  None        \* no task is awaiting review

Tasks == 1 .. NumTasks

ASSUME ConstantsAssumption ==
  NumTasks \in Nat /\ Withheld \subseteq Agents /\ None \notin Tasks

VARIABLES
  graph,      \* the agent and the dependencies of each task
  plan,       \* the row of agent_plans
  pc,         \* what each request does next
  copy,       \* the plan each request works on
  output,     \* tasks whose artifacts are in the artifact store
  starts,     \* history: how often each task was started (twice is often)
  chosen,     \* history: tasks selected in an approval
  disturbed   \* history: requests overlapped, or one was cut short

vars == <<graph, plan, pc, copy, output, starts, chosen, disturbed>>

\* Mutant: tasks that were not selected are looked at too.
OpenSkipped == {"PLANNED", "SKIPPED"}

\* WAITING_DEPENDENCY differs from PLANNED in display only.
Open == {"PLANNED"}
TaskStatuses == {"PLANNED", "RUNNING", "COMPLETED", "FAILED", "BLOCKED", "SKIPPED"}
PlanStatuses == {"PENDING_APPROVAL", "APPROVED", "RUNNING", "COMPLETED", "PARTIAL", "REJECTED",
                 "BLOCKED", "WAITING_TASK_APPROVAL", "REWORK_REQUIRED"}

Planned == [status |-> "PENDING_APPROVAL", mode |-> "automatic", review |-> None,
            tasks |-> [t \in Tasks |-> "PLANNED"]]

\* A model drafts any tasks: an agent may have several, and agents may wait
\* for each other, though not for themselves or for agents without a task.
Graphs ==
  {g \in [Tasks -> [agent : Agents, deps : SUBSET Agents]] :
     \A t \in Tasks : g[t].deps \subseteq {g[u].agent : u \in Tasks} \ {g[t].agent}}

Init ==
  /\ graph \in Graphs
  /\ plan = Planned
  /\ pc = [c \in Calls |-> "idle"]
  /\ copy = [c \in Calls |-> Planned]
  /\ output = {} /\ chosen = {} /\ disturbed = FALSE
  /\ starts = [t \in Tasks |-> 0]

Agent(t) == graph[t].agent
InState(tasks, S) == {t \in Tasks : tasks[t] \in S}
AgentsIn(tasks, S) == {Agent(t) : t \in InState(tasks, S)}

----------------------------------------------------------------------------
(* The shape of a request.                                                  *)

Begins(c, status, to) ==
  /\ pc[c] = "idle" /\ plan.status = status
  /\ pc' = [pc EXCEPT ![c] = to]
  /\ copy' = [copy EXCEPT ![c] = plan]
  /\ disturbed' = (disturbed \/ \E d \in Calls : pc[d] # "idle")
  /\ UNCHANGED <<graph, plan, output, starts, chosen>>

Puts(c, from, new, to) ==
  /\ pc[c] = from
  /\ plan' = new
  /\ pc' = [pc EXCEPT ![c] = to]
  /\ copy' = [copy EXCEPT ![c] = IF to = "idle" THEN Planned ELSE new]
  /\ UNCHANGED <<graph, disturbed>>

Started(S) == [t \in Tasks |-> IF t \in S /\ starts[t] < 2 THEN starts[t] + 1 ELSE starts[t]]

----------------------------------------------------------------------------
(* approve_agent_plan.                                                      *)

BeginApproval(c) == Begins(c, "PENDING_APPROVAL", "approving")

RejectPlan(c) ==
  /\ Puts(c, "approving", [copy[c] EXCEPT !.status = "REJECTED"], "idle")
  /\ UNCHANGED <<output, starts, chosen>>

\* The default selection is every task without a blocked_reason.
ApprovePlan(c) ==
  \E selected \in SUBSET Tasks, mode \in {"automatic", "stepwise"} :
    /\ Puts(c, "approving",
            [copy[c] EXCEPT !.status = "APPROVED", !.mode = mode,
               !.tasks = [t \in Tasks |-> IF t \notin selected THEN "SKIPPED"
                                          ELSE IF Agent(t) \in Withheld THEN "BLOCKED"
                                          ELSE copy[c].tasks[t]]], "idle")
    /\ chosen' = chosen \cup selected
    /\ UNCHANGED <<output, starts>>

----------------------------------------------------------------------------
(* execute_agent_plan, automatic: waves of ready tasks.                     *)

BeginExecution(c) == Begins(c, "APPROVED", "executing")

StartWaves(c) ==
  /\ copy[c].mode = "automatic"
  /\ Puts(c, "executing", [copy[c] EXCEPT !.status = "RUNNING"], "waves")
  /\ UNCHANGED <<output, starts, chosen>>

\* Mutants: some dependency is done; a dependency runs in the same wave.
DoneSome(t, tasks) ==
  graph[t].deps = {} \/ graph[t].deps \cap AgentsIn(tasks, {"COMPLETED"}) # {}

Done(t, tasks) == graph[t].deps \subseteq AgentsIn(tasks, {"COMPLETED"})

\* A dependency that has failed is recognised only if it was blocked when the
\* plan was approved: the check looks at the tasks of that time.
Hindered(t, tasks) ==
  graph[t].deps \cap {Agent(u) : u \in {v \in Tasks : tasks[v] = "BLOCKED" /\ Agent(v) \in Withheld}} # {}

Mark(tasks, S, status) == [t \in Tasks |-> IF t \in S THEN status ELSE tasks[t]]

\* Mutant: tasks whose dependencies cannot be met wait on.
NextWaveWaits(c) ==
  LET tasks == copy[c].tasks
      open == InState(tasks, Open)
      hindered == {t \in open : Hindered(t, tasks)}
      ready == {t \in open \ hindered : Done(t, tasks)}
  IN  /\ pc[c] = "waves" /\ InState(tasks, {"RUNNING"}) = {} /\ open # {}
      /\ copy' = [copy EXCEPT ![c].tasks = Mark(Mark(tasks, hindered, "BLOCKED"), ready, "RUNNING")]
      /\ starts' = Started(ready)
      /\ UNCHANGED <<graph, plan, pc, output, chosen, disturbed>>

\* The next wave: every task that can run now runs; if none can, the others
\* are blocked.
NextWave(c) ==
  LET tasks == copy[c].tasks
      open == InState(tasks, Open)
      hindered == {t \in open : Hindered(t, tasks)}
      ready == {t \in open \ hindered : Done(t, tasks)}
  IN  /\ pc[c] = "waves" /\ InState(tasks, {"RUNNING"}) = {} /\ open # {}
      /\ copy' = [copy EXCEPT ![c].tasks =
                    IF ready = {} THEN Mark(tasks, open, "BLOCKED")
                    ELSE Mark(Mark(tasks, hindered, "BLOCKED"), ready, "RUNNING")]
      /\ starts' = Started(ready)
      /\ UNCHANGED <<graph, plan, pc, output, chosen, disturbed>>

\* A task of the wave stores its artifacts and completes, or raises.
EndTask(c) ==
  /\ pc[c] = "waves"
  /\ \E t \in InState(copy[c].tasks, {"RUNNING"}) :
       \/ /\ copy' = [copy EXCEPT ![c].tasks[t] = "COMPLETED"]
          /\ output' = output \cup {t}
       \/ /\ copy' = [copy EXCEPT ![c].tasks[t] = "FAILED"]
          /\ UNCHANGED output
  /\ UNCHANGED <<graph, plan, pc, starts, chosen, disturbed>>

\* Mutant: a task that raised does not count.
FailedSilently(tasks) == \E t \in Tasks : tasks[t] = "BLOCKED" /\ Agent(t) \notin Withheld

\* The tasks blocked by the approval itself do not count as failed.
Failed(tasks) ==
  \E t \in Tasks : tasks[t] = "FAILED" \/ (tasks[t] = "BLOCKED" /\ Agent(t) \notin Withheld)

\* Mutant: the tasks as they were when the execution began.
EndWavesOld(c) ==
  /\ InState(copy[c].tasks, Open \cup {"RUNNING"}) = {}
  /\ Puts(c, "waves", [copy[c] EXCEPT !.tasks = plan.tasks,
                        !.status = IF Failed(copy[c].tasks) THEN "PARTIAL" ELSE "COMPLETED"], "idle")
  /\ UNCHANGED <<output, starts, chosen>>

EndWaves(c) ==
  LET tasks == copy[c].tasks
  IN  /\ InState(tasks, Open \cup {"RUNNING"}) = {}
      /\ Puts(c, "waves",
              [copy[c] EXCEPT !.status = IF ~Failed(tasks) THEN "COMPLETED"
                                         ELSE IF InState(tasks, {"COMPLETED"}) # {} THEN "PARTIAL"
                                         ELSE "BLOCKED"], "idle")
      /\ UNCHANGED <<output, starts, chosen>>

----------------------------------------------------------------------------
(* execute_agent_plan, stepwise, and continue_agent_plan.                   *)

\* The tasks in the plan's order, up to the first that is ready.
FirstReady(tasks) ==
  LET failed == AgentsIn(tasks, {"FAILED", "BLOCKED"})
      ready == {t \in InState(tasks, Open) : graph[t].deps \cap failed = {} /\ Done(t, tasks)}
  IN  IF ready = {} THEN None ELSE CHOOSE t \in ready : \A u \in ready : t <= u

BlockedBefore(tasks, n) ==
  Mark(tasks, {t \in InState(tasks, Open) :
                 (n = None \/ t < n)
                 /\ graph[t].deps \cap AgentsIn(tasks, {"FAILED", "BLOCKED"}) # {}}, "BLOCKED")

StartStep(c) ==
  LET n == FirstReady(copy[c].tasks)
  IN  /\ copy[c].mode = "stepwise" /\ n # None
      /\ Puts(c, "executing",
              [copy[c] EXCEPT !.status = "RUNNING",
                 !.tasks = Mark(BlockedBefore(copy[c].tasks, n), {n}, "RUNNING")], "stepping")
      /\ starts' = Started({n})
      /\ UNCHANGED <<output, chosen>>

NothingReady(c) ==
  LET tasks == BlockedBefore(copy[c].tasks, None)
  IN  /\ copy[c].mode = "stepwise" /\ FirstReady(copy[c].tasks) = None
      /\ Puts(c, "executing",
              [copy[c] EXCEPT !.tasks = tasks,
                 !.status = IF InState(tasks, Open) # {} THEN "BLOCKED"
                            ELSE IF InState(tasks, {"FAILED", "BLOCKED"}) # {} THEN "PARTIAL"
                            ELSE "COMPLETED"], "idle")
      /\ UNCHANGED <<output, starts, chosen>>

\* Mutant: the plan as it was when the step began.
EndStepOld(c) ==
  \E t \in InState(copy[c].tasks, {"RUNNING"}) :
     /\ Puts(c, "stepping", [copy[c] EXCEPT !.status = "WAITING_TASK_APPROVAL", !.review = t], "idle")
     /\ output' = output \cup {t}
     /\ UNCHANGED <<starts, chosen>>

\* One task is running: its output goes to review, or its failure ends the
\* plan.
EndStep(c) ==
  \E t \in InState(copy[c].tasks, {"RUNNING"}) :
     /\ \/ /\ Puts(c, "stepping", [copy[c] EXCEPT !.status = "WAITING_TASK_APPROVAL",
                                     !.tasks[t] = "COMPLETED", !.review = t], "idle")
           /\ output' = output \cup {t}
        \/ /\ Puts(c, "stepping", [copy[c] EXCEPT !.status = "PARTIAL",
                                     !.tasks[t] = "FAILED", !.review = None], "idle")
           /\ UNCHANGED output
     /\ UNCHANGED <<starts, chosen>>

BeginReview(c) == Begins(c, "WAITING_TASK_APPROVAL", "reviewing")

RequireRework(c) ==
  /\ Puts(c, "reviewing", [copy[c] EXCEPT !.status = "REWORK_REQUIRED", !.review = None], "idle")
  /\ UNCHANGED <<output, starts, chosen>>

ApproveStep(c) ==
  /\ Puts(c, "reviewing", [copy[c] EXCEPT !.status = "APPROVED", !.review = None], "again")
  /\ UNCHANGED <<output, starts, chosen>>

\* The same request goes on to execute_agent_plan, which reads the plan anew
\* and raises if it is not APPROVED any more.
ExecuteOn(c) ==
  /\ pc[c] = "again"
  /\ IF plan.status = "APPROVED"
     THEN /\ pc' = [pc EXCEPT ![c] = "executing"]
          /\ copy' = [copy EXCEPT ![c] = plan]
     ELSE /\ pc' = [pc EXCEPT ![c] = "idle"]
          /\ copy' = [copy EXCEPT ![c] = Planned]
  /\ UNCHANGED <<graph, plan, output, starts, chosen, disturbed>>

\* _record_audit has put the artifacts of a running task, and a write after it
\* fails, or the process dies before the task is completed.
StoresOnly(c) ==
  /\ pc[c] \in {"waves", "stepping"}
  /\ \E t \in InState(copy[c].tasks, {"RUNNING"}) : output' = output \cup {t}
  /\ disturbed' = TRUE
  /\ UNCHANGED <<graph, plan, pc, copy, starts, chosen>>

\* A restart: the store remains.
Crash ==
  /\ \E c \in Calls : pc[c] # "idle"
  /\ pc' = [c \in Calls |-> "idle"]
  /\ copy' = [c \in Calls |-> Planned]
  /\ disturbed' = TRUE
  /\ UNCHANGED <<graph, plan, output, starts, chosen>>

\* What a request goes on to do once it has begun.
Proceeds(c) ==
  \/ RejectPlan(c) \/ ApprovePlan(c)
  \/ StartWaves(c) \/ NextWave(c) \/ EndTask(c) \/ EndWaves(c)
  \/ StartStep(c) \/ NothingReady(c) \/ EndStep(c)
  \/ RequireRework(c) \/ ApproveStep(c) \/ ExecuteOn(c)

Next ==
  \/ Crash
  \/ \E c \in Calls : BeginApproval(c) \/ BeginExecution(c) \/ BeginReview(c) \/ Proceeds(c) \/ StoresOnly(c)

\* A request that has begun goes on; an agent answers or its call times out.
Spec == Init /\ [][Next]_vars /\ \A c \in Calls : WF_vars(Proceeds(c))

----------------------------------------------------------------------------
Plans == [status : PlanStatuses, mode : {"automatic", "stepwise"}, review : Tasks \cup {None},
          tasks : [Tasks -> TaskStatuses]]

\* Types.
TypeOK ==
  /\ graph \in Graphs
  /\ plan \in Plans
  /\ pc \in [Calls -> {"idle", "approving", "executing", "waves", "stepping", "reviewing", "again"}]
  /\ copy \in [Calls -> Plans]
  /\ output \subseteq Tasks
  /\ starts \in [Tasks -> 0 .. 2]
  /\ chosen \subseteq Tasks
  /\ disturbed \in BOOLEAN

\* A running task finds, in the artifact store, an output of every agent it
\* depends on, and somebody has selected it: whatever plan is drafted, whatever
\* fails, is reworked or is cut short by a restart. (The run has one request at
\* a time; for requests that overlap it is theorem TasksAreFed.)
InputsExist ==
  \A c \in Calls : \A t \in InState(copy[c].tasks, {"RUNNING"}) :
    pc[c] \in {"waves", "stepping"} =>
      t \in chosen /\ \A a \in graph[t].deps : \E u \in output : Agent(u) = a

\* A plan shown as completed has completed every task that was selected,
\* except those that the planner itself had blocked, also after a wave that
\* failed in part or a write that failed. (Overlap: theorem CompletedIsTrue.)
CompletedMeansDone ==
  plan.status = "COMPLETED" =>
    \A t \in Tasks : \/ plan.tasks[t] = "COMPLETED" /\ t \in output
                     \/ plan.tasks[t] = "SKIPPED"
                     \/ plan.tasks[t] = "BLOCKED" /\ Agent(t) \in Withheld

\* What is up for review is a completed task with an output, through rework and
\* restarts. That a step which ends late presents nothing else, over a plan that
\* another request has decided meanwhile, is theorem ReviewIsReal.
ReviewHasOutput ==
  /\ plan.status = "WAITING_TASK_APPROVAL" <=> plan.review # None
  /\ plan.review # None => plan.tasks[plan.review] = "COMPLETED" /\ plan.review \in output

\* With requests one after another that end as they should: no task is started twice,
\* and every output in the store is listed by its task in the plan, so that
\* it can be reviewed, applied and promoted.
OnceUndisturbed ==
  ~disturbed =>
    /\ \A t \in Tasks : starts[t] <= 1
    /\ (\A c \in Calls : pc[c] = "idle") => output = InState(plan.tasks, {"COMPLETED"})

\* A request ends, also when tasks wait for each other or for a task that
\* was not selected.
RequestsEnd == \A c \in Calls : pc[c] # "idle" ~> pc[c] = "idle"

\* "Run exactly one dependency-ready task and pause for human review": no
\* task of a stepwise plan runs while another runs or awaits its review.
OneStepAtATime ==
  \A c \in Calls : pc[c] = "stepping" =>
    /\ plan.status # "WAITING_TASK_APPROVAL"
    /\ \A d \in Calls \ {c} : pc[d] # "stepping"
=============================================================================
