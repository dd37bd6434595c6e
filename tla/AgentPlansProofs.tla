-------------------------- MODULE AgentPlansProofs --------------------------
(***************************************************************************)
(* Proofs about AgentPlans, for any plan a model may draft and any number  *)
(* of concurrent requests: a task runs only on outputs that exist, and     *)
(* what a plan shows as completed or up for review is so.                  *)
(***************************************************************************)
EXTENDS AgentPlans, WellFoundedInduction, TLAPS

\* Somebody has selected the task, and what it depends on exists.
Fed(t) == t \in chosen /\ \A a \in graph[t].deps : \E u \in output : Agent(u) = a

Finished(p, t) == \/ p.tasks[t] = "COMPLETED"
                  \/ p.tasks[t] = "SKIPPED"
                  \/ p.tasks[t] = "BLOCKED" /\ Agent(t) \in Withheld

\* A plan, in the store or in the hands of a request.
SoundPlan(p) ==
  /\ \A t \in Tasks : p.tasks[t] = "COMPLETED" => t \in output
  /\ \A t \in Tasks : p.tasks[t] = "RUNNING" => Fed(t)
  /\ p.status \notin {"PENDING_APPROVAL", "REJECTED"} =>
       \A t \in Tasks : p.tasks[t] = "PLANNED" => t \in chosen
  /\ p.status = "WAITING_TASK_APPROVAL" <=> p.review # None
  /\ p.review # None => p.tasks[p.review] = "COMPLETED"
  /\ p.status \in {"PENDING_APPROVAL", "APPROVED", "WAITING_TASK_APPROVAL"} =>
       \A t \in Tasks : p.tasks[t] # "RUNNING"
  /\ p.status = "COMPLETED" => \A t \in Tasks : Finished(p, t)

\* What a request knows of the plan it works on.
AtPlace(c) ==
  /\ pc[c] = "approving" => copy[c].status = "PENDING_APPROVAL"
  /\ pc[c] = "executing" => copy[c].status = "APPROVED"
  /\ pc[c] \in {"waves", "stepping"} => copy[c].status = "RUNNING"
  /\ pc[c] = "stepping" =>
       \A t, u \in Tasks : copy[c].tasks[t] = "RUNNING" /\ copy[c].tasks[u] = "RUNNING" => t = u
  /\ pc[c] = "reviewing" => copy[c].status = "WAITING_TASK_APPROVAL"

PInv == /\ TypeOK
        /\ SoundPlan(plan)
        /\ \A c \in Calls : SoundPlan(copy[c]) /\ AtPlace(c)

----------------------------------------------------------------------------
LEMMA PlannedIsSound == Planned \in Plans /\ SoundPlan(Planned)
BY ConstantsAssumption DEF Planned, Plans, PlanStatuses, TaskStatuses, SoundPlan

\* Outputs and selections are only added.
LEMMA SoundStays ==
  ASSUME NEW p, SoundPlan(p), p.review # None => p.review \in Tasks,
         output \subseteq output', chosen \subseteq chosen', graph' = graph
  PROVE  SoundPlan(p)'
<1>1. \A t \in Tasks : Fed(t) => Fed(t)'  BY DEF Fed, Agent
<1>2. \A t \in Tasks : Finished(p, t) => Finished(p, t)'  BY DEF Finished, Agent
<1> QED BY <1>1, <1>2 DEF SoundPlan

\* A step in which one request changes its copy and perhaps the store.
LEMMA StepKeeps ==
  ASSUME PInv, NEW c \in Calls, TypeOK',
         output \subseteq output', chosen \subseteq chosen', graph' = graph,
         plan' = plan \/ SoundPlan(plan)',
         SoundPlan(copy[c])', AtPlace(c)',
         \A d \in Calls \ {c} : pc'[d] = pc[d] /\ copy'[d] = copy[d]
  PROVE  PInv'
<1>1. SoundPlan(plan)'
  <2>1. CASE plan' = plan
    <3>1. SoundPlan(plan) /\ (plan.review # None => plan.review \in Tasks)
      BY DEF PInv, TypeOK, Plans
    <3>2. \A t \in Tasks : Fed(t) => Fed(t)'  BY DEF Fed, Agent
    <3>3. \A t \in Tasks : Finished(plan, t) => Finished(plan, t)'  BY <2>1 DEF Finished, Agent
    <3> QED BY <2>1, <3>1, <3>2, <3>3 DEF SoundPlan
  <2> QED BY <2>1
<1>2. ASSUME NEW d \in Calls, d # c  PROVE SoundPlan(copy[d])' /\ AtPlace(d)'
  <2>1. copy'[d] = copy[d] /\ pc'[d] = pc[d]  BY <1>2
  <2>2. SoundPlan(copy[d]) /\ AtPlace(d)  BY DEF PInv
  <2>3. \A t \in Tasks : Fed(t) => Fed(t)'  BY DEF Fed, Agent
  <2>4. \A t \in Tasks : Finished(copy[d], t) => Finished(copy[d], t)'  BY <2>1 DEF Finished, Agent
  <2> QED BY <2>1, <2>2, <2>3, <2>4 DEF SoundPlan, AtPlace
<1> QED BY <1>1, <1>2 DEF PInv

Places == {"idle", "approving", "executing", "waves", "stepping", "reviewing", "again"}

LEMMA PutsKeep ==
  ASSUME PInv, NEW c \in Calls, NEW from, NEW new \in Plans, NEW to \in Places,
         Puts(c, from, new, to),
         output \subseteq output', output' \subseteq Tasks,
         chosen \subseteq chosen', chosen' \subseteq Tasks, starts' \in [Tasks -> 0 .. 2],
         SoundPlan(plan)',
         \/ to \in {"idle", "again"}
         \/ to = "waves" /\ new.status = "RUNNING"
         \/ /\ to = "stepping" /\ new.status = "RUNNING"
            /\ \A t, u \in Tasks : new.tasks[t] = "RUNNING" /\ new.tasks[u] = "RUNNING" => t = u
  PROVE  PInv'
<1>1. TypeOK'  BY PlannedIsSound DEF PInv, TypeOK, Puts, Places
<1>2. pc'[c] = to /\ plan' = new /\ copy'[c] = IF to = "idle" THEN Planned ELSE new
  BY DEF PInv, TypeOK, Puts
<1>3. SoundPlan(copy[c])'
  <2>1. CASE to = "idle"
    <3>1. copy'[c] = Planned  BY <1>2, <2>1
    <3> QED BY <3>1, ConstantsAssumption DEF SoundPlan, Planned
  <2>2. CASE to # "idle"
    <3>1. copy'[c] = plan'  BY <1>2, <2>2
    <3> QED BY <3>1 DEF SoundPlan, Finished
  <2> QED BY <2>1, <2>2
<1>4. AtPlace(c)'  BY <1>2 DEF AtPlace
<1> QED BY <1>1, <1>3, <1>4, StepKeeps DEF Puts, PInv, TypeOK

LEMMA BeginsKeep ==
  ASSUME PInv, NEW c \in Calls, NEW status, NEW to \in Places, Begins(c, status, to),
         \/ to = "approving" /\ status = "PENDING_APPROVAL"
         \/ to = "executing" /\ status = "APPROVED"
         \/ to = "reviewing" /\ status = "WAITING_TASK_APPROVAL"
  PROVE  PInv'
<1>1. TypeOK'  BY DEF PInv, TypeOK, Begins, Places
<1>2. pc'[c] = to /\ copy'[c] = plan /\ plan.status = status
  BY DEF PInv, TypeOK, Begins
<1>3. SoundPlan(copy[c])'
  BY <1>2 DEF PInv, SoundPlan, Begins, Fed, Finished, Agent
<1>4. AtPlace(c)'  BY <1>2 DEF AtPlace
<1> QED BY <1>1, <1>3, <1>4, StepKeeps DEF Begins, PInv, TypeOK

LEMMA CopyIsSound ==
  ASSUME PInv, NEW c \in Calls
  PROVE  copy[c] \in Plans /\ SoundPlan(copy[c]) /\ AtPlace(c)
         /\ output \subseteq Tasks /\ chosen \subseteq Tasks /\ starts \in [Tasks -> 0 .. 2]
BY DEF PInv, TypeOK

LEMMA StartedType == ASSUME PInv, NEW S  PROVE Started(S) \in [Tasks -> 0 .. 2]
BY DEF PInv, TypeOK, Started

----------------------------------------------------------------------------
(* Approval and review.                                                     *)

LEMMA RejectPlanKeeps ==
  ASSUME PInv, NEW c \in Calls, RejectPlan(c)  PROVE PInv'
<1> DEFINE new == [copy[c] EXCEPT !.status = "REJECTED"]
<1>1. copy[c] \in Plans /\ SoundPlan(copy[c]) /\ copy[c].status = "PENDING_APPROVAL"
  BY CopyIsSound DEF RejectPlan, Puts, AtPlace
<1>2. new \in Plans  BY <1>1 DEF Plans, PlanStatuses
<1>3. plan' = new /\ output' = output /\ chosen' = chosen /\ graph' = graph /\ starts' = starts
  BY DEF RejectPlan, Puts
<1>4. SoundPlan(plan)'
  BY <1>1, <1>3 DEF SoundPlan, Plans, Fed, Agent
<1> QED BY <1>2, <1>3, <1>4, CopyIsSound, PutsKeep DEF RejectPlan, Places

LEMMA ApprovePlanKeeps ==
  ASSUME PInv, NEW c \in Calls, ApprovePlan(c)  PROVE PInv'
<1> DEFINE tasks(S) == [t \in Tasks |-> IF t \notin S THEN "SKIPPED"
                                        ELSE IF Agent(t) \in Withheld THEN "BLOCKED"
                                        ELSE copy[c].tasks[t]]
           new(S, m) == [copy[c] EXCEPT !.status = "APPROVED", !.mode = m, !.tasks = tasks(S)]
<1>1. PICK selected \in SUBSET Tasks, mode \in {"automatic", "stepwise"} :
        /\ Puts(c, "approving", new(selected, mode), "idle")
        /\ chosen' = chosen \cup selected
        /\ UNCHANGED <<output, starts>>
  BY DEF ApprovePlan
<1>2. copy[c] \in Plans /\ SoundPlan(copy[c]) /\ copy[c].status = "PENDING_APPROVAL"
  BY <1>1, CopyIsSound DEF Puts, AtPlace
<1>3. tasks(selected) \in [Tasks -> TaskStatuses]
  BY <1>2 DEF Plans, TaskStatuses
<1>4. new(selected, mode) \in Plans
  BY <1>2, <1>3 DEF Plans, PlanStatuses
<1>5. /\ plan' = new(selected, mode) /\ graph' = graph
      /\ plan'.status = "APPROVED" /\ plan'.review = copy[c].review /\ plan'.tasks = tasks(selected)
  BY <1>1, <1>2 DEF Puts, Plans
<1>6. \A t \in Tasks : tasks(selected)[t] \in {"PLANNED", "COMPLETED", "RUNNING"} =>
        t \in selected /\ tasks(selected)[t] = copy[c].tasks[t]
  OBVIOUS
<1>7. copy[c].review = None  BY <1>2 DEF SoundPlan
<1>8. SoundPlan(plan)'
  <2> HIDE DEF tasks, new
  <2> QED BY <1>1, <1>2, <1>5, <1>6, <1>7 DEF SoundPlan
<1> QED BY <1>1, <1>4, <1>8, CopyIsSound, PutsKeep DEF Places

LEMMA ReviewedKeeps ==
  ASSUME PInv, NEW c \in Calls, RequireRework(c) \/ ApproveStep(c)  PROVE PInv'
<1> DEFINE new(s) == [copy[c] EXCEPT !.status = s, !.review = None]
<1>1. PICK s \in {"REWORK_REQUIRED", "APPROVED"}, to \in {"idle", "again"} :
        Puts(c, "reviewing", new(s), to)
  BY DEF RequireRework, ApproveStep
<1>2. output' = output /\ chosen' = chosen /\ starts' = starts
  BY DEF RequireRework, ApproveStep
<1>3. copy[c] \in Plans /\ SoundPlan(copy[c]) /\ copy[c].status = "WAITING_TASK_APPROVAL"
  BY <1>1, CopyIsSound DEF Puts, AtPlace
<1>4. new(s) \in Plans  BY <1>3 DEF Plans, PlanStatuses
<1>5. plan' = new(s) /\ graph' = graph  BY <1>1 DEF Puts
<1>6. SoundPlan(plan)'
  BY <1>2, <1>3, <1>5 DEF SoundPlan, Plans, Fed, Agent
<1> QED BY <1>1, <1>2, <1>4, <1>6, CopyIsSound, PutsKeep DEF Places

LEMMA ExecuteOnKeeps ==
  ASSUME PInv, NEW c \in Calls, ExecuteOn(c)  PROVE PInv'
<1>1. TypeOK'  BY PlannedIsSound DEF PInv, TypeOK, ExecuteOn
<1>2. \/ pc'[c] = "executing" /\ copy'[c] = plan /\ plan.status = "APPROVED"
      \/ pc'[c] = "idle" /\ copy'[c] = Planned
  BY DEF PInv, TypeOK, ExecuteOn
<1>3. SoundPlan(copy[c])'
  BY <1>2, PlannedIsSound DEF PInv, SoundPlan, ExecuteOn, Fed, Finished, Agent
<1>4. AtPlace(c)'  BY <1>2 DEF AtPlace
<1> QED BY <1>1, <1>3, <1>4, StepKeeps DEF ExecuteOn, PInv, TypeOK

----------------------------------------------------------------------------
(* Waves.                                                                   *)

\* A task whose dependencies are done, and that somebody selected, is fed.
LEMMA DoneIsFed ==
  ASSUME NEW p \in Plans, SoundPlan(p), p.status \notin {"PENDING_APPROVAL", "REJECTED"},
         NEW t \in Tasks, p.tasks[t] = "PLANNED", Done(t, p.tasks)
  PROVE  Fed(t)
<1>1. t \in chosen  BY DEF SoundPlan
<1>2. \A a \in graph[t].deps : \E u \in output : Agent(u) = a
  BY DEF Done, AgentsIn, InState, SoundPlan
<1> QED BY <1>1, <1>2 DEF Fed

LEMMA MarkType ==
  ASSUME NEW tasks \in [Tasks -> TaskStatuses], NEW S, NEW s \in TaskStatuses
  PROVE  Mark(tasks, S, s) \in [Tasks -> TaskStatuses]
BY DEF Mark

LEMMA StartWavesKeeps ==
  ASSUME PInv, NEW c \in Calls, StartWaves(c)  PROVE PInv'
<1> DEFINE new == [copy[c] EXCEPT !.status = "RUNNING"]
<1>1. copy[c] \in Plans /\ SoundPlan(copy[c]) /\ copy[c].status = "APPROVED"
  BY CopyIsSound DEF StartWaves, Puts, AtPlace
<1>2. new \in Plans /\ new.status = "RUNNING"  BY <1>1 DEF Plans, PlanStatuses
<1>3. plan' = new /\ output' = output /\ chosen' = chosen /\ graph' = graph /\ starts' = starts
  BY DEF StartWaves, Puts
<1>4. SoundPlan(plan)'
  BY <1>1, <1>3 DEF SoundPlan, Plans, Fed, Agent
<1> QED BY <1>2, <1>3, <1>4, CopyIsSound, PutsKeep DEF StartWaves, Places

\* A request changes the tasks of its copy.
LEMMA CopyKeeps ==
  ASSUME PInv, NEW c \in Calls, pc[c] = "waves",
         NEW tasks \in [Tasks -> TaskStatuses], copy' = [copy EXCEPT ![c].tasks = tasks],
         output \subseteq output', output' \subseteq Tasks, starts' \in [Tasks -> 0 .. 2],
         UNCHANGED <<graph, plan, pc, chosen, disturbed>>,
         \A t \in Tasks : tasks[t] = "COMPLETED" => t \in output',
         \A t \in Tasks : tasks[t] = "RUNNING" => Fed(t),
         \A t \in Tasks : tasks[t] = "PLANNED" => copy[c].tasks[t] = "PLANNED"
  PROVE  PInv'
<1>1. copy[c] \in Plans /\ SoundPlan(copy[c]) /\ copy[c].status = "RUNNING"
  BY CopyIsSound DEF AtPlace
<1>2. copy'[c] = [copy[c] EXCEPT !.tasks = tasks]
  BY DEF PInv, TypeOK
<1>3. copy'[c] \in Plans /\ copy'[c].status = "RUNNING" /\ copy'[c].tasks = tasks
      /\ copy'[c].review = copy[c].review
  BY <1>1, <1>2 DEF Plans
<1>4. TypeOK'  BY <1>3 DEF PInv, TypeOK
<1>5. \A t \in Tasks : Fed(t) => Fed(t)'  BY DEF Fed, Agent
<1>6. copy[c].review = None  BY <1>1 DEF SoundPlan
<1>7. SoundPlan(copy[c])'
  BY <1>1, <1>3, <1>5, <1>6 DEF SoundPlan
<1>8. AtPlace(c)'  BY <1>3 DEF AtPlace
<1> QED BY <1>4, <1>7, <1>8, StepKeeps DEF PInv, TypeOK

LEMMA NextWaveKeeps ==
  ASSUME PInv, NEW c \in Calls, NextWave(c)  PROVE PInv'
<1> DEFINE tasks == copy[c].tasks
           open == InState(tasks, Open)
           hindered == {t \in open : Hindered(t, tasks)}
           ready == {t \in open \ hindered : Done(t, tasks)}
           new == IF ready = {} THEN Mark(tasks, open, "BLOCKED")
                  ELSE Mark(Mark(tasks, hindered, "BLOCKED"), ready, "RUNNING")
<1>1. /\ pc[c] = "waves" /\ copy' = [copy EXCEPT ![c].tasks = new] /\ starts' = Started(ready)
      /\ InState(tasks, {"RUNNING"}) = {}
      /\ UNCHANGED <<graph, plan, pc, output, chosen, disturbed>>
  BY DEF NextWave
<1>2. copy[c] \in Plans /\ SoundPlan(copy[c]) /\ copy[c].status = "RUNNING"
  BY <1>1, CopyIsSound DEF AtPlace
<1>3. tasks \in [Tasks -> TaskStatuses]  BY <1>2 DEF Plans
<1>4. new \in [Tasks -> TaskStatuses]
  <2> HIDE DEF tasks, open, hindered, ready
  <2> QED BY <1>3, MarkType DEF TaskStatuses
<1>5. \A t \in Tasks : \/ new[t] = "BLOCKED"
                       \/ new[t] = "RUNNING" /\ t \in ready
                       \/ new[t] = tasks[t]
  <2> HIDE DEF tasks, open, hindered, ready
  <2> QED BY DEF Mark
<1>6. \A t \in Tasks : tasks[t] # "RUNNING"  BY <1>1 DEF InState
<1>7. \A t \in ready : tasks[t] = "PLANNED" /\ Fed(t)
  <2> SUFFICES ASSUME NEW t \in ready  PROVE tasks[t] = "PLANNED" /\ Fed(t)
    OBVIOUS
  <2>1. t \in Tasks /\ tasks[t] = "PLANNED" /\ Done(t, tasks)  BY DEF InState, Open
  <2> QED BY <1>2, <2>1, DoneIsFed
<1>8. \A t \in Tasks : tasks[t] = "COMPLETED" => t \in output  BY <1>2 DEF SoundPlan
<1>9. Started(ready) \in [Tasks -> 0 .. 2]  BY StartedType
<1> HIDE DEF tasks, open, hindered, ready, new
<1>10. /\ \A t \in Tasks : new[t] = "COMPLETED" => t \in output'
       /\ \A t \in Tasks : new[t] = "RUNNING" => Fed(t)
       /\ \A t \in Tasks : new[t] = "PLANNED" => tasks[t] = "PLANNED"
  BY <1>1, <1>5, <1>6, <1>7, <1>8
<1> QED BY <1>1, <1>4, <1>9, <1>10, CopyIsSound, CopyKeeps DEF tasks

LEMMA EndTaskKeeps ==
  ASSUME PInv, NEW c \in Calls, EndTask(c)  PROVE PInv'
<1>1. PICK t \in InState(copy[c].tasks, {"RUNNING"}) :
        \/ copy' = [copy EXCEPT ![c].tasks[t] = "COMPLETED"] /\ output' = output \cup {t}
        \/ copy' = [copy EXCEPT ![c].tasks[t] = "FAILED"] /\ output' = output
  BY DEF EndTask
<1>2. pc[c] = "waves" /\ UNCHANGED <<graph, plan, pc, starts, chosen, disturbed>>
  BY DEF EndTask
<1>3. copy[c] \in Plans /\ SoundPlan(copy[c]) /\ t \in Tasks
  BY CopyIsSound, <1>1 DEF InState
<1>4. PICK s \in {"COMPLETED", "FAILED"} :
        copy' = [copy EXCEPT ![c].tasks = [copy[c].tasks EXCEPT ![t] = s]]
        /\ output' = IF s = "COMPLETED" THEN output \cup {t} ELSE output
  <2>1. CASE copy' = [copy EXCEPT ![c].tasks[t] = "COMPLETED"] /\ output' = output \cup {t}
    BY <2>1
  <2>2. CASE copy' = [copy EXCEPT ![c].tasks[t] = "FAILED"] /\ output' = output
    BY <2>2
  <2> QED BY <1>1, <2>1, <2>2
<1> DEFINE new == [copy[c].tasks EXCEPT ![t] = s]
<1>5. new \in [Tasks -> TaskStatuses] /\ \A u \in Tasks : new[u] = IF u = t THEN s ELSE copy[c].tasks[u]
  BY <1>3 DEF Plans, TaskStatuses
<1>6. output \subseteq output' /\ output' \subseteq Tasks  BY <1>3, <1>4, CopyIsSound
<1>7. /\ \A u \in Tasks : new[u] = "COMPLETED" => u \in output'
      /\ \A u \in Tasks : new[u] = "RUNNING" => Fed(u)
      /\ \A u \in Tasks : new[u] = "PLANNED" => copy[c].tasks[u] = "PLANNED"
  BY <1>3, <1>4, <1>5 DEF SoundPlan
<1> HIDE DEF new
<1>8. copy' = [copy EXCEPT ![c].tasks = new]  BY <1>4 DEF new
<1> QED BY <1>2, <1>5, <1>6, <1>7, <1>8, CopyIsSound, CopyKeeps

LEMMA EndWavesKeeps ==
  ASSUME PInv, NEW c \in Calls, EndWaves(c)  PROVE PInv'
<1> DEFINE status == IF ~Failed(copy[c].tasks) THEN "COMPLETED"
                     ELSE IF InState(copy[c].tasks, {"COMPLETED"}) # {} THEN "PARTIAL" ELSE "BLOCKED"
           new == [copy[c] EXCEPT !.status = status]
<1>1. /\ Puts(c, "waves", new, "idle") /\ UNCHANGED <<output, starts, chosen>>
      /\ InState(copy[c].tasks, Open \cup {"RUNNING"}) = {}
  BY DEF EndWaves
<1>2. copy[c] \in Plans /\ SoundPlan(copy[c]) /\ copy[c].status = "RUNNING"
  BY <1>1, CopyIsSound DEF Puts, AtPlace
<1>3. status \in {"COMPLETED", "PARTIAL", "BLOCKED"}  OBVIOUS
<1>4. status = "COMPLETED" => \A t \in Tasks : Finished(copy[c], t)
  BY <1>1, <1>2 DEF Failed, Finished, InState, Open, Plans, TaskStatuses
<1> HIDE DEF status
<1>5. new \in Plans  BY <1>2, <1>3 DEF Plans, PlanStatuses
<1>6. plan' = new /\ graph' = graph  BY <1>1 DEF Puts
<1>7. SoundPlan(plan)'
  BY <1>1, <1>2, <1>3, <1>4, <1>6 DEF SoundPlan, Plans, Fed, Finished, Agent
<1> QED BY <1>1, <1>5, <1>7, CopyIsSound, PutsKeep DEF Places

----------------------------------------------------------------------------
(* Steps.                                                                   *)

LEMMA LeastNat ==
  ASSUME NEW S \in SUBSET Nat, S # {}
  PROVE  \E t \in S : \A u \in S : t <= u
<1> DEFINE R == {p \in Nat \X Nat : p[1] < p[2]}
<1>1. IsWellFoundedOn(R, Nat)  BY NatLessThanWellFounded DEF OpToRel
<1> HIDE DEF R
<1>2. \E t \in S : \A u \in S : <<u, t>> \notin R  BY <1>1, WFMin
<1>3. PICK t \in S : \A u \in S : <<u, t>> \notin R  BY <1>2
<1>4. \A u \in S : t <= u
  <2> SUFFICES ASSUME NEW u \in S  PROVE t <= u
    OBVIOUS
  <2>1. u \in Nat /\ t \in Nat /\ <<u, t>> \in Nat \X Nat  OBVIOUS
  <2>2. ~(u < t)  BY <1>3, <2>1 DEF R
  <2> QED BY <2>1, <2>2
<1> QED BY <1>4

LEMMA FirstReadyIsReady ==
  ASSUME NEW old, FirstReady(old) # None
  PROVE  FirstReady(old) \in Tasks /\ old[FirstReady(old)] = "PLANNED" /\ Done(FirstReady(old), old)
<1> DEFINE n == FirstReady(old)
           ready == {t \in InState(old, Open) : graph[t].deps \cap AgentsIn(old, {"FAILED", "BLOCKED"}) = {}
                                                 /\ Done(t, old)}
<1>1. ready # {} /\ n = CHOOSE t \in ready : \A u \in ready : t <= u
  BY DEF FirstReady
<1>2. ready \subseteq Nat /\ ready # {}
  BY <1>1 DEF InState, Tasks
<1>3. \E t \in ready : \A u \in ready : t <= u
  BY <1>2, LeastNat
<1>4. n \in ready  BY <1>1, <1>3
<1> QED BY <1>4 DEF InState, Open

LEMMA BlockedBeforeKeeps ==
  ASSUME NEW tasks \in [Tasks -> TaskStatuses], NEW n
  PROVE  /\ BlockedBefore(tasks, n) \in [Tasks -> TaskStatuses]
         /\ \A t \in Tasks : \/ BlockedBefore(tasks, n)[t] = "BLOCKED"
                             \/ BlockedBefore(tasks, n)[t] = tasks[t]
         /\ \A t \in Tasks : tasks[t] # "PLANNED" => BlockedBefore(tasks, n)[t] = tasks[t]
BY DEF BlockedBefore, Mark, TaskStatuses, InState, Open

LEMMA StartStepKeeps ==
  ASSUME PInv, NEW c \in Calls, StartStep(c)  PROVE PInv'
<1> DEFINE old == copy[c].tasks
           n == FirstReady(old)
           tasks == Mark(BlockedBefore(old, n), {n}, "RUNNING")
           new == [copy[c] EXCEPT !.status = "RUNNING", !.tasks = tasks]
<1>1. /\ Puts(c, "executing", new, "stepping") /\ n # None
      /\ starts' = Started({n}) /\ UNCHANGED <<output, chosen>>
  BY DEF StartStep
<1>2. copy[c] \in Plans /\ SoundPlan(copy[c]) /\ copy[c].status = "APPROVED"
  BY <1>1, CopyIsSound DEF Puts, AtPlace
<1>3. old \in [Tasks -> TaskStatuses] /\ \A t \in Tasks : old[t] # "RUNNING"
  BY <1>2 DEF Plans, SoundPlan
<1>4. n \in Tasks /\ old[n] = "PLANNED" /\ Done(n, old)
  BY <1>1, FirstReadyIsReady
<1>5. Fed(n)  BY <1>2, <1>4, DoneIsFed
<1> HIDE DEF n, old
<1>6. tasks \in [Tasks -> TaskStatuses]
      /\ \A t \in Tasks : \/ t = n /\ tasks[t] = "RUNNING"
                          \/ t # n /\ tasks[t] = "BLOCKED"
                          \/ t # n /\ tasks[t] = old[t]
  BY <1>3, BlockedBeforeKeeps DEF Mark, TaskStatuses
<1> HIDE DEF tasks
<1>7. new \in Plans /\ new.status = "RUNNING" /\ new.tasks = tasks /\ new.review = copy[c].review
  BY <1>2, <1>6 DEF Plans, PlanStatuses
<1>8. plan' = new /\ graph' = graph  BY <1>1 DEF Puts
<1>9. copy[c].review = None  BY <1>2 DEF SoundPlan
<1>10. \A t \in Tasks : Fed(t) => Fed(t)'  BY <1>1, <1>8 DEF Fed, Agent
<1>11. SoundPlan(plan)'
  <2>1. \A t \in Tasks : tasks[t] = "COMPLETED" => t \in output
    BY <1>2, <1>6 DEF SoundPlan, old
  <2>2. \A t \in Tasks : tasks[t] = "RUNNING" => Fed(t)'
    BY <1>3, <1>5, <1>6, <1>10
  <2>3. \A t \in Tasks : tasks[t] = "PLANNED" => t \in chosen
    BY <1>2, <1>6 DEF SoundPlan, old
  <2> QED BY <1>1, <1>7, <1>8, <1>9, <2>1, <2>2, <2>3 DEF SoundPlan
<1>12. \A t, u \in Tasks : new.tasks[t] = "RUNNING" /\ new.tasks[u] = "RUNNING" => t = u
  BY <1>3, <1>6, <1>7
<1>13. starts' \in [Tasks -> 0 .. 2]  BY <1>1, StartedType
<1> HIDE DEF new
<1> QED BY <1>1, <1>7, <1>11, <1>12, <1>13, CopyIsSound, PutsKeep DEF Places

LEMMA NothingReadyKeeps ==
  ASSUME PInv, NEW c \in Calls, NothingReady(c)  PROVE PInv'
<1> DEFINE tasks == BlockedBefore(copy[c].tasks, None)
           status == IF InState(tasks, Open) # {} THEN "BLOCKED"
                     ELSE IF InState(tasks, {"FAILED", "BLOCKED"}) # {} THEN "PARTIAL"
                     ELSE "COMPLETED"
           new == [copy[c] EXCEPT !.tasks = tasks, !.status = status]
<1>1. Puts(c, "executing", new, "idle") /\ UNCHANGED <<output, starts, chosen>>
  BY DEF NothingReady
<1>2. copy[c] \in Plans /\ SoundPlan(copy[c]) /\ copy[c].status = "APPROVED"
  BY <1>1, CopyIsSound DEF Puts, AtPlace
<1>3. copy[c].tasks \in [Tasks -> TaskStatuses] /\ \A t \in Tasks : copy[c].tasks[t] # "RUNNING"
  BY <1>2 DEF Plans, SoundPlan
<1>4. tasks \in [Tasks -> TaskStatuses]
      /\ \A t \in Tasks : tasks[t] = "BLOCKED" \/ tasks[t] = copy[c].tasks[t]
  BY <1>3, BlockedBeforeKeeps
<1> HIDE DEF tasks
<1>5. status \in {"BLOCKED", "PARTIAL", "COMPLETED"}
      /\ (status = "COMPLETED" => \A t \in Tasks : tasks[t] \in {"COMPLETED", "SKIPPED"})
  BY <1>3, <1>4 DEF InState, Open, TaskStatuses
<1> HIDE DEF status
<1>6. new \in Plans /\ new.status = status /\ new.tasks = tasks /\ new.review = copy[c].review
  BY <1>2, <1>4, <1>5 DEF Plans, PlanStatuses
<1>7. plan' = new /\ graph' = graph  BY <1>1 DEF Puts
<1>8. copy[c].review = None  BY <1>2 DEF SoundPlan
<1>9. SoundPlan(plan)'
  <2>1. \A t \in Tasks : tasks[t] = "COMPLETED" => t \in output
    BY <1>2, <1>4 DEF SoundPlan
  <2>2. \A t \in Tasks : tasks[t] # "RUNNING"  BY <1>3, <1>4
  <2>3. \A t \in Tasks : tasks[t] = "PLANNED" => t \in chosen
    BY <1>2, <1>4 DEF SoundPlan
  <2> QED BY <1>1, <1>5, <1>6, <1>7, <1>8, <2>1, <2>2, <2>3 DEF SoundPlan, Finished
<1> HIDE DEF new
<1> QED BY <1>1, <1>6, <1>9, CopyIsSound, PutsKeep DEF Places

LEMMA EndStepKeeps ==
  ASSUME PInv, NEW c \in Calls, EndStep(c)  PROVE PInv'
<1> DEFINE done(t) == [copy[c] EXCEPT !.status = "WAITING_TASK_APPROVAL", !.tasks[t] = "COMPLETED", !.review = t]
           lost(t) == [copy[c] EXCEPT !.status = "PARTIAL", !.tasks[t] = "FAILED", !.review = None]
<1>1. PICK t \in InState(copy[c].tasks, {"RUNNING"}) :
        /\ \/ Puts(c, "stepping", done(t), "idle") /\ output' = output \cup {t}
           \/ Puts(c, "stepping", lost(t), "idle") /\ output' = output
        /\ UNCHANGED <<starts, chosen>>
  BY DEF EndStep
<1>2. copy[c] \in Plans /\ SoundPlan(copy[c]) /\ copy[c].status = "RUNNING" /\ t \in Tasks
      /\ copy[c].tasks[t] = "RUNNING"
      /\ \A u \in Tasks : copy[c].tasks[u] = "RUNNING" => u = t
  BY <1>1, CopyIsSound DEF Puts, AtPlace, InState
<1>3. output \subseteq output' /\ output' \subseteq Tasks /\ graph' = graph
  BY <1>1, <1>2, CopyIsSound DEF Puts
<1>4. CASE Puts(c, "stepping", done(t), "idle") /\ output' = output \cup {t}
  <2>1. /\ done(t) \in Plans /\ done(t).status = "WAITING_TASK_APPROVAL" /\ done(t).review = t
        /\ \A u \in Tasks : done(t).tasks[u] = IF u = t THEN "COMPLETED" ELSE copy[c].tasks[u]
    BY <1>2 DEF Plans, PlanStatuses, TaskStatuses
  <2>2. plan' = done(t)  BY <1>4 DEF Puts
  <2> HIDE DEF done
  <2>3. SoundPlan(plan)'
    BY <1>1, <1>2, <1>3, <1>4, <2>1, <2>2, ConstantsAssumption DEF SoundPlan
  <2> QED BY <1>1, <1>3, <1>4, <2>1, <2>3, CopyIsSound, PutsKeep DEF Places
<1>5. CASE Puts(c, "stepping", lost(t), "idle") /\ output' = output
  <2>1. /\ lost(t) \in Plans /\ lost(t).status = "PARTIAL" /\ lost(t).review = None
        /\ \A u \in Tasks : lost(t).tasks[u] = IF u = t THEN "FAILED" ELSE copy[c].tasks[u]
    BY <1>2 DEF Plans, PlanStatuses, TaskStatuses
  <2>2. plan' = lost(t)  BY <1>5 DEF Puts
  <2> HIDE DEF lost
  <2>3. SoundPlan(plan)'
    BY <1>1, <1>2, <1>3, <1>5, <2>1, <2>2, ConstantsAssumption DEF SoundPlan
  <2> QED BY <1>1, <1>3, <1>5, <2>1, <2>3, CopyIsSound, PutsKeep DEF Places
<1> QED BY <1>1, <1>4, <1>5

----------------------------------------------------------------------------
LEMMA InitIsSound == Init => PInv
<1> SUFFICES ASSUME Init  PROVE PInv
  OBVIOUS
<1>0. starts \in [Tasks -> 0 .. 2]  BY DEF Init
<1>1. TypeOK  BY <1>0, PlannedIsSound DEF Init, TypeOK
<1>2. \A c \in Calls : SoundPlan(copy[c]) /\ AtPlace(c)
  BY PlannedIsSound DEF Init, AtPlace
<1> QED BY <1>1, <1>2, PlannedIsSound DEF PInv, Init

LEMMA CrashKeeps == ASSUME PInv, Crash PROVE PInv'
<1>1. TypeOK'  BY PlannedIsSound DEF PInv, TypeOK, Crash
<1>2. SoundPlan(plan)'  BY DEF PInv, Crash, SoundPlan, Fed, Finished, Agent
<1>3. \A c \in Calls : SoundPlan(copy[c])' /\ AtPlace(c)'
  BY ConstantsAssumption DEF Crash, SoundPlan, AtPlace, Planned
<1> QED BY <1>1, <1>2, <1>3 DEF PInv

LEMMA StoresOnlyKeeps ==
  ASSUME PInv, NEW c \in Calls, StoresOnly(c)  PROVE PInv'
<1>1. output \subseteq output' /\ output' \subseteq Tasks
  BY DEF PInv, TypeOK, StoresOnly, InState
<1>2. TypeOK'  BY <1>1 DEF PInv, TypeOK, StoresOnly
<1>3. SoundPlan(copy[c]) /\ AtPlace(c) /\ (copy[c].review # None => copy[c].review \in Tasks)
  BY DEF PInv, TypeOK, Plans
<1>4. copy'[c] = copy[c] /\ pc'[c] = pc[c] /\ graph' = graph  BY DEF StoresOnly
<1>5. \A t \in Tasks : Fed(t) => Fed(t)'  BY <1>1, <1>4 DEF StoresOnly, Fed, Agent
<1>6. \A t \in Tasks : Finished(copy[c], t) => Finished(copy[c], t)'
  BY <1>4 DEF Finished, Agent
<1>7. SoundPlan(copy[c])' /\ AtPlace(c)'
  BY <1>1, <1>3, <1>4, <1>5, <1>6 DEF StoresOnly, SoundPlan, AtPlace
<1> QED BY <1>1, <1>2, <1>7, StepKeeps DEF StoresOnly

\* PInv is inductive.
THEOREM Invariance == Spec => []PInv
<1>1. PInv /\ [Next]_vars => PInv'
  <2> SUFFICES ASSUME PInv, [Next]_vars  PROVE PInv'
    OBVIOUS
  <2>1. CASE Crash  BY <2>1, CrashKeeps
  <2>2. ASSUME NEW c \in Calls, BeginApproval(c) \/ BeginExecution(c) \/ BeginReview(c)  PROVE PInv'
    BY <2>2, BeginsKeep DEF BeginApproval, BeginExecution, BeginReview, Places
  <2>3. ASSUME NEW c \in Calls, Proceeds(c)  PROVE PInv'
    BY <2>3, RejectPlanKeeps, ApprovePlanKeeps, StartWavesKeeps, NextWaveKeeps, EndTaskKeeps,
       EndWavesKeeps, StartStepKeeps, NothingReadyKeeps, EndStepKeeps, ReviewedKeeps,
       ExecuteOnKeeps DEF Proceeds
  <2>4. CASE UNCHANGED vars
    BY <2>4 DEF vars, PInv, TypeOK, SoundPlan, AtPlace, Fed, Finished, Agent
  <2>5. ASSUME NEW c \in Calls, StoresOnly(c)  PROVE PInv'
    BY <2>5, StoresOnlyKeeps
  <2> QED BY <2>1, <2>2, <2>3, <2>4, <2>5 DEF Next
<1> QED BY InitIsSound, <1>1, PTL DEF Spec

\* The types.
THEOREM Typed == Spec => []TypeOK
<1>1. PInv => TypeOK  BY DEF PInv
<1> QED BY <1>1, Invariance, PTL

\* A running task was selected and finds the outputs it depends on, whatever
\* requests overlap.
THEOREM TasksAreFed == Spec => []InputsExist
<1>1. PInv => InputsExist
  BY DEF PInv, InputsExist, SoundPlan, InState, Fed
<1> QED BY <1>1, Invariance, PTL

\* A plan shown as completed is complete, whichever request put it last.
THEOREM CompletedIsTrue == Spec => []CompletedMeansDone
<1>1. PInv => CompletedMeansDone
  BY DEF PInv, CompletedMeansDone, SoundPlan, Finished
<1> QED BY <1>1, Invariance, PTL

\* What is up for review is a completed task with an output.
THEOREM ReviewIsReal == Spec => []ReviewHasOutput
<1>1. PInv => ReviewHasOutput
  BY DEF PInv, TypeOK, Plans, ReviewHasOutput, SoundPlan
<1> QED BY <1>1, Invariance, PTL

----------------------------------------------------------------------------
(* Requests one after another.                                              *)

\* A plan that is up to date: what was started is planned no more, and its
\* completed tasks are those with an output.
Current(p) == /\ \A t \in Tasks : p.tasks[t] = "PLANNED" => starts[t] = 0
              /\ output = InState(p.tasks, {"COMPLETED"})
              /\ p.status = "PENDING_APPROVAL" => \A t \in Tasks : p.tasks[t] = "PLANNED"

\* While nothing has disturbed the requests, one acts at a time, and the plan
\* it works on, or else the one in the store, is up to date.
OneByOne == ~disturbed =>
  /\ \A c, d \in Calls : pc[c] # "idle" /\ pc[d] # "idle" => c = d
  /\ \A t \in Tasks : starts[t] <= 1
  /\ \A c \in Calls : pc[c] \notin {"idle", "again"} => Current(copy[c])
  /\ (\A c \in Calls : pc[c] \notin {"waves", "stepping"}) => Current(plan)

\* A request that works on goes from an up-to-date plan to the next: in its
\* own hands while it runs tasks, else in the store.
LEMMA StepIsCurrent ==
  ASSUME PInv, OneByOne, NEW c \in Calls, pc[c] \notin {"idle", "again"},
         disturbed' = disturbed, \A d \in Calls \ {c} : pc'[d] = pc[d] /\ copy'[d] = copy[d],
         NEW p, p = IF pc'[c] \in {"waves", "stepping"} THEN copy'[c] ELSE plan',
         pc'[c] \in {"idle", "again", "waves", "stepping"},
         p.status # "PENDING_APPROVAL",
         output = InState(copy[c].tasks, {"COMPLETED"}) => output' = InState(p.tasks, {"COMPLETED"}),
         \A t \in Tasks :
           \/ /\ starts'[t] = starts[t]
              /\ p.tasks[t] = "PLANNED" => copy[c].tasks[t] = "PLANNED"
           \/ /\ starts'[t] = starts[t] + 1
              /\ copy[c].tasks[t] = "PLANNED" /\ p.tasks[t] # "PLANNED"
  PROVE  OneByOne'
<1> SUFFICES ASSUME ~disturbed  PROVE OneByOne'
  BY DEF OneByOne
<1>1. Current(copy[c]) /\ \A d \in Calls : pc[d] # "idle" => d = c
  BY DEF OneByOne
<1>2. \A d \in Calls : pc'[d] # "idle" => d = c  BY <1>1
<1>3. \A t \in Tasks : /\ starts'[t] <= 1
                       /\ p.tasks[t] = "PLANNED" => starts'[t] = 0
  <2> SUFFICES ASSUME NEW t \in Tasks
               PROVE  starts'[t] <= 1 /\ (p.tasks[t] = "PLANNED" => starts'[t] = 0)
    OBVIOUS
  <2>1. starts[t] \in 0 .. 2 /\ starts[t] <= 1 /\ (copy[c].tasks[t] = "PLANNED" => starts[t] = 0)
    BY <1>1 DEF PInv, TypeOK, OneByOne, Current
  <2> QED BY <2>1
<1>4. output' = InState(p.tasks, {"COMPLETED"})  BY <1>1 DEF Current
<1>5. CASE pc'[c] \in {"waves", "stepping"}
  <2>1. p = copy'[c]  BY <1>5
  <2>2. Current(copy[c])'  BY <1>3, <1>4, <2>1 DEF Current, InState
  <2> QED BY <1>2, <1>3, <1>5, <2>2 DEF OneByOne
<1>6. CASE pc'[c] \in {"idle", "again"}
  <2>1. p = plan'  BY <1>6
  <2>2. Current(plan)'  BY <1>3, <1>4, <2>1 DEF Current, InState
  <2> QED BY <1>2, <1>3, <1>6, <2>2 DEF OneByOne
<1> QED BY <1>5, <1>6

\* A request that puts a plan with these tasks, started or ended.
LEMMA PutIsCurrent ==
  ASSUME PInv, OneByOne, NEW c \in Calls, NEW from, NEW new, NEW to, Puts(c, from, new, to),
         from \notin {"idle", "again"}, to \in {"idle", "again", "waves", "stepping"},
         new.status # "PENDING_APPROVAL",
         output = InState(copy[c].tasks, {"COMPLETED"}) => output' = InState(new.tasks, {"COMPLETED"}),
         \A t \in Tasks :
           \/ /\ starts'[t] = starts[t]
              /\ new.tasks[t] = "PLANNED" => copy[c].tasks[t] = "PLANNED"
           \/ /\ starts'[t] = starts[t] + 1
              /\ copy[c].tasks[t] = "PLANNED" /\ new.tasks[t] # "PLANNED"
  PROVE  OneByOne'
<1>1. /\ pc[c] = from /\ pc'[c] = to /\ plan' = new /\ disturbed' = disturbed
      /\ copy'[c] = (IF to = "idle" THEN Planned ELSE new)
      /\ \A d \in Calls \ {c} : pc'[d] = pc[d] /\ copy'[d] = copy[d]
  BY DEF Puts, PInv, TypeOK
<1>2. new = IF pc'[c] \in {"waves", "stepping"} THEN copy'[c] ELSE plan'  BY <1>1
<1> QED BY <1>1, <1>2, StepIsCurrent

LEMMA BeginIsCurrent ==
  ASSUME PInv, OneByOne, NEW c \in Calls, NEW status, NEW to, Begins(c, status, to),
         to \in {"approving", "executing", "reviewing"}
  PROVE  OneByOne'
<1> SUFFICES ASSUME ~disturbed'  PROVE OneByOne'
  BY DEF OneByOne
<1>1. ~disturbed /\ \A d \in Calls : pc[d] = "idle"  BY DEF Begins
<1>2. Current(plan) /\ \A t \in Tasks : starts[t] <= 1  BY <1>1 DEF OneByOne
<1>3. /\ pc'[c] = to /\ copy'[c] = plan /\ \A d \in Calls \ {c} : pc'[d] = pc[d]
      /\ UNCHANGED <<graph, plan, output, starts, chosen>>
  BY DEF Begins, PInv, TypeOK
<1>4. Current(copy[c])' /\ Current(plan)'  BY <1>2, <1>3 DEF Current
<1>5. \A d \in Calls : pc'[d] # "idle" => d = c  BY <1>1, <1>3
<1> QED BY <1>2, <1>3, <1>4, <1>5 DEF OneByOne

LEMMA ExecuteOnIsCurrent ==
  ASSUME PInv, OneByOne, NEW c \in Calls, ExecuteOn(c)
  PROVE  OneByOne'
<1> SUFFICES ASSUME ~disturbed  PROVE OneByOne'
  BY DEF OneByOne, ExecuteOn
<1>1. /\ pc[c] = "again" /\ UNCHANGED <<graph, plan, output, starts, chosen, disturbed>>
      /\ \A d \in Calls \ {c} : pc'[d] = pc[d]
      /\ \/ pc'[c] = "executing" /\ copy'[c] = plan
         \/ pc'[c] = "idle"
  BY DEF ExecuteOn, PInv, TypeOK
<1>2. /\ \A d \in Calls : pc[d] # "idle" => d = c
      /\ \A t \in Tasks : starts[t] <= 1
  BY <1>1 DEF OneByOne
<1>3. Current(plan)
  <2>1. \A d \in Calls : pc[d] \in {"idle", "again"}  BY <1>1, <1>2
  <2> QED BY <2>1 DEF OneByOne
<1>4. Current(plan)' /\ (pc'[c] = "executing" => Current(copy[c])')  BY <1>1, <1>3 DEF Current
<1> QED BY <1>1, <1>2, <1>4 DEF OneByOne

----------------------------------------------------------------------------
(* The steps of a request, one by one.                                      *)

LEMMA StartedOnce ==
  ASSUME PInv, NEW S
  PROVE  \A t \in Tasks : /\ t \notin S => Started(S)[t] = starts[t]
                          /\ t \in S /\ starts[t] < 2 => Started(S)[t] = starts[t] + 1
BY DEF Started

LEMMA ApprovalIsCurrent ==
  ASSUME PInv, OneByOne, NEW c \in Calls, RejectPlan(c) \/ ApprovePlan(c)
  PROVE  OneByOne'
<1>1. copy[c] \in Plans  BY CopyIsSound
<1>2. CASE RejectPlan(c)
  <2> DEFINE new == [copy[c] EXCEPT !.status = "REJECTED"]
  <2>1. Puts(c, "approving", new, "idle") /\ UNCHANGED <<output, starts>>  BY <1>2 DEF RejectPlan
  <2>2. new.status = "REJECTED" /\ new.tasks = copy[c].tasks  BY <1>1 DEF Plans
  <2> HIDE DEF new
  <2> QED BY <2>1, <2>2, PutIsCurrent
<1>3. CASE ApprovePlan(c)
  <2> DEFINE tasks(S) == [t \in Tasks |-> IF t \notin S THEN "SKIPPED"
                                          ELSE IF Agent(t) \in Withheld THEN "BLOCKED"
                                          ELSE copy[c].tasks[t]]
             new(S, m) == [copy[c] EXCEPT !.status = "APPROVED", !.mode = m, !.tasks = tasks(S)]
  <2>1. PICK S \in SUBSET Tasks, mode \in {"automatic", "stepwise"} :
          Puts(c, "approving", new(S, mode), "idle") /\ UNCHANGED <<output, starts>>
    BY <1>3 DEF ApprovePlan
  <2>2. new(S, mode).status = "APPROVED" /\ new(S, mode).tasks = tasks(S)  BY <1>1 DEF Plans
  <2>3. \A t \in Tasks : tasks(S)[t] \in {"SKIPPED", "BLOCKED", copy[c].tasks[t]}  OBVIOUS
  <2>4. pc[c] = "approving" /\ copy[c].status = "PENDING_APPROVAL"
    BY <2>1, CopyIsSound DEF Puts, AtPlace
  <2> HIDE DEF new, tasks
  <2>5. CASE disturbed  BY <2>1, <2>5 DEF Puts, OneByOne
  <2>6. CASE ~disturbed
    <3>1. Current(copy[c])  BY <2>4, <2>6 DEF OneByOne
    <3>2. \A t \in Tasks : copy[c].tasks[t] = "PLANNED"  BY <2>4, <3>1 DEF Current
    <3>3. output = {} /\ InState(tasks(S), {"COMPLETED"}) = {}
      BY <2>3, <3>1, <3>2 DEF Current, InState
    <3> QED BY <2>1, <2>2, <2>3, <3>2, <3>3, PutIsCurrent
  <2> QED BY <2>5, <2>6
<1> QED BY <1>2, <1>3

LEMMA RenamingIsCurrent ==
  ASSUME PInv, OneByOne, NEW c \in Calls,
         StartWaves(c) \/ EndWaves(c) \/ RequireRework(c) \/ ApproveStep(c)
  PROVE  OneByOne'
<1>1. copy[c] \in Plans  BY CopyIsSound
<1>2. ASSUME NEW new, NEW from \in {"executing", "waves", "reviewing"},
             NEW to \in {"idle", "again", "waves"},
             Puts(c, from, new, to), UNCHANGED <<output, starts>>,
             new.status # "PENDING_APPROVAL", new.tasks = copy[c].tasks
      PROVE  OneByOne'
  BY <1>2, PutIsCurrent
<1>3. CASE StartWaves(c)
  <2> DEFINE new == [copy[c] EXCEPT !.status = "RUNNING"]
  <2>1. Puts(c, "executing", new, "waves") /\ UNCHANGED <<output, starts>>  BY <1>3 DEF StartWaves
  <2>2. new.status = "RUNNING" /\ new.tasks = copy[c].tasks  BY <1>1 DEF Plans
  <2> HIDE DEF new
  <2> QED BY <1>2, <2>1, <2>2
<1>4. CASE EndWaves(c)
  <2>1. PICK s \in {"COMPLETED", "PARTIAL", "BLOCKED"} :
          Puts(c, "waves", [copy[c] EXCEPT !.status = s], "idle") /\ UNCHANGED <<output, starts>>
    BY <1>4 DEF EndWaves
  <2> DEFINE new == [copy[c] EXCEPT !.status = s]
  <2>2. new.status = s /\ new.tasks = copy[c].tasks  BY <1>1 DEF Plans
  <2>3. Puts(c, "waves", new, "idle")  BY <2>1
  <2> HIDE DEF new
  <2> QED BY <1>2, <2>1, <2>2, <2>3
<1>5. CASE RequireRework(c) \/ ApproveStep(c)
  <2>1. PICK s \in {"REWORK_REQUIRED", "APPROVED"}, to \in {"idle", "again"} :
          /\ Puts(c, "reviewing", [copy[c] EXCEPT !.status = s, !.review = None], to)
          /\ UNCHANGED <<output, starts>>
    BY <1>5 DEF RequireRework, ApproveStep
  <2> DEFINE new == [copy[c] EXCEPT !.status = s, !.review = None]
  <2>2. new.status = s /\ new.tasks = copy[c].tasks  BY <1>1 DEF Plans
  <2>3. Puts(c, "reviewing", new, to)  BY <2>1
  <2> HIDE DEF new
  <2> QED BY <1>2, <2>1, <2>2, <2>3
<1> QED BY <1>3, <1>4, <1>5

LEMMA NextWaveIsCurrent ==
  ASSUME PInv, OneByOne, NEW c \in Calls, NextWave(c)
  PROVE  OneByOne'
<1> DEFINE tasks == copy[c].tasks
           open == InState(tasks, Open)
           hindered == {t \in open : Hindered(t, tasks)}
           ready == {t \in open \ hindered : Done(t, tasks)}
           new == IF ready = {} THEN Mark(tasks, open, "BLOCKED")
                  ELSE Mark(Mark(tasks, hindered, "BLOCKED"), ready, "RUNNING")
<1>1. /\ pc[c] = "waves" /\ copy' = [copy EXCEPT ![c].tasks = new] /\ starts' = Started(ready)
      /\ UNCHANGED <<graph, plan, pc, output, chosen, disturbed>>
  BY DEF NextWave
<1>2. CASE disturbed  BY <1>1, <1>2 DEF OneByOne
<1>3. CASE ~disturbed
  <2>1. copy[c] \in Plans /\ copy[c].status = "RUNNING" /\ Current(copy[c])
    BY <1>1, <1>3, CopyIsSound DEF AtPlace, OneByOne
  <2>2. copy'[c] = [copy[c] EXCEPT !.tasks = new]  BY <1>1 DEF PInv, TypeOK
  <2>3. copy'[c].status = "RUNNING" /\ copy'[c].tasks = new  BY <2>1, <2>2 DEF Plans
  <2>4. /\ open \subseteq Tasks /\ \A t \in open : tasks[t] = "PLANNED"
        /\ hindered \subseteq open /\ ready \subseteq open
    BY DEF InState, Open
  <2>5. \A t \in ready : starts[t] = 0
    BY <2>1, <2>4 DEF Current
  <2>6. \A t \in Tasks : IF t \in ready THEN starts'[t] = starts[t] + 1 ELSE starts'[t] = starts[t]
    BY <1>1, <2>5, StartedOnce
  <2> HIDE DEF tasks, open, hindered, ready
  <2>7. \A t \in Tasks : /\ t \in ready => new[t] = "RUNNING"
                         /\ t \notin open => new[t] = tasks[t]
                         /\ t \in open => new[t] \in {"BLOCKED", "RUNNING", "PLANNED"}
    BY <2>4 DEF Mark
  <2> HIDE DEF new
  <2>8. InState(new, {"COMPLETED"}) = InState(tasks, {"COMPLETED"})
    BY <2>4, <2>7 DEF InState
  <2>9. \A t \in Tasks :
          \/ starts'[t] = starts[t] /\ (new[t] = "PLANNED" => tasks[t] = "PLANNED")
          \/ starts'[t] = starts[t] + 1 /\ tasks[t] = "PLANNED" /\ new[t] # "PLANNED"
    BY <2>4, <2>6, <2>7
  <2>10. \A d \in Calls \ {c} : pc'[d] = pc[d] /\ copy'[d] = copy[d]
    BY <1>1 DEF PInv, TypeOK
  <2>11. PICK p : p = copy'[c]  OBVIOUS
  <2>12. p.status = "RUNNING" /\ p.tasks = new  BY <2>3, <2>11
  <2>13. pc[c] = "waves" /\ pc'[c] = "waves" /\ disturbed' = disturbed /\ output' = output  BY <1>1
  <2>14. p = IF pc'[c] \in {"waves", "stepping"} THEN copy'[c] ELSE plan'  BY <2>11, <2>13
  <2> QED BY <2>8, <2>9, <2>10, <2>12, <2>13, <2>14, StepIsCurrent DEF tasks
<1> QED BY <1>2, <1>3

LEMMA EndTaskIsCurrent ==
  ASSUME PInv, OneByOne, NEW c \in Calls, EndTask(c)
  PROVE  OneByOne'
<1>1. /\ pc[c] = "waves" /\ UNCHANGED <<graph, plan, pc, starts, chosen, disturbed>>
      /\ copy[c] \in Plans /\ copy[c].status = "RUNNING"
  BY CopyIsSound DEF EndTask, AtPlace
<1>2. PICK t \in InState(copy[c].tasks, {"RUNNING"}), s \in {"COMPLETED", "FAILED"} :
        copy' = [copy EXCEPT ![c].tasks[t] = s]
        /\ output' = IF s = "COMPLETED" THEN output \cup {t} ELSE output
  <2>1. PICK t \in InState(copy[c].tasks, {"RUNNING"}) :
          \/ copy' = [copy EXCEPT ![c].tasks[t] = "COMPLETED"] /\ output' = output \cup {t}
          \/ copy' = [copy EXCEPT ![c].tasks[t] = "FAILED"] /\ output' = output
    BY DEF EndTask
  <2> QED BY <2>1
<1>3. copy'[c] = [copy[c] EXCEPT !.tasks[t] = s]
      /\ \A d \in Calls \ {c} : pc'[d] = pc[d] /\ copy'[d] = copy[d]
  BY <1>1, <1>2 DEF PInv, TypeOK
<1>4. /\ t \in Tasks /\ copy[c].tasks[t] = "RUNNING" /\ copy'[c].status = "RUNNING"
      /\ \A u \in Tasks : copy'[c].tasks[u] = IF u = t THEN s ELSE copy[c].tasks[u]
  BY <1>1, <1>2, <1>3 DEF Plans, InState
<1>5. output = InState(copy[c].tasks, {"COMPLETED"}) => output' = InState(copy'[c].tasks, {"COMPLETED"})
  BY <1>2, <1>4 DEF InState
<1>6. \A u \in Tasks : starts'[u] = starts[u]
                       /\ (copy'[c].tasks[u] = "PLANNED" => copy[c].tasks[u] = "PLANNED")
  BY <1>1, <1>4
<1>7. PICK p : p = copy'[c]  OBVIOUS
<1>8. pc[c] = "waves" /\ pc'[c] = "waves" /\ disturbed' = disturbed  BY <1>1
<1>9. p = IF pc'[c] \in {"waves", "stepping"} THEN copy'[c] ELSE plan'  BY <1>7, <1>8
<1>10. /\ p.status = "RUNNING"
       /\ output = InState(copy[c].tasks, {"COMPLETED"}) => output' = InState(p.tasks, {"COMPLETED"})
       /\ \A u \in Tasks : starts'[u] = starts[u] /\ (p.tasks[u] = "PLANNED" => copy[c].tasks[u] = "PLANNED")
  BY <1>4, <1>5, <1>6, <1>7
<1>11. \A d \in Calls \ {c} : pc'[d] = pc[d] /\ copy'[d] = copy[d]  BY <1>3
<1> QED BY <1>8, <1>9, <1>10, <1>11, StepIsCurrent

LEMMA StartStepIsCurrent ==
  ASSUME PInv, OneByOne, NEW c \in Calls, StartStep(c)
  PROVE  OneByOne'
<1> DEFINE old == copy[c].tasks
           n == FirstReady(old)
           tasks == Mark(BlockedBefore(old, n), {n}, "RUNNING")
           new == [copy[c] EXCEPT !.status = "RUNNING", !.tasks = tasks]
<1>1. /\ Puts(c, "executing", new, "stepping") /\ n # None
      /\ starts' = Started({n}) /\ UNCHANGED output
  BY DEF StartStep
<1>2. CASE disturbed  BY <1>1, <1>2 DEF Puts, OneByOne
<1>3. CASE ~disturbed
  <2>1. copy[c] \in Plans /\ Current(copy[c])
    BY <1>1, <1>3, CopyIsSound DEF Puts, OneByOne
  <2>2. n \in Tasks /\ old[n] = "PLANNED"  BY <1>1, FirstReadyIsReady
  <2>3. starts[n] = 0  BY <2>1, <2>2 DEF Current
  <2>4. new.status = "RUNNING" /\ new.tasks = tasks  BY <2>1 DEF Plans
  <2>5. old \in [Tasks -> TaskStatuses]  BY <2>1 DEF Plans
  <2> HIDE DEF n, old, new
  <2>6. \A t \in Tasks : IF t = n THEN starts'[t] = starts[t] + 1 ELSE starts'[t] = starts[t]
    BY <1>1, <2>3, StartedOnce
  <2>7. \A t \in Tasks : /\ t = n => tasks[t] = "RUNNING"
                         /\ old[t] # "PLANNED" => tasks[t] = old[t]
                         /\ tasks[t] \in {"RUNNING", "BLOCKED", old[t]}
    BY <2>2, <2>5, BlockedBeforeKeeps DEF Mark
  <2> HIDE DEF tasks
  <2>8. InState(tasks, {"COMPLETED"}) = InState(old, {"COMPLETED"})
    BY <2>2, <2>7 DEF InState
  <2>9. \A t \in Tasks :
          \/ starts'[t] = starts[t] /\ (tasks[t] = "PLANNED" => old[t] = "PLANNED")
          \/ starts'[t] = starts[t] + 1 /\ old[t] = "PLANNED" /\ tasks[t] # "PLANNED"
    BY <2>2, <2>6, <2>7
  <2> QED BY <1>1, <2>4, <2>8, <2>9, PutIsCurrent DEF old
<1> QED BY <1>2, <1>3

LEMMA NothingReadyIsCurrent ==
  ASSUME PInv, OneByOne, NEW c \in Calls, NothingReady(c)
  PROVE  OneByOne'
<1> DEFINE old == copy[c].tasks
           tasks == BlockedBefore(old, None)
<1>1. PICK s \in {"BLOCKED", "PARTIAL", "COMPLETED"} :
        /\ Puts(c, "executing", [copy[c] EXCEPT !.tasks = tasks, !.status = s], "idle")
        /\ UNCHANGED <<output, starts>>
  BY DEF NothingReady
<1> DEFINE new == [copy[c] EXCEPT !.tasks = tasks, !.status = s]
<1>2. copy[c] \in Plans  BY CopyIsSound
<1>3. old \in [Tasks -> TaskStatuses]  BY <1>2 DEF Plans
<1>4. new.status = s /\ new.tasks = tasks  BY <1>2 DEF Plans
<1>5. Puts(c, "executing", new, "idle")  BY <1>1
<1>6. \A t \in Tasks : /\ old[t] # "PLANNED" => tasks[t] = old[t]
                       /\ tasks[t] \in {"BLOCKED", old[t]}
  BY <1>3, BlockedBeforeKeeps
<1> HIDE DEF new, tasks
<1>7. InState(tasks, {"COMPLETED"}) = InState(old, {"COMPLETED"})
  BY <1>6 DEF InState
<1>8. \A t \in Tasks : tasks[t] = "PLANNED" => old[t] = "PLANNED"  BY <1>6
<1> QED BY <1>1, <1>4, <1>5, <1>7, <1>8, PutIsCurrent

LEMMA EndStepIsCurrent ==
  ASSUME PInv, OneByOne, NEW c \in Calls, EndStep(c)
  PROVE  OneByOne'
<1> DEFINE new(t, status, end, review) ==
             [copy[c] EXCEPT !.status = status, !.tasks[t] = end, !.review = review]
<1>1. PICK t \in InState(copy[c].tasks, {"RUNNING"}), status \in {"WAITING_TASK_APPROVAL", "PARTIAL"},
           end \in {"COMPLETED", "FAILED"}, review \in Tasks \cup {None} :
        /\ Puts(c, "stepping", new(t, status, end, review), "idle") /\ UNCHANGED starts
        /\ output' = IF end = "COMPLETED" THEN output \cup {t} ELSE output
  <2>1. PICK t \in InState(copy[c].tasks, {"RUNNING"}) :
          /\ \/ /\ Puts(c, "stepping", new(t, "WAITING_TASK_APPROVAL", "COMPLETED", t), "idle")
                /\ output' = output \cup {t}
             \/ /\ Puts(c, "stepping", new(t, "PARTIAL", "FAILED", None), "idle")
                /\ output' = output
          /\ UNCHANGED starts
    BY DEF EndStep
  <2>2. t \in Tasks  BY DEF InState
  <2> HIDE DEF new
  <2> QED BY <2>1, <2>2
<1> DEFINE p == new(t, status, end, review)
<1>2. copy[c] \in Plans /\ t \in Tasks /\ copy[c].tasks[t] = "RUNNING"
  BY <1>1, CopyIsSound DEF InState
<1>3. /\ p.status # "PENDING_APPROVAL"
      /\ \A u \in Tasks : p.tasks[u] = IF u = t THEN end ELSE copy[c].tasks[u]
  BY <1>2 DEF Plans
<1>4. Puts(c, "stepping", p, "idle")  BY <1>1
<1> HIDE DEF p, new
<1>5. output = InState(copy[c].tasks, {"COMPLETED"}) => output' = InState(p.tasks, {"COMPLETED"})
  BY <1>1, <1>2, <1>3 DEF InState
<1>6. \A u \in Tasks : starts'[u] = starts[u]
                       /\ (p.tasks[u] = "PLANNED" => copy[c].tasks[u] = "PLANNED")
  BY <1>1, <1>2, <1>3
<1>7. p.status # "PENDING_APPROVAL"  BY <1>3
<1> QED BY <1>4, <1>5, <1>6, <1>7, PutIsCurrent

\* With requests one after another that end as they should, whatever plan the
\* model drafted, no task is started twice, and the outputs in the store are
\* those that the plan lists as completed.
THEOREM OnceIfUndisturbed == Spec => []OnceUndisturbed
<1>1. Init => OneByOne
  <2> SUFFICES ASSUME Init  PROVE OneByOne
    OBVIOUS
  <2>1. /\ \A c \in Calls : pc[c] = "idle"
        /\ \A t \in Tasks : starts[t] = 0 /\ plan.tasks[t] = "PLANNED"
        /\ output = {}
    BY DEF Init, Planned
  <2> QED BY <2>1 DEF OneByOne, Current, InState
<1>2. PInv /\ OneByOne /\ [Next]_vars => OneByOne'
  <2> SUFFICES ASSUME PInv, OneByOne, [Next]_vars  PROVE OneByOne'
    OBVIOUS
  <2>1. CASE Crash  BY <2>1 DEF Crash, OneByOne
  <2>2. ASSUME NEW c \in Calls, BeginApproval(c) \/ BeginExecution(c) \/ BeginReview(c)
        PROVE  OneByOne'
    BY <2>2, BeginIsCurrent DEF BeginApproval, BeginExecution, BeginReview
  <2>3. ASSUME NEW c \in Calls, Proceeds(c)  PROVE OneByOne'
    BY <2>3, ApprovalIsCurrent, RenamingIsCurrent, NextWaveIsCurrent, EndTaskIsCurrent,
       StartStepIsCurrent, NothingReadyIsCurrent, EndStepIsCurrent, ExecuteOnIsCurrent DEF Proceeds
  <2>4. ASSUME NEW c \in Calls, StoresOnly(c)  PROVE OneByOne'
    BY <2>4 DEF StoresOnly, OneByOne
  <2>5. CASE UNCHANGED vars  BY <2>5 DEF vars, OneByOne, Current
  <2> QED BY <2>1, <2>2, <2>3, <2>4, <2>5 DEF Next
<1>3. OneByOne => OnceUndisturbed
  BY DEF OneByOne, OnceUndisturbed, Current
<1> QED BY <1>1, <1>2, <1>3, Invariance, PTL DEF Spec
=============================================================================
