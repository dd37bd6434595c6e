# STEM-SCI orchestration: TLA+ models, checks and proofs

STEM-SCI takes a research project through a long workflow (literature evidence, research
design, data, analysis, writing, review). Large parts of the backend compute text and
numbers. What keeps a project from going wrong is smaller: a SQLite database shared by request
threads, background threads and heartbeat threads of one API process, a revision number that
most saves compare and swap, tasks with leases, Gates a human decides, a journal that makes a
chat turn repeatable, and around it the stage machine of the legacy controller, plans of agent
tasks, versioned documents and a graph of research claims. This directory models that part.

Source paths below are relative to `src/backend/src/stem_sci/`.

| module | models | theorems |
|---|---|---|
| `TaskQueue` | `orchestration_tasks`, enqueue / claim / heartbeat / report, `ControlPlaneWorker.run_once`, retry, recovery loop, commit of candidates | `TaskQueueProofs` |
| `CommandJournal` | `ConversationCommandJournal` and the calls through it | `CommandJournalProofs` |
| `TurnOnce` | abstract: what the journal promises about a numbered turn | (implemented by `CommandJournal`) |
| `ControlPlane` | `ControlPlane`: routes, steps, candidates, Gates, checkpoints, primary data, and the conversation's saves beside it | `ControlPlaneProofs`, `ControlPlaneRouteProofs` |
| `ResearchController` | `controller/router.py` and `controller/data_pipeline.py`: stages, approvals, the data pipeline's questions, review and rework, snapshots | `ResearchControllerProofs` |
| `AgentPlans` | `router.py` 1596-1902: approval, execution in waves or step by step, review and rework of a plan of agent tasks | `AgentPlansProofs` |
| `Documents` | `documents/service.py`: contents in files, versions in rows | `DocumentsProofs` |
| `DocumentHistory` | abstract: an append-only history and its readers | (implemented by `Documents`) |
| `ResearchDialogue` | `collaboration/engine.py` and `store.py`: the guided brief, the graph of claims and evidence, its versioned save | `ResearchDialogueProofs` |
| `TaskQueueMC`, `CommandJournalMC`, `ControlPlaneMC`, `ResearchControllerMC`, `ResearchDialogueMC` | the small instances the `.cfg` files check | |

## 1. Inventory

### Components, their state and their operations

**Task queue and worker** (`orchestration/control_plane.py`, 651-755 and 1636-1944).
State: one row per task (idempotency key, a status *column*, a JSON *body* with status,
`claimed_by`, `lease_until`, `attempt`, `next_attempt_at`), and the local copies of rows that
threads hold while they work. Operations: `enqueue` (insert or find), `claim` (oldest row that is
not leased and not backing off), `heartbeat`, `update_task`, `retry_task`, `run_once` (claim,
check the revision, run the handler beside a heartbeat thread, report).
Called by: the continue endpoint, the conversation endpoint and its background thread, the retry
endpoint, and the recovery loop that scans every two seconds.
Hard: `claim` and `heartbeat` read and write a row under a lock that `update_task` does not take;
a handler runs for minutes without any lock; leases expire under running handlers; the process
dies anywhere. Correct when: one row per key, one commit per revision and per task, COMPLETED
means committed, finished tasks stay finished, live leases are respected, interrupted tasks are
picked up again.

**Conversation command journal** (`orchestration/journal.py`, `api.py` 7763-7863).
State: one row per turn (client's turn number, actor and hash of the request, status, response).
Operations: `begin` (insert or ignore, then read), `update`, `list`. Called by the conversation
endpoint only. Hard: concurrent repeats of one turn, a turn number reused for other content, a
restart or a failed write between execution and record. Correct when: a turn runs at most once and
everyone who asks for it gets one and the same answer to what they asked.

**Control plane** (`orchestration/control_plane.py`, 771-1634, 1733-1855). State: the project
state (`state_revision`, workstreams with their steps and index, active Gate, lifecycle), Gates,
artifacts, blockers, claims, audit events. Operations: `choose_route`, `set_publication_target`,
`create_artifact`, `validate_artifact`, `freeze_artifact`, `register_primary_data`, `decide_gate`,
`complete_action_with_candidate`. Every operation holds the control-plane lock and ends in one
compare-and-swap of the state, but writes Gates and artifacts before it in transactions of their
own; some endpoints save the state without the lock. Correct when: the active Gate is pending and
decidable, steps are neither skipped nor repeated, one version of an artifact is effective, every
change of the state leaves its event.

**Orchestration endpoints** (`api.py`, 6169-7760 and 9364-11246): choose the action of the current
step, run it through queue and worker, decide what to pause for. They hold no state of their own,
they read and write the components above.

**Legacy controller** (`controller/router.py`, `controller/data_pipeline.py`). State: per project
one dictionary entry in memory each for workflow state, research state, pending approval and data
pipeline; a snapshot row in SQLite; a row per decision; frozen CSV files. Operations: planning, the
agents of the five stages, approvals, beginning or preparing the data pipeline, registering raw
data, deciding its questions (process, freeze, analyse), the reproducibility review, routing a
review finding. Hard: no lock anywhere, an agent runs for minutes between the read and the write of
the whole state, decisions are recorded before they take effect, snapshots are saved afterwards.
Correct when: a project waits for exactly one answer; data is processed, frozen and analysed only
under approvals given for that data; a result keeps its chain of evidence.

**Agent plans** (`router.py` 1596-1902 and 1920-2062, over the plans of
`controller/agent_planning.py`). State: one row per plan with its tasks, and the artifact store of
their outputs. Operations: approve or reject with a selection, execute (waves or one step), review,
continue. Hard: dependencies between agents drafted by a model, failing agents, whole-plan writes of
overlapping requests, restarts. Correct when: no task runs before what it depends on, COMPLETED means
done, what is up for review exists, every request ends.

**Document versions** (`documents/service.py`). State: rows of documents and versions, a file per
version. Operations: create, create a version, read, delete. Hard: the file is written before, and
outside, the transaction that lists it. Correct when: the history has no holes and only grows, and
no reader sees two contents under one version.

**Research dialogue** (`collaboration/engine.py`, `collaboration/store.py`, and
`merge_research_memory`). State: what the researcher has told, the belief graph with its version, the
question the brief has stored. Operations: a turn, the integration of the evidence an answer cites,
the projection of a review package, the versioned save. Hard: the version is compared and written in
two statements, a language model works in between, evidence arrives in any order. Correct when:
relations resolve, a claim's standing follows from evidence, nothing is overwritten unread, an
answer is filed under the question the researcher saw.

**The rest**: the numerical half of the pipelines (`controller/*`), accounts and membership
(`accounts/`), artifact stores (`artifacts/`, `provenance/`), agents and model providers (`agents/`),
retrieval and question answering (`knowledge/`, `context/`), coding sandbox (`coding/`), statistics
and physics checks (`statistics/`, `operators/`, `physics/`), research data and protocol
(`research_data/`, `research_protocol/`, `verification/`), writing skill and LaTeX (`skills/`,
`latex/`), the web frontend, a vendored second application (`integrations/`), and scripts and data.
`PROJECT.json` lists each of them with the reason it is modelled or not.

### How they interact

A conversation turn enters through the journal, which lets exactly one call execute it. That call
decides a Gate, edits the state, or continues the project. Continuing reads the state, enqueues a
task for the current step at the current revision, and runs the worker in the same thread. The
worker claims the oldest claimable task of the project - perhaps another one -, executes it, and
commits its candidate by a compare-and-swap from the task's expected revision. In parallel the
recovery loop does the same for tasks left pending, under the project owner's name: with the
owner's own request it therefore shares one `worker_id`.

The same turn first updates what the dialogue remembers (`ResearchDialogue`), before and after the
answer. The legacy controller and its agent plans serve endpoints of their own; a task of a plan
writes the controller's workflow state (`FinishTask`). Manuscripts and uploads are documents. The
five share the process and the database, but no rows, with that one exception, which is why each is a
module of its own.

### Hazards

`PROJECT.json` lists every hazard with the line where it bites and the property that watches it.
Two have no property yet: the attempt limit, which needs an unbounded count of claims, and the repair of
the CGT checkpoints; section 2 says which step of the plan takes them. Three have none because the code does not
keep what one would say: the repeated retry, the decided Gate that stays active, and the approval that is applied
twice (section 8 shows the last two). Where the hazard is an overlap of requests and the run has one request at a
time, the note names the theorem that covers the overlap.

## 2. Plan

1. `TaskQueue` with its MC module, runs and proofs. *Done.*
2. `TurnOnce` and `CommandJournal`, the second shown to implement the first. *Done.*
3. `ControlPlane`: routes and their steps, candidates, Gates, checkpoints, publication target,
   primary data, each transaction by transaction, with the endpoints that save without the lock
   and with restarts. *Done for one workstream, without artifacts.*
4. `ResearchController`: the legacy controller and its data pipeline, as reads and writes of
   overlapping requests. *Done.*
5. `DocumentHistory` and `Documents`, the second shown to implement the first. *Done.*
6. `AgentPlans`. *Done for approval, execution, review.* Left: decisions about single outputs and
   promotion.
7. `ResearchDialogue`. *Done for claims, evidence and the brief.*
8. `Artifacts`: versions, validation, freezing, supersession and the blockers that hang on them;
   one effective version, frozen versions never change. Then skipped steps, two workstreams and
   their merge in `ControlPlane`, and the CGT checkpoints with their repairs. Abstract
   specification: `Workflow`, a position that moves through the steps. Each state change leaves
   exactly one event.
9. `Orchestration`: composition of journal, queue and control plane; attempt counts.
10. Accounts and membership.

Theorems left: the implementation of `Workflow`, and that a commit of the queue is a step of
`Workflow`. All modules avoid recursive operators for that reason.

## 3. TaskQueue

### State and actions

| model | code |
|---|---|
| `state` | the row of `orchestration_states`: revision, current step of the active workstream, whether a Gate is active, whether the project is, and `current_action` where it names an action |
| `tasks` | `orchestration_tasks` in rowid order; `column` and `body.status` are apart because `heartbeat` writes only the body |
| `commits` | the candidates committed, as the audit events record them |
| `pc`, `seen`, `lease` | a thread's place in `continue_project_orchestration` and `run_once`, the state it read, its copy of the task |
| `beat` | the heartbeat thread of an execution and the body it has read |
| `faults` | restarts and failed heartbeats so far |

One action per database transaction. `ChooseAction` is the first read of the state,
`EnqueueNextAction` the second together with the insert; `Retry` the retry that follows for a
failed row, `RetryRequest` the retry endpoint. `ClaimRead` / `ClaimWrite` and `BeatRead` /
`BeatWrite` are the two halves of `claim` and `heartbeat`; `RepositoryFree` is the lock that keeps
them (and `enqueue`) apart. `RejectStale`, `RejectAction`, `StartHandler`, `CommitCandidate`,
`RejectLateCandidate`, `HandlerFails`, `HandlerReturns` are the branches of `run_once`, `Report`
its closing `update_task`, outside the lock. `Recover` is the recovery loop's decision to continue
a project; `Continue` and `StopContinuing` the loop's (and a request's) going on with the next
action. `DecideGate` (approve, revise back to an earlier step, reject, stop) and `EditState` are other writers;
`ResumeTurn`, `ReclaimRead` and `ReclaimWrite` are a turn's read of the state, its read of the tasks, and its marking
of one as STALE; `LeaseExpires` and `BackoffElapses` are the clock, `BeatDies` an exception in the heartbeat thread, `Crash` a restart.

Abstractions: one project with one active workstream; a time stamp is "in the future" or not; the
attempt count saturates at its maximum, since it is only compared with it; `live` is kept for
RUNNING bodies only, `claim` reads it nowhere else; conversation checkpoints are saves that leave
step and Gate alone (`EditState`); the commit of a candidate is one step here (its
transactions are in `ControlPlane`); the recovery loop's grace period of 5 s is ignored, which
only adds behaviours; a follow-on continuation may be refused at any time instead of after 32; a
thread begins a new continuation when its old heartbeat has ended, since the slot of the model
stands for many request threads; the state read and the insert of `enqueue_next_action` are one
step, because `continue` has already read the state before and the same interleavings arise there; so are the two
reads of `retry_task`, which holds the control-plane lock between them.

### Properties

- `OneTaskPerKey`, `CommitsFollowRevisions`, `CompletedWasCommitted`, `ClaimableIsPending`,
  and the action property `ClaimRespectsLease`: see the comments in the module. Each relates rows,
  local copies of several threads and the revision, and takes at least two actors to break.
- `PendingTaskEnds`: a pending task of the current action is eventually finished or overtaken.
- `NoDoubleExecution`, `RunningEnds` and `CandidateIsForActiveAction` state comments which the code
  does not keep (section 8); the last one is a run.

### Runs and bounds

| run | bounds | shows |
|---|---|---|
| `TaskQueueSafety` | 1 request + loop, one user, 2 steps (the first with a Gate), 4 revisions, 2 rows, 2 attempts, no faults | the five safety properties; 1.6 M states |
| `TaskQueueLive` | 1 request + loop, one user, 1 step, 2 revisions, 3 rows, 1 fault, fairness | `PendingTaskEnds`, and `IInv` with a restart or a lost heartbeat anywhere; 176 k states |

Two threads are enough for every race the code has: each is between one claimer, reporter or
reclaimer and one other thread or heartbeat, and the request and the loop each also have a heartbeat
thread. Two rows give a claim a choice and let a task be overtaken (the third row of the liveness run is
for the retry of a retry); four revisions let commits, edits and a Gate decision follow each
other; two attempts reach both branches of the attempt limit. That safety survives any number of faults, and
any number of users, is proved: the proofs remove all these bounds.

Fairness (`LiveSpec`): threads that have begun go on and heartbeats go on (the operating system
schedules them, and model providers have time-outs); the recovery loop scans every 2 s; leases
(300 s) and backoffs (at most 60 s) are finite. Nothing is assumed of requests, Gate decisions or
users. Faults are finitely many; a process that dies in every execution keeps a task alive for ever,
and the code has no limit for that.

## 4. CommandJournal and TurnOnce

`turns` is the journal's table in ordinal order; `runs` counts executions per row; `pc` and `job` are
the calls in progress with the outcome they have; `given` is what clients were told. `Accept`,
`Replay` and `Wait` are the three ways out of `begin` (a refused call changes nothing);
`StartProcessing`, `Execute`, `Record`, `Reply` the rest of the call; `UpdateRaises` and
`ErrorIsLost` failed journal writes before and inside the exception handler; `Crash` a restart.
The orchestration is reduced to its outcome: an answer, an error response, or an exception. A
failed call's HTTP error and the error record that a repeat is given are identified. The
persistence of research outputs, whose exceptions are swallowed, is part of `Execute`.

- `RunsOnce`, `AnswersAgree`: a numbered turn runs at most once; all its callers get one response,
  to what each of them asked.
- `KeepsPromise`: under the mapping of `runs`, `response` and `given` by turn number the journal
  implements `TurnOnce!Spec`, in which a turn runs at most once, is settled at most once, and is
  answered only with its result.
- `TurnEnds`: a turn that a call is working on is completed or failed, unless a restart or a failed
  write intervenes.

| run | bounds | shows |
|---|---|---|
| `CommandJournalTurns` | 2 calls, 2 turn numbers and none, 2 contents, 2 rows, 2 faults, fairness of calls | all of the above; 44 k states |

Two calls are the repeat and the original, two contents the reuse of a number; two faults are a
restart after a failed write. Fairness is that a call that has begun goes on. `TurnEnds`
excepts turns hit by a fault, and that is the code: nothing resumes a turn.

## 5. ControlPlane

### State and actions

`state` is the row of `orchestration_states` with one workstream (steps of the route, current step,
active Gate, lifecycle, checkpoint, whether there are a route and a publication target, how many
constraints the conversation has stored); the index counts from 1, and a project without a route has the
`Unclassified` steps. `gates` are the rows of
`orchestration_gates`, `data` says whether `has_usable_primary_data` holds, `produced` which actions
have a committed candidate, `notes` how many constraints were acknowledged. `copy` is what a thread
has read and will save on top of, `job` what it is doing.

Three history variables, which no action reads, record where the code takes a study past a step without what the
step asks for (section 8 describes the cases): `overtaken`, the threads that were at work when another's
candidate was committed; `astray`, the Gates of a candidate that was overtaken or moved the index twice; `waived`, the
steps that were passed over - the formatting stage of a target set behind its place (`LateTarget`), the
steps that an overtaken candidate jumps besides its own, and those that the decision about a Gate astray jumps
besides the reviewed one (`PassedOver`). `Record` and the two saves write them. The properties except exactly what is on record,
so that they say what survives in those cases instead of leaving the cases out.

A method of the control plane is two or three actions: it takes the lock and reads (`ReadForRoute`,
`ReadForTarget`, `StorePrimaryData`, `RefuseWithoutData`, `BeginCommit`, `BeginDecide`,
`BeginMigrate`), writes a Gate in a transaction of its own (`PutGate`, `PutDecision`), and saves with
compare-and-swap (`Save`, in `ChooseRoute`, `SetPublicationTarget`, `SaveDataStatus`,
`CompleteAction`, `SaveDecision`). The conversation reads and saves without the lock (`ReadForNote`,
`TakeNote`, `ReadForAnswer`, `AnswerCheckpoint`), so it can come between a Gate's write and the save
that follows. `Continue` chooses the action, `Enqueue` reads the revision it will be committed at,
`AbandonAction` stands for a failing handler; the queue between them is `TaskQueue`'s subject.

Abstractions: one workstream, whose route is not computational; the merge of a mixed study, skipped
steps, blockers, artifacts and claims are left out; the review policy is the default one, which
requires an independent reviewer; whether a candidate fails validation, whether an audit finds a
mismatch and whether a manuscript wants a revision or an outline are free choices; the checkpoints
of operators and those of the manuscript have one name each; primary data is uploaded once. A
thread that has saved forgets its copy.

The request threads, the background thread of a turn and the recovery loop may all continue a project, so both runs
have two workers and every theorem has any number. Where two continuations meet, the later candidate is refused if
its task was queued before the other's commit; if it was only chosen before, it is committed at the wrong step
(`TaskQueueCandidateIsForActiveAction`), and what it jumps is on record. A second first message can
route the project again between the two reads of a continuation; the candidate of the later step
is then committed at the first one, so the active Gate may be ahead of the current step, and
`ActiveGateIsAhead` claims only that it is never behind.

`RouteAssumption` says what the properties need of a route's order: where a candidate or an approval
lets a study resume (`Resumptions`) is at most one step ahead, where a checkpoint or a revision takes
it back (`Returns`) is behind, both are past the intake and before the formatting stage, and the final
review is last. Routes are literals in `workflow_steps_for_route` (`control_plane.py` 943-968);
`ControlPlaneMC` has TLC evaluate the assumption on the full quantitative, qualitative and
computational ones (`RoutesOfTheCode`). A revision looks its target up with `index`, which would
raise without it; that is the reason for the two memberships in `RouteOrder`.

### Properties

`StepsHaveCandidates`, `HumanGatesPassed`, `ActiveGateIsAhead`, `CompletedWasReviewed`,
`DataBeforeAnalysis`, `NoLostUpdate`, and the action properties `GatesDecidedOnce` and
`CheckpointIsAnswered`, each commented in the module.

| run | bounds | shows |
|---|---|---|
| `ControlPlaneChat` | conversation only, 2 interchangeable workers + 1 request, 7 steps, 10 revisions, 3 Gates, 1 restart | `StepsHaveCandidates`, `HumanGatesPassed`, `CompletedWasReviewed`, `CheckpointIsAnswered`, from the first message to completion; 647 k states |
| `ControlPlaneRace` | both ways to continue, 2 interchangeable workers + 1 request, 6 steps, 7 revisions, 2 Gates, 1 constraint | `ActiveGateIsAhead`, `DataBeforeAnalysis`, `NoLostUpdate`, `GatesDecidedOnce`: decisions, automatic approvals, data and constraints against each other; 1.4 M states |

The routes are shortened to the steps that are treated differently (with and without Gate, with a
checkpoint, with a return); a step that only adds a candidate behaves like `research_design`. The revisions let a study of the
first run complete with the saves it needs; in the second they reach past the data import. Within these bounds TLC meets late targets,
jumped steps, Gates astray and checkpoints closed by overtaken candidates, so that the exceptions of the
properties are cases of the runs and not empty; `LastTarget` is beyond every step, so a target may come at any
time. The system may stop, at the end of a study or at the bounds, so deadlock is not checked.

## 6. ResearchController

### State and actions

`mem` is what the process holds of a project: the workflow state with its stage, rework target and
pending approval reference, the approval request kept beside it (two dictionaries, hence two
fields), whether a review has sent something back, whether a run has flagged insufficient evidence, the data pipeline,
and whether there is an analysis package. `stored` is the snapshot, `asked` the decision store together with
the questions, `frozen` the read-only files. The pipeline records with `by` under which
approval it processed, froze and analysed.

A request is the method's read (`Begin...`, `ReadFor...`), for a decision its record (`RecordApproval`,
`RecordDecision`), the write of the memory (`FinishPlanning`, `FinishRun`, `ApplyApproval`,
`BeginPipeline`, `PreparePipeline`, `RegisterRawData`, `AcceptData`, `RejectData`, `FinishReview`,
`RouteFinding`, `FinishTask`), and `Save`, `_persist` with the state just written. `WriteFrozenFile` is the
file operation of a freeze. `RequestFails`, `PackageMissing` and `FrozenFileIsReadOnly` are the
exceptions between them. `LookUpApproval` is `get_pending_approval` of a project without one, which
replaces the memory by the snapshot. `Crash` leaves only what is stored.

Abstractions: the strict pipeline of the production configuration; assignments to several
dictionaries in a row without an await between them are one step; the waiting stages of the pipeline are told
apart by the question they ask; whether an audit, a schema check, an analysis or a review succeeds
is a free choice; how much evidence there is is left out (without any, an approval is refused too, which
changes nothing). A question's identifier is reused once nothing refers to it, so no counter needs a bound.
`approve_planning` and `LangGraphWorkflow` are used by tests only and are left out.

### Properties

`WaitsForOneAnswer`, `ApprovedForThisData` and `ResultHasChain` hold of every version of the state,
in memory, in the snapshot and in the hands of requests. The run checks them for requests one after another, with failures
and restarts; that they hold for any overlap is proved (`OneAnswer`, `DataApproved`, `ResultsAreChained`): a stale write replaces the
state as a whole, so what relates the parts of one state survives. `UsedApprovalsStand`,
`DraftNeedsResult` and `ReworkHasReason` relate the state to the decision store or to its past; stale
writes break them, and they are claimed for requests one after another, with failures and restarts.

| run | bounds | shows |
|---|---|---|
| `ResearchControllerStages` | 1 request at a time, 2 raw files, 5 identifiers, unprivileged process | all six and types; 280 k states |

One request at a time is the case that the last three are about. All are proved for any number of
data sets and identifiers, the first three for any number of requests too. Two raw files are an upload and its replacement;
of the five identifiers one is planning's, and a state refers to at most four others (three operations
and one question), so that a question always finds a fresh one.

## 7. Documents, AgentPlans and ResearchDialogue

### Documents

`docs` and `rows` are the two tables, `files` the storage root; a hash stands for its content.
`CreateVersion` reads the current number, `OpenFile` and `WriteFile` are the truncation and the write
of `write_bytes` (two writers at work on one file may leave a mixture of their bytes, which is the content of
neither), `Commit` the transaction, `CommitRefused` its primary-key violation, `Return` (of a further version; `create`
ends without reading the bytes) and `GetVersion` the read with the comparison of hashes. `served` records what readers were given.

- `HistoryIsWhole`, `ReadsAgree`, `DamageIsContested`; `Appends`: `rows` implement `DocumentHistory`.

| run | bounds | shows |
|---|---|---|
| `DocumentsVersions` | 2 threads, 1 document, 2 contents, 3 versions, restarts | all of these and types; 34 k states |

Two threads are the two writers of one version, or a writer and a reader; three versions let a
contest leave the current version and one behind it; documents do not share rows or files.

Not modelled: patches and listings; the find-or-create of manuscript candidates in `api.py`; the
deletion that follows a failed upload of primary data.

### AgentPlans

`graph` is what the planner drafted: an agent and the agents it depends on for every task, in every possible way;
`plan` the row, `copy` each request's plan, `output` the tasks with stored artifacts. Each request begins
by reading the plan in the status the method demands. `StartWaves`, `NextWave`, `EndTask`,
`EndWaves` are `execute_agent_plan` in automatic mode, `StartStep`, `NothingReady`, `EndStep` in stepwise mode;
`ApproveStep`, `ExecuteOn`, `RequireRework` are `continue_agent_plan`, which goes on in the same request.
`StoresOnly` is a task whose artifacts are stored when a later write fails; `Crash` a restart.

- `InputsExist`, `CompletedMeansDone`, `ReviewHasOutput`: in the run for one request at a time, in the proofs for any overlap.
- `OnceUndisturbed`: with requests one after another, no task starts twice and the plan lists every
  output of the store.
- `RequestsEnd`: the loops over waves and steps end, also on cyclic dependencies.

| run | bounds | shows |
|---|---|---|
| `AgentPlansWaves` | 1 request at a time, 3 tasks over 3 agents in every graph, one agent withheld, restarts | all of these; 127 k states |

Three tasks give chains, forks, joins, cycles and two tasks of one agent, and with one agent withheld
every kind of hindered task. Two overlapping requests are left to the proofs, which allow any number. Fairness
is weak fairness of a request that has begun: it goes on, and the calls of agents time out. That tasks start
once while requests do not overlap is proved as well.

Not modelled: how a plan is drafted, the budget, decisions about single outputs
(`decide_agent_output`) and promotion.

### ResearchDialogue

`graph` is the row of the belief graph: version, standing of each node, relations, and the question the brief has
stored; `memory` the answered questions; `shown` the question the last answer displayed.
`BeginTurn` files the message, `Observe` adds its claim and picks the next question, `IntegrateEvidence`
integrates what the answer cites, `Reply` sends it; `ProjectPackage` is a review package's own request.
Each proposal goes through `CheckVersion` or `Conflict`, and `WriteGraph`: the `SELECT` and the
`INSERT ... ON CONFLICT` of `store.save`. `Stop` is an exception or a dying process.

Abstractions: the nodes' contents (a save may happen although nothing of the model changes);
nodes for objectives, concepts, constraints and uncertainties, branches, and the question of older graphs, on
which no claim's standing depends; hypothesis and design nodes and the frozen and rejected statuses, which
no code creates; memory and graph are read together, and the read and the write of `merge_research_memory` are
one step; every user is an editor; a package may be filed under any claim present (the code takes the first).

- `EdgesResolve`, `BeliefsAreFounded`: whatever is told, cited and projected in any order; in the run by one request at a
  time, in the proofs by any number at once.
- `StaleOnlyInRace`: what is overwritten unread is overwritten by requests that compared versions
  before either wrote.
- `AnswersTheQuestion`: section 8.

| run | bounds | shows |
|---|---|---|
| `ResearchDialogueBeliefs` | 1 request at a time, 2 sources, 1 claim, 3 saves, 2 relations per answer | `EdgesResolve`, `BeliefsAreFounded`; 51 k states |
| `ResearchDialogueSaves` | 2 requests, 1 source, 1 claim, 2 saves | `StaleOnlyInRace`; 88 k states |

A claim is established by two sources and disputed by one, and three saves let it be told, cited and
contradicted or told again. Overlapping requests are in the second run for `StaleOnlyInRace` only, and in the
proofs of all three properties.
The sources, and the requests, are interchangeable.

## 8. What the code does not keep

Two of these are runs that end with a counterexample; `PROJECT.json` quotes the line they contradict.

- `TaskQueueCandidateIsForActiveAction`: continue reads the state and picks step 1; another run
  commits step 1; `enqueue_next_action` reads again and queues step 1 *at the new revision*; the
  revision check passes and the project skips a step, or loses an active Gate.
- `ResearchDialogueAnswerSlots`: the turn stores the brief's next question but displays the one about
  measurement; the next message is filed as the answer to the question nobody saw
  (`collaboration/engine.py:894`).

The modules define more such statements that no run checks. To see the counterexample, put the name in place of
the INVARIANTs or PROPERTYs of the `.cfg` given, with the change given:

- `NoDoubleExecution` (`TaskQueueLive.cfg`): one failed heartbeat write ends the
  heartbeat; five minutes later the recovery loop executes the task beside the running handler.
  (`CommitsFollowRevisions` still holds: only one of them commits.)
- `RunningEnds` (`TaskQueueLive.cfg`): a renewal that outlives the one-second join overwrites the final body.
- `PendingIsRunning` (`CommandJournalTurns.cfg`): a turn that ended in an error response is "being processed" for ever.
- `GatePerAction` (`ControlPlaneRace.cfg`, `Modes = {"api"}`): a candidate with both
  Gate and checkpoint moves the index twice, and the step it should resume at is never executed
  (only through the continue endpoint).
- `ActiveGateIsPending` (`ControlPlaneRace.cfg`): the decision of a Gate is
  stored, the state is not; the Gate stays active and cannot be decided, and the project stands still.
- `AppliesPending` (`ResearchControllerStages.cfg`, `Calls = {c1, c2}`): "Apply one approval exactly
  once" (`router.py:2764`). Two approvals both pass the checks of 2771-2778 and both apply.
- `StaysReadable` (`DocumentsVersions.cfg`): "append-only versions" (`service.py:37`). Two requests for the
  next version write one file; the loser's insert is refused, but the winner's row no longer matches
  the file, which reads as `document_hash_mismatch` from then on.
- `OneStepAtATime` (`AgentPlansWaves.cfg`, `Calls = {c1, c2}`): "Run exactly one dependency-ready task and pause
  for human review" (`router.py:1815`). Two execute requests run two.

Others are read from the code. The models contain what leads to them, or leave them out as said, and claim nothing about them.

*Control plane and journal*

- A retry is keyed by action and revision (`control_plane.py:1714`): repeated at one revision it
  returns the first retry's row, finished or not, and nothing is requeued.
- A publication target set while the citation Gate is open (`control_plane.py:1170`) adds a step
  before the current one; it is never executed and the verification is done twice. The stage is then `waived`.
- The continue endpoint (`api.py:9455`) runs past an open checkpoint of the conversation, whose
  candidate is then overwritten. `CheckpointIsAnswered` allows that commit, and no other, to close a checkpoint.
- The history of turns (`journal.py:120`) is read in ascending order up to its limit, so a long
  conversation shows its oldest turns.
- Events are ordered by time stamp and a random identifier (`control_plane.py:634`): a late commit
  with an earlier stamp lands behind a reader's cursor. A `ManuscriptOutline` of an attempt that was not
  committed counts as existing (`api.py:9502`).

*Legacy controller*

- A run that ends late overwrites what approvals and the pipeline wrote meanwhile (`router.py:1421`,
  1567); a planned task writes the workflow state it read before its agent ran (2036-2044); snapshots
  may be saved out of order (434); looking for an approval may replace the memory by an older snapshot (2910, 444-460).
- Planning reuses one identifier and overwrites any state; the approve endpoint decides
  whichever request is pending when it arrives (`api.py:12026`, 12108).
- Risk flags only accumulate: after one run with insufficient evidence `evidence_protocol` can never
  be approved (`router.py:2885`).
- A rejected pipeline question leads to REWORK without a target (`data_pipeline.py:392`), from which
  only a review finding leads on, though
  `docs/reports/STEM_SCI_WORKFLOW_FRAMEWORK_IMPLEMENTATION.md:27` routes it back; a finding can send
  a project without any result to paper writing, to be drafted without analysis.
- A frozen file is read-only (`freeze.py:43-46`): freezing the same bytes again fails for an
  unprivileged process. A reworked specification does not rebuild its package; approving a specification
  without one records the decision and then raises.

*Plans and dialogue*

- A selected task that the planner withheld leaves an automatic plan COMPLETED and a stepwise one PARTIAL; a
  stepwise first failure is PARTIAL with nothing done; REWORK_REQUIRED leads nowhere; a restart leaves a
  plan RUNNING for ever and its outputs unlisted; concurrent decisions about a plan overwrite each other.
- Two saves of the graph may carry one version, and its version may go back (`store.py:72`); a claim that is
  made again loses its dispute (and gets it back with the next evidence); a package replayed on read is filed under a claim made later, though the code
  calls the projection deterministic and idempotent (`api.py:9261`); a conflict in a turn raises after
  the answer was computed, one in a projection is swallowed.

## 9. Proofs

`tlapm` proves, for every number of threads, users, steps, attempts, revisions, rows, faults,
documents, contents, tasks, agents, sources and claims (the assumptions are those named in the modules: the loop is not a
request, every thread has an owner who is a user, at least one step, attempt and revision; limits
are naturals; a route has the order of `RouteAssumption`; the values that stand for "none" are not members of the sets beside them):

- `TaskQueueProofs`: `TypeCorrect`, `Safety` (`IInv`), and from it `KeysUnique`,
  `CommitsCorrect`, `CompletionsCorrect`, `ClaimsCorrect`, `LeasesRespected`.
- `CommandJournalProofs`: `Invariance` (`JInv`), `ExecutedOnce`, `AnswersConsistent`, and
  `JournalKeepsPromise`, the implementation of `TurnOnce`.
- `ControlPlaneProofs`: `Invariance` (`CInv`), `NothingLost`, `DecidedOnce`.
- `ControlPlaneRouteProofs`: `RouteInvariance` (`RouteInv`), `Typed`, `NoStepSkipped`, `HumansDecide`,
  `CompleteIsReviewed`, `DataComesFirst`, `GateIsAhead`, `AnswersClose`.
- `ResearchControllerProofs`: `Invariance` (`RInv`), `Typed`, `OneAnswer`, `DataApproved`, `ResultsAreChained`;
  for one request at a time `StraightInvariance` (`SInv`), `ApprovalsStand`, `DraftsHaveResults`, `ReworkIsReasoned`.
- `DocumentsProofs`: `Invariance` (`DInv`), `Typed`, `Whole`, `NoTwoReadings`, `OnlyContestedDamage`, and
  `Implements`, the implementation of `DocumentHistory`.
- `AgentPlansProofs`: `Invariance` (`PInv`), `Typed`, `TasksAreFed`, `CompletedIsTrue`, `ReviewIsReal`, `OnceIfUndisturbed`.
- `ResearchDialogueProofs`: `Invariance` (`DialogueInv`), `Typed`, `Resolves`, `Beliefs`, `Races`.

The safety properties of the queue are not inductive: that a COMPLETED row was committed depends on
what a thread is about to write. `IInv` adds what copies may hold at each place (`CopiesOK`), that one
claim or renewal is between its read and its write (`LockOK`), that the row a claim has read stays
unleased until it writes (`SnapshotOK`), and that a thread about to report COMPLETED has
committed (`OutcomeOK`). The proof classifies steps by what they do to the table (`TableSteps`), to the
commits (`CommitSteps`) and to a thread's copy (`CopyMove`, `BeatMove`), so that each conjunct
is preserved by a handful of cases instead of by every action. `ClaimRespectsLease` then follows from
`SnapshotOK` without looking at the actions again.

`JInv` says that a turn number names one row, that a row belongs to the one call that created it,
what such a call has done at each place, and that a response is what was recorded for the row's own
request. The refinement proof maps `Execute` to `Run`, `Record` to `Settle`, `Reply` and `Replay` to
`Give`, and every other step to a stutter.

`CInv` says that the lock has one holder (`OneHolder`), that a Gate about to be decided is pending
(`DecidesPending`), and that a copy at the current revision is current in what it says about
constraints (`CopiesCurrent`), from which a successful compare-and-swap cannot lose one. Steps are of three kinds:
those that write no row (`StepKeeps`), saves (`SaveKeeps`), and the two writes of a Gate.

The theorems about the route assume nothing of how a project is used: any number of threads continue it, in both
ways, and a target may come at any time. What the code loses in those cases (section 8) is on record in `waived`,
`astray` and `overtaken`, and the theorems say that it loses no more. With one thread continuing in the conversation and a
target set before the writing is done, nothing is ever recorded (`NothingOnRecord`,
which TLC confirms on `ControlPlaneChat.cfg` with `Workers = {w1}` and `LastTarget = 5`) and the exceptions of the properties are empty.

`RouteInv` adds to `CInv` what a copy may become. A step is *cleared* when it is waived, or has a candidate and, if it is a human
decision, an approved Gate; every step before the index of a current row is cleared (`Passed`). The step of an
active Gate, of a candidate that is being computed and of a Gate about to be decided is *pending*:
at the index or beyond it, with nothing missing in between but a formatting stage still ahead (`Pending`), unless the
thread is overtaken or the Gate astray; what those pass is recorded as they pass it. Both are operators of a row and a
set of cleared steps, so what re-routing, retargeting, committing and deciding do to them are
lemmas about routes (`Rerouting`, `Retargeting`, `PendingCommit`, `PendingDecision`) without threads or
revisions. A thread with a current copy then saves a sound row (`RowSaved`), one with an older copy changes
nothing, and what others hold stays true because cleared steps stay cleared (`ClearedGrows`). That the pending
step of a candidate is kept when the project is routed again under it is what makes
`ActiveGateIsAhead` the strongest claim there is about the active Gate. `AnswersClose` needs besides that
a thread at work while a checkpoint is open is the continue endpoint's or overtaken (`Undisturbed`).

`RInv` says that every version of a project - memory, snapshot, and what each request has read or will
save - is sound by itself (`SoundProject`) and that a request still holds what it has checked (`Checked`). It is
inductive because a write replaces the state as a whole by one step from what was read, and because
a question is overwritten only when no version refers to it.

`SInv` is for one request at a time (`OneCall`), as `UsedApprovalsStand`, `DraftNeedsResult` and `ReworkHasReason`
are: then memory, snapshot and what the request has read are one version, except between the write and
its save, so that what the request checked still holds when it writes. It adds that an approval in
use is no longer the open question: a later verdict is always about another one.

`DInv` says that rows are contiguous, that a call's version is at most one beyond the current one,
and that what was served is what the row says. From it `Commit` appends, `Return` and `GetVersion`
serve, and all else stutters, whatever happens to the files. For `DamageIsContested` it is enough that
two calls writing one version have contested it (`WritersKnown`): a file that nobody contested is written only
by the call whose content its row will get.

`PInv` says of the stored plan and of every copy that its completed tasks have outputs, that running tasks are selected and
have their dependencies met, and what each status means. `OneByOne` adds, while requests neither overlap nor
break off, that one request acts and that its plan, or else the stored one, is up to date:
nothing planned has been started, and the completed tasks are those with outputs. `DialogueInv` says that the stored graph and every graph carried to a
save are sound (relations resolve, standings are founded), and that two writers in flight have raced; a save
replaces the graph by a sound one even when it overwrites another.

Only model-checked: the liveness properties `PendingTaskEnds`, `TurnEnds` and `RequestsEnd`, since liveness under
fairness is beyond the prover, and the counterexamples of section 8. Every other property of the passing runs is
a theorem without the bounds of the runs. `ApprovalsStand`, `DraftsHaveResults`, `ReworkIsReasoned` and
`OnceIfUndisturbed` speak of requests one after another, as their properties and the runs do; the code does not keep them
under overlap.

## 10. Not modelled

What handlers, agents and pipelines compute; the listing of a conversation's turns; artifacts (also
`freeze_artifact` and the supersession of `control_plane.py` 1226 and 1421, which no production code
calls), blockers, claims of the control plane, events, skipped steps and several workstreams (section 2); the parts named
as left out in sections 3 to 7; several projects (tasks, turns, states, plans and graphs of different projects share no
row); several API processes (the locks are in-process, and the deployment runs one); clocks that jump;
and the components that section 1 lists under "the rest".
