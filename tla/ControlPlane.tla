---------------------------- MODULE ControlPlane ----------------------------
(***************************************************************************)
(* The control plane of one project with one workstream: its state (the    *)
(* steps of the route, the current step, the active Gate, the conversation *)
(* checkpoint), its Gates, and the operations of request and background    *)
(* threads on them.                                                        *)
(*                                                                         *)
(* Granularity: one action per database transaction.  Every operation      *)
(* reads the state and ends in a save that compares and swaps its          *)
(* revision; the methods of ControlPlane hold its lock in between, the     *)
(* saves of the conversation endpoint do not, and Gates are written in     *)
(* transactions of their own before the save.                              *)
(*                                                                         *)
(* Three history variables record where the code takes a study past a step *)
(* without what the step asks for.  No action reads them: they say, for    *)
(* the properties, what is lost in those cases, and so what is not.        *)
(***************************************************************************)
EXTENDS Naturals, Sequences

CONSTANTS
  Workers,      \* threads that continue the project
  Others,       \* threads of the other requests
  Modes,        \* how the project is continued: "chat", "api" or both
  Unclassified, \* _WORKFLOW_STEPS: the steps of a project without a route
  Workflow,     \* workflow_steps_for_route of the project's route
  LastTarget,   \* bound: the publication target is set at this step or before
  MaxRevision,  \* bound: state_revision
  MaxNotes,     \* bound: research constraints told in the conversation
  MaxGates,     \* bound: rows of orchestration_gates
  MaxFaults     \* bound: restarts of the process

Threads == Workers \cup Others
None == "none"

ASSUME ModesAssumption == Modes \subseteq {"chat", "api"}
ASSUME WorkflowAssumption ==
  /\ Unclassified \in Seq(STRING)
  /\ Workflow \in Seq(STRING) /\ Len(Workflow) >= 3
  /\ \A i, j \in DOMAIN Workflow : Workflow[i] = Workflow[j] => i = j
  /\ \A i \in DOMAIN Workflow : Workflow[i] \notin {None, "journal_style_revision"}
ASSUME BoundsAssumption == /\ LastTarget \in Nat /\ MaxRevision \in Nat \ {0}
                           /\ MaxNotes \in Nat /\ MaxGates \in Nat /\ MaxFaults \in Nat

VARIABLES
  state,     \* the row of orchestration_states
  gates,     \* orchestration_gates, in the order they were put
  data,      \* whether validated primary data is registered
  produced,  \* the actions whose candidate was committed (audit events)
  notes,     \* how many research constraints were acknowledged
  pc,        \* where each thread is
  copy,      \* the state a thread has read and will save on top of
  job,       \* what a thread is about
  faults,
  overtaken, \* history: threads at work when another's candidate was committed
  astray,    \* history: Gates of candidates that were not of the current step
  waived     \* history: steps that were passed over

history == <<overtaken, astray, waived>>
vars == <<state, gates, data, produced, notes, pc, copy, job, faults, history>>

\* CONVERSATIONAL_HUMAN_GATE_ACTIONS (without the merge of two workstreams).
HumanGates == {"preregistration_freeze", "qualitative_design", "raw_data_import",
               "dataset_freeze_hash", "manual_execution_approval", "uncertainty_gate",
               "manuscript_citation_verification", "reviewer_final_confirmation"}

\* Actions whose candidate is reviewed in the conversation (CGT included).
ChatReviewed == {"analysis_code_generation", "code_review", "sandbox_analysis_execution",
                 "pattern_code_generation", "pattern_smoke_execution",
                 "pattern_stability_execution", "pattern_discovery_review",
                 "codebook_review", "manual_theme_revision", "supervised_confirmation",
                 "student_level_robustness", "group_comparison", "result_card_review"}

\* The actions of the project, once it has a route.
Actions == {Workflow[i] : i \in DOMAIN Workflow} \cup {"journal_style_revision"}

CheckpointNames == {"RESEARCH_QUESTION_REVIEW", "RESEARCH_DESIGN_REVIEW", "DATA_DESIGN_REVIEW",
                    "MANUSCRIPT_REVIEW", "OPERATOR_REVIEW"}

In(steps, s) == \E i \in DOMAIN steps : steps[i] = s
Position(steps, s) == CHOOSE i \in DOMAIN steps : steps[i] = s
InsertAfter(steps, p, s) == SubSeq(steps, 1, p) \o <<s>> \o SubSeq(steps, p + 1, Len(steps))

\* The steps with the optional formatting stage of a publication target, which
\* comes after the writing.
LastBeforeFormatting(steps) == IF In(steps, "writing") THEN Position(steps, "writing") ELSE Len(steps)

Formatted(steps) ==
  IF In(steps, "journal_style_revision") THEN steps
  ELSE InsertAfter(steps, LastBeforeFormatting(steps), "journal_style_revision")

\* Where the routes of workflow_steps_for_route have the steps at which a study
\* resumes (the second of each pair) after a candidate or an approval of the
\* first, and those to which a checkpoint or a revision takes it back: never
\* further than the next step, and before the formatting stage.
Resumptions == {<<"research_question_design", "qualitative_design">>,
                <<"research_question_design", "research_design">>,
                <<"power_analysis", "preregistration_freeze">>,
                <<"qualitative_design", "raw_data_import">>}
Returns == {<<"data_audit", "research_design">>, <<"writing", "writing">>,
            <<"claim_evidence_support", "evidence_normalization">>,
            <<"manuscript_citation_verification", "writing">>}

RouteOrder(route) ==
  /\ route[Len(route)] = "reviewer_final_confirmation"
  /\ In(route, "claim_evidence_support") => In(route, "evidence_normalization")
  /\ In(route, "manuscript_citation_verification") => In(route, "writing")
  /\ \A i, j \in DOMAIN route :
       /\ <<route[i], route[j]>> \in Resumptions => j <= i + 1
       /\ <<route[i], route[j]>> \in Returns => j <= i
       /\ <<route[i], route[j]>> \in Resumptions \cup Returns
            => j >= 3 /\ j <= LastBeforeFormatting(route)

ASSUME RouteAssumption == RouteOrder(Workflow)

NoJob == [action |-> None, mode |-> None, expected |-> 0, gate |-> 0, human |-> FALSE,
          checkpoint |-> None, valid |-> FALSE, independent |-> FALSE, decision |-> None]

Created == [rev |-> 1, steps |-> Unclassified, index |-> 1, gate |-> 0, life |-> "ACTIVE",
            checkpoint |-> None, routed |-> FALSE, target |-> FALSE, notes |-> 0]

Init ==
  /\ state = Created
  /\ gates = <<>> /\ data = FALSE /\ produced = {} /\ notes = 0 /\ faults = 0
  /\ pc = [t \in Threads |-> "idle"]
  /\ copy = [t \in Threads |-> Created]
  /\ job = [t \in Threads |-> NoJob]
  /\ overtaken = {} /\ astray = {} /\ waived = {}

Goto(t, l) == pc' = [pc EXCEPT ![t] = l]

\* ControlPlane._lock: held by the methods of the control plane.
Locked == {"routing", "targeting", "storing", "committing", "gated", "deciding", "decided"}
LockFree == \A t \in Threads : pc[t] \notin Locked

\* An operation reads the state.
Read(t, l) == /\ state.rev < MaxRevision
              /\ copy' = [copy EXCEPT ![t] = state]
              /\ Goto(t, l)

\* Mutant of Unchanged: the save does not compare the revision.
Unread(t) == TRUE
Unchanged(t) == state.rev = copy[t].rev

\* The save that ends an operation: compare and swap, or ConcurrentStateError.
Save(t, new) ==
  /\ state' = IF Unchanged(t) THEN [new EXCEPT !.rev = copy[t].rev + 1] ELSE state
  /\ Goto(t, "idle")
  /\ job' = [job EXCEPT ![t] = NoJob]
  /\ copy' = [copy EXCEPT ![t] = Created]

----------------------------------------------------------------------------
(* Route, publication target, primary data, conversation.                   *)

\* A first message, or a continuation, finds no route.
AskForRoute(t) ==
  /\ pc[t] = "idle" /\ ~state.routed
  /\ Goto(t, "route")
  /\ UNCHANGED <<state, gates, data, produced, notes, copy, job, faults, history>>

ReadForRoute(t) ==
  /\ pc[t] = "route" /\ LockFree
  /\ Read(t, "routing")
  /\ UNCHANGED <<state, gates, data, produced, notes, job, faults, history>>

\* choose_route does not ask whether the project has a route already.
ChooseRoute(t) ==
  /\ pc[t] = "routing"
  /\ Save(t, [copy[t] EXCEPT !.routed = TRUE, !.index = 3, !.gate = 0,
                             !.steps = IF copy[t].target THEN Formatted(Workflow) ELSE Workflow])
  /\ UNCHANGED <<gates, data, produced, notes, faults, history>>

ReadForTarget(t) ==
  /\ pc[t] = "idle" /\ t \in Others /\ LockFree
  /\ ~state.target /\ state.index <= LastTarget
  /\ Read(t, "targeting")
  /\ UNCHANGED <<state, gates, data, produced, notes, job, faults, history>>

\* The formatting stage is added behind the current step.
LateTarget(t) == copy[t].index > LastBeforeFormatting(copy[t].steps)

\* set_publication_target leaves current_step_index alone.
SetPublicationTarget(t) ==
  /\ pc[t] = "targeting"
  /\ Save(t, [copy[t] EXCEPT !.target = TRUE, !.steps = Formatted(copy[t].steps)])
  /\ waived' = IF Unchanged(t) /\ LateTarget(t) THEN waived \cup {"journal_style_revision"} ELSE waived
  /\ UNCHANGED <<gates, data, produced, notes, faults, overtaken, astray>>

\* register_primary_data stores the validated data before it saves the state
\* (bound: one upload).
StorePrimaryData(t) ==
  /\ pc[t] = "idle" /\ t \in Others /\ LockFree /\ ~data
  /\ data' = TRUE
  /\ Read(t, "storing")
  /\ UNCHANGED <<state, gates, produced, notes, job, faults, history>>

\* The approval of the data Gate is refused while there is no primary data;
\* _block_missing_primary_data saves that.
RefuseWithoutData(t) ==
  /\ pc[t] = "idle" /\ t \in Others /\ LockFree
  /\ state.gate # 0 /\ ~data
  /\ gates[state.gate].action = "raw_data_import" /\ gates[state.gate].status = "PENDING"
  /\ Read(t, "storing")
  /\ UNCHANGED <<state, gates, data, produced, notes, job, faults, history>>

SaveDataStatus(t) ==
  /\ pc[t] = "storing"
  /\ Save(t, copy[t])
  /\ UNCHANGED <<gates, data, produced, notes, faults, history>>

\* A conversation turn that tells a research constraint: no lock.
ReadForNote(t) ==
  /\ pc[t] = "idle" /\ t \in Others /\ state.routed /\ notes < MaxNotes
  /\ Read(t, "noting")
  /\ UNCHANGED <<state, gates, data, produced, notes, job, faults, history>>

TakeNote(t) ==
  /\ pc[t] = "noting"
  /\ Save(t, [copy[t] EXCEPT !.notes = @ + 1])
  /\ notes' = IF Unchanged(t) THEN notes + 1 ELSE notes
  /\ UNCHANGED <<gates, data, produced, faults, history>>

\* A conversation turn that answers the open checkpoint: no lock.
ReadForAnswer(t) ==
  /\ pc[t] = "idle" /\ t \in Others /\ state.checkpoint # None
  /\ Read(t, "answering")
  /\ UNCHANGED <<state, gates, data, produced, notes, job, faults, history>>

\* The answer to the outline of the manuscript asks for its sections next.
AfterAnswer(c) == IF c = "MANUSCRIPT_REVIEW" THEN {None, c} ELSE {None}

AnswerCheckpoint(t) ==
  /\ pc[t] = "answering"
  /\ \E c \in AfterAnswer(copy[t].checkpoint) : Save(t, [copy[t] EXCEPT !.checkpoint = c])
  /\ UNCHANGED <<gates, data, produced, notes, faults, history>>

----------------------------------------------------------------------------
(* continue_project_orchestration and complete_action_with_candidate.       *)

\* Mutant of MayContinue: the conversation does not look at the checkpoint.
MayContinueAnyway(m) == TRUE

\* The conversation continues when no checkpoint is open; the continue
\* endpoint does not look at it.
MayContinue(m) == m = "chat" => state.checkpoint = None

Continue(t, m) ==
  /\ pc[t] = "idle" /\ t \in Workers
  /\ state.life = "ACTIVE" /\ state.routed /\ state.gate = 0
  /\ state.index \in DOMAIN state.steps
  /\ MayContinue(m)
  /\ job' = [job EXCEPT ![t] = [NoJob EXCEPT !.action = state.steps[state.index], !.mode = m]]
  /\ Goto(t, "chosen")
  /\ UNCHANGED <<state, gates, data, produced, notes, copy, faults, history>>

\* enqueue_next_action reads the revision again.
Enqueue(t) ==
  /\ pc[t] = "chosen"
  /\ job' = [job EXCEPT ![t].expected = state.rev]
  /\ Goto(t, "working")
  /\ UNCHANGED <<state, gates, data, produced, notes, copy, faults, history>>

\* saved_checkpoint: the checkpoints a candidate may open.
Checkpoints(a, m) ==
  CASE a = "research_question_design" -> {"RESEARCH_QUESTION_REVIEW"}
    [] a = "power_analysis" -> {"RESEARCH_DESIGN_REVIEW"}
    [] a = "data_audit" -> {None, "DATA_DESIGN_REVIEW"}
    [] a = "writing" -> {None, "MANUSCRIPT_REVIEW"}
    [] a = "uncertainty_gate" \/ (m = "chat" /\ a \in ChatReviewed) -> {"OPERATOR_REVIEW"}
    [] OTHER -> {None}

\* Mutant of NeedsHumanGate: an action of the conversation never has a Gate.
NeedsNoGateInChat(a, m) == m = "api"
NeedsHumanGate(a, m) == m = "api" \/ a \in HumanGates \ {"uncertainty_gate"}

\* The step at which the project resumes after a checkpoint, if it names one.
ResumeStep(steps, checkpoint) ==
  CASE checkpoint = "RESEARCH_QUESTION_REVIEW" ->
         IF In(steps, "qualitative_design") THEN "qualitative_design" ELSE "research_design"
    [] checkpoint = "RESEARCH_DESIGN_REVIEW" -> "preregistration_freeze"
    [] checkpoint = "DATA_DESIGN_REVIEW" -> "research_design"
    [] checkpoint = "MANUSCRIPT_REVIEW" -> "writing"
    [] OTHER -> None

\* Mutant of NextIndex: the index moves on although a Gate is pending.
NextIndexPastGate(s, human, checkpoint) ==
  IF In(s.steps, ResumeStep(s.steps, checkpoint))
  THEN Position(s.steps, ResumeStep(s.steps, checkpoint)) ELSE s.index + 1

\* next_index of complete_action_with_candidate.
NextIndex(s, human, checkpoint) ==
  IF In(s.steps, ResumeStep(s.steps, checkpoint))
  THEN Position(s.steps, ResumeStep(s.steps, checkpoint))
  ELSE IF ~human /\ s.index <= Len(s.steps) THEN s.index + 1 ELSE s.index

\* The candidate is ready: its revision holds, or the task is stale.
BeginCommit(t) ==
  /\ pc[t] = "working" /\ LockFree
  /\ IF state.rev # job[t].expected
     THEN /\ Goto(t, "idle") /\ job' = [job EXCEPT ![t] = NoJob] /\ UNCHANGED copy
          /\ overtaken' = overtaken \ {t}
     ELSE /\ Read(t, "committing") /\ UNCHANGED overtaken
          /\ \E c \in Checkpoints(job[t].action, job[t].mode), valid \in BOOLEAN :
               job' = [job EXCEPT ![t] = [job[t] EXCEPT
                 !.human = NeedsHumanGate(job[t].action, job[t].mode), !.checkpoint = c, !.valid = valid]]
  /\ UNCHANGED <<state, gates, data, produced, notes, faults, astray, waived>>

\* The handler raises, or its task is refused.
AbandonAction(t) ==
  /\ pc[t] \in {"chosen", "working"}
  /\ Goto(t, "idle")
  /\ job' = [job EXCEPT ![t] = NoJob]
  /\ overtaken' = overtaken \ {t}
  /\ UNCHANGED <<state, gates, data, produced, notes, copy, faults, astray, waived>>

\* Mutant of PutGate: the state will name a Gate that was never written.
PutNoGate(t) ==
  /\ pc[t] = "committing" /\ job[t].human /\ Len(gates) < MaxGates
  /\ job' = [job EXCEPT ![t].gate = Len(gates) + 1]
  /\ Goto(t, "gated")
  /\ UNCHANGED <<state, gates, data, produced, notes, copy, faults, history>>

PutGate(t) ==
  /\ pc[t] = "committing" /\ job[t].human /\ Len(gates) < MaxGates
  /\ gates' = Append(gates, [action |-> job[t].action, status |-> "PENDING",
                             valid |-> job[t].valid, independent |-> FALSE])
  /\ job' = [job EXCEPT ![t].gate = Len(gates) + 1]
  /\ Goto(t, "gated")
  /\ UNCHANGED <<state, data, produced, notes, copy, faults, history>>

\* The steps from the current one of s to the one before i.
Between(s, i) == {s.steps[x] : x \in {y \in DOMAIN s.steps : s.index <= y /\ y < i}}

\* A candidate that opens a Gate and a checkpoint that resumes after its step:
\* the index moves on, and the approval of the Gate will move it again.
TwiceAdvanced(j, steps) ==
  /\ j.human /\ j.checkpoint \in {"RESEARCH_QUESTION_REVIEW", "RESEARCH_DESIGN_REVIEW"}
  /\ In(steps, ResumeStep(steps, j.checkpoint))

Busy == {"chosen", "working", "committing", "gated"}

\* What a commit leaves on record: the candidate of a thread that was overtaken
\* passes the steps it was not made for, and its Gate may do so when decided;
\* the other threads at work are overtaken.
Record(t, i) ==
  /\ overtaken' = (overtaken \cup {u \in Threads : pc[u] \in Busy}) \ {t}
  /\ astray' = IF job[t].human /\ (t \in overtaken \/ TwiceAdvanced(job[t], copy[t].steps))
               THEN astray \cup {job[t].gate} ELSE astray
  /\ waived' = IF t \in overtaken THEN waived \cup (Between(copy[t], i) \ {job[t].action}) ELSE waived

CompleteAction(t) ==
  LET next == NextIndex(copy[t], job[t].human, job[t].checkpoint) IN
  /\ pc[t] = IF job[t].human THEN "gated" ELSE "committing"
  /\ Save(t, [copy[t] EXCEPT !.gate = job[t].gate, !.checkpoint = job[t].checkpoint, !.index = next])
  /\ IF Unchanged(t)
     THEN produced' = produced \cup {job[t].action} /\ Record(t, next)
     ELSE overtaken' = overtaken \ {t} /\ UNCHANGED <<produced, astray, waived>>
  /\ UNCHANGED <<gates, data, notes, faults>>

----------------------------------------------------------------------------
(* decide_gate.                                                              *)

\* Mutant of Decidable: the status of the Gate is not looked at.
DecidableIfActive(g) == state.gate = g
Decidable(g) == state.gate = g /\ gates[g].status = "PENDING"

\* Mutant of MayApprove: the author of the manuscript approves it.
MayApproveAlone(g, independent) ==
  /\ gates[g].action = "raw_data_import" => data
  /\ gates[g].valid

\* Mutant of MayApprove: the data Gate passes without data.
MayApproveWithoutData(g, independent) ==
  /\ gates[g].action = "reviewer_final_confirmation" => independent
  /\ gates[g].valid

\* What an approval needs: the data Gate primary data, the final Gate an
\* independent reviewer (review_policy REVIEWER_REQUIRED, the default), every
\* Gate a candidate that has not failed.
MayApprove(g, independent) ==
  /\ gates[g].action = "raw_data_import" => data
  /\ gates[g].action = "reviewer_final_confirmation" => independent
  /\ gates[g].valid

Decisions == {"approve", "reject", "revise", "stop"}

BeginDecide(t, g) ==
  /\ pc[t] = "idle" /\ t \in Others /\ LockFree
  /\ Decidable(g)
  /\ \E d \in Decisions, independent \in BOOLEAN :
       /\ d = "approve" => MayApprove(g, independent)
       /\ job' = [job EXCEPT ![t] = [NoJob EXCEPT !.gate = g, !.decision = d,
                                                  !.independent = independent]]
  /\ Read(t, "deciding")
  /\ UNCHANGED <<state, gates, data, produced, notes, faults, history>>

\* A continuation, or a conversation turn, approves a pending Gate that is not
\* a boundary of the conversation.
BeginMigrate(t, g) ==
  /\ pc[t] = "idle" /\ LockFree
  /\ state.life = "ACTIVE" /\ Decidable(g)
  /\ gates[g].action \notin HumanGates /\ MayApprove(g, FALSE)
  /\ job' = [job EXCEPT ![t] = [NoJob EXCEPT !.gate = g, !.decision = "approve",
                                            !.independent = FALSE]]
  /\ Read(t, "deciding")
  /\ UNCHANGED <<state, gates, data, produced, notes, faults, history>>

PutDecision(t) ==
  /\ pc[t] = "deciding"
  /\ gates' = [gates EXCEPT ![job[t].gate] =
       [@ EXCEPT !.status = IF job[t].decision = "approve" THEN "APPROVED" ELSE "REJECTED",
                 !.independent = job[t].independent]]
  /\ Goto(t, "decided")
  /\ UNCHANGED <<state, data, produced, notes, copy, job, faults, history>>

\* The step after an approved Gate.
Approved(s, action) ==
  LET raw == Position(s.steps, "raw_data_import") IN
  IF action = "qualitative_design" /\ In(s.steps, "raw_data_import") /\ raw > s.index
  THEN raw ELSE s.index + 1

\* The state after decision d about a Gate of the action.
Decided(s, action, d) ==
  LET cleared == [s EXCEPT !.gate = 0] IN
  CASE d = "stop" -> [cleared EXCEPT !.life = "TERMINATED"]
    [] d = "approve" -> [cleared EXCEPT !.index = Approved(s, action),
                           !.life = IF Approved(s, action) > Len(s.steps) THEN "COMPLETED" ELSE @]
    [] d = "revise" /\ action = "claim_evidence_support" ->
         [cleared EXCEPT !.index = Position(s.steps, "evidence_normalization")]
    [] d = "revise" /\ action = "manuscript_citation_verification" ->
         [cleared EXCEPT !.index = Position(s.steps, "writing"), !.checkpoint = None]
    [] OTHER -> cleared

\* The steps that a decision passes besides the one that it approves.
PassedOver(s, action, d) ==
  Between(s, Decided(s, action, d).index) \ (IF d = "approve" THEN {action} ELSE {})

SaveDecision(t) ==
  LET action == gates[job[t].gate].action IN
  /\ pc[t] = "decided"
  /\ Save(t, Decided(copy[t], action, job[t].decision))
  /\ waived' = IF Unchanged(t) /\ job[t].gate \in astray
               THEN waived \cup PassedOver(copy[t], action, job[t].decision) ELSE waived
  /\ UNCHANGED <<gates, data, produced, notes, faults, overtaken, astray>>

\* The process dies and restarts.
Crash ==
  /\ faults < MaxFaults
  /\ faults' = faults + 1
  /\ pc' = [t \in Threads |-> "idle"]
  /\ job' = [t \in Threads |-> NoJob]
  /\ copy' = [t \in Threads |-> Created]
  /\ overtaken' = {}
  /\ UNCHANGED <<state, gates, data, produced, notes, astray, waived>>

----------------------------------------------------------------------------
Talk(t) == \/ AskForRoute(t) \/ ReadForRoute(t) \/ ChooseRoute(t)
           \/ ReadForTarget(t) \/ SetPublicationTarget(t)
           \/ StorePrimaryData(t) \/ RefuseWithoutData(t) \/ SaveDataStatus(t)
           \/ ReadForNote(t) \/ TakeNote(t) \/ ReadForAnswer(t) \/ AnswerCheckpoint(t)

Work(t) == \/ \E m \in Modes : Continue(t, m)
           \/ Enqueue(t) \/ BeginCommit(t) \/ AbandonAction(t)
           \/ PutGate(t) \/ CompleteAction(t)

Decide(t) == \/ \E g \in DOMAIN gates : BeginDecide(t, g) \/ BeginMigrate(t, g)
             \/ PutDecision(t) \/ SaveDecision(t)

Next == (\E t \in Threads : Talk(t) \/ Work(t) \/ Decide(t)) \/ Crash

Spec == Init /\ [][Next]_vars

----------------------------------------------------------------------------
(* Properties.                                                              *)

States == [rev : 1..MaxRevision,
           steps : {Formatted(s) : s \in {Unclassified, Workflow}} \cup {Unclassified, Workflow},
           index : Nat \ {0}, gate : 0..MaxGates,
           life : {"ACTIVE", "COMPLETED", "TERMINATED"},
           checkpoint : CheckpointNames \cup {None},
           routed : BOOLEAN, target : BOOLEAN, notes : 0..MaxNotes]

GateRows == [action : Actions, status : {"PENDING", "APPROVED", "REJECTED"},
             valid : BOOLEAN, independent : BOOLEAN]

\* The rows hold what their columns may hold; the active Gate exists, and so
\* does the current step of a project that is active and not at its end.
TypeOK ==
  /\ state \in States /\ state.gate <= Len(gates)
  /\ state.life = "ACTIVE" => state.index <= Len(state.steps) + 1
  /\ Len(gates) <= MaxGates /\ \A g \in DOMAIN gates : gates[g] \in GateRows
  /\ data \in BOOLEAN /\ notes \in 0..MaxNotes /\ faults \in 0..MaxFaults
  /\ produced \subseteq Actions /\ waived \subseteq Actions
  /\ overtaken \subseteq {t \in Threads : pc[t] \in Busy} /\ astray \subseteq DOMAIN gates
  /\ \A t \in Threads : copy[t] \in States /\ copy[t].rev <= state.rev

ApprovedGate(action) == \E g \in DOMAIN gates : gates[g].action = action /\ gates[g].status = "APPROVED"

\* The steps of the study before the current one, except those the history
\* names: a formatting stage that was added behind the study, the steps that
\* the candidate of an overtaken thread jumped, and those that the decision
\* about a Gate which was not of the current step jumped.
Behind == {state.steps[i] : i \in {j \in DOMAIN state.steps : 3 <= j /\ j < state.index}} \ waived

\* No step of the route is passed over: every step between the intake and the
\* current one has had a committed candidate, whatever was refused, lost to a
\* restart, revised, re-routed or retargeted on the way and however many
\* threads continue the project; a late target, an overtaken candidate and a
\* Gate that went astray cost the steps they jump and no other.
StepsHaveCandidates == Behind \subseteq produced

\* The current step lies beyond a human decision only if a Gate for it was
\* approved: no checkpoint, stale save, migration or late target opens it, and
\* an overtaken candidate or a Gate astray opens no more than what it jumps.
HumanGatesPassed ==
  \A a \in Behind \cap (HumanGates \ {"uncertainty_gate"}) : ApprovedGate(a)

\* A project is complete only when an independent reviewer has approved the
\* final Gate, or an overtaken candidate or a Gate astray has jumped it.
CompletedWasReviewed ==
  state.life = "COMPLETED" /\ "reviewer_final_confirmation" \notin waived =>
    \E g \in DOMAIN gates : /\ gates[g].action = "reviewer_final_confirmation"
                            /\ gates[g].status = "APPROVED" /\ gates[g].independent

\* The study goes beyond its data import only with registered primary data,
\* unless an overtaken candidate or a Gate astray has jumped the import.
DataBeforeAnalysis == "raw_data_import" \in Behind => data

\* The step that the active Gate reviews is never behind the current one, so
\* that approving the Gate passes no step beyond the one reviewed, unless its
\* candidate was overtaken or advanced the study twice. (It may be ahead: a
\* second choose_route sends the index back under a candidate.)
ActiveGateIsAhead ==
  state.gate # 0 /\ state.gate \notin astray =>
    \E i \in state.index..Len(state.steps) : state.steps[i] = gates[state.gate].action

\* Every constraint that a conversation turn acknowledged is still in the
\* state: no operation, with the lock or without, saves an old copy over it.
NoLostUpdate == state.notes = notes

DecisionsStand == \A g \in DOMAIN gates :
  g \in DOMAIN gates' /\ (gates[g].status # "PENDING" => gates'[g] = gates[g])

\* A decided Gate is never decided again and never loses its decision, and no
\* Gate disappears.
GatesDecidedOnce == [][DecisionsStand]_vars

\* An open checkpoint is closed by the turn that answers it, and otherwise only
\* by a commit of the continue endpoint, which does not look at checkpoints, or
\* of a thread that was at work already when the candidate was committed that
\* opened it; a turn that continues the study in the conversation waits.
CheckpointIsAnswered ==
  [][state.checkpoint # None /\ state'.checkpoint # state.checkpoint
       => \E t \in Threads :
            \/ pc[t] = "answering" /\ copy[t].checkpoint = state.checkpoint
            \/ /\ pc[t] \in {"committing", "gated"} /\ pc'[t] = "idle"
               /\ job[t].mode = "api" \/ t \in overtaken]_vars

\* In a project that one thread continues in the conversation, with its target
\* set before the writing is done, none of the exceptions above ever arises.
NothingOnRecord == overtaken = {} /\ astray = {} /\ waived = {}

----------------------------------------------------------------------------
(* What the repository says and the code does not do.                       *)

\* "retains a gate per action for API clients that explicitly orchestrate
\* every review": the endpoint passes no step without its Gate.
GatePerAction == \A a \in Behind : ApprovedGate(a)

\* "Approval is recoverable and idempotent": the active Gate can be decided,
\* or a thread is in the middle of deciding it.
ActiveGateIsPending ==
  state.gate # 0 /\ gates[state.gate].status # "PENDING"
    => \E t \in Threads : pc[t] = "decided" /\ job[t].gate = state.gate
=============================================================================
