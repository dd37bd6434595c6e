------------------------- MODULE ResearchController -------------------------
(***************************************************************************)
(* The stage machine of controller/router.py for one project: an agent     *)
(* drafts, a human decides, the stage moves on or the project is reworked; *)
(* between protocol and manuscript the data pipeline of                    *)
(* controller/data_pipeline.py has its own questions to the human.         *)
(*                                                                         *)
(* No lock is held from the moment a request reads the state until it      *)
(* writes it back, and an agent may run for minutes in between: each       *)
(* request is a read, perhaps the record of a decision, a write of the     *)
(* state in memory, and the save of a snapshot.                            *)
(***************************************************************************)
CONSTANTS
    Calls,        \* request threads
    Datasets,     \* contents of raw CSV files
    NoData,       \* no such file yet
    Privileged,   \* the process may overwrite files marked read-only
    Requests,     \* identifiers of questions to the human
    Planning,     \* the one identifier all planning runs of a project use
    NoRequest     \* no question

ASSUME ConstantsAssumption ==
    /\ Privileged \in BOOLEAN
    /\ NoData \notin Datasets
    /\ Planning \in Requests /\ NoRequest \notin Requests

VARIABLES
    mem,        \* what the process holds of the project
    stored,     \* the snapshot in workflow_projects
    asked,      \* the questions, about which raw data, and what workflow_decisions
                \* holds about each
    frozen,     \* datasets of which a read-only frozen file exists
    pc,         \* what each request does next
    seen,       \* the state each request has read, or is about to save
    verdict     \* the decision a request carries

vars == <<mem, stored, asked, frozen, pc, seen, verdict>>

Agents == {"mentor_planning", "evidence_review", "research_design",
           "data_analysis", "paper_writing", "independent_review"}

(* The question the human is asked about the output of each agent. *)
Produces == [mentor_planning    |-> "research_scope",
             evidence_review    |-> "evidence_protocol",
             research_design    |-> "study_protocol",
             data_analysis      |-> "analysis_specification",
             paper_writing      |-> "manuscript",
             independent_review |-> "review_report"]

Route == [SCOPED                  |-> "evidence_review",
          EVIDENCE_READY          |-> "research_design",
          STUDY_PROTOCOL_APPROVED |-> "data_analysis",
          ANALYZED                |-> "paper_writing",
          DRAFTED                 |-> "independent_review"]

ReworkTarget == [research_scope         |-> "mentor_planning",
                 evidence_protocol      |-> "evidence_review",
                 study_protocol         |-> "research_design",
                 analysis_specification |-> "data_analysis",
                 manuscript             |-> "paper_writing",
                 review_report          |-> "paper_writing"]

FindingTargets == Agents \ {"independent_review"}

(* Mutant: as without a data pipeline.                                     *)
ApprovedStageUnpiped == [research_scope         |-> "SCOPED",
                         evidence_protocol      |-> "EVIDENCE_READY",
                         study_protocol         |-> "STUDY_PROTOCOL_APPROVED",
                         analysis_specification |-> "ANALYZED",
                         manuscript             |-> "DRAFTED",
                         review_report          |-> "VERIFIED"]

ApprovedStage == [research_scope         |-> "SCOPED",
                  evidence_protocol      |-> "EVIDENCE_READY",
                  study_protocol         |-> "STUDY_PROTOCOL_APPROVED",
                  analysis_specification |-> "DATA_READY",
                  manuscript             |-> "DRAFTED",
                  review_report          |-> "VERIFIED"]

Verdicts == {"approved", "rejected"}
Kinds == DOMAIN ReworkTarget
DataKinds == {"data_processing", "data_freeze", "analysis_execution"}
PipelineKinds == DataKinds \cup {"analysis_preparation"}

Stages == {"INTAKE", "WAITING_HUMAN", "DATA_READY", "REWORK", "BLOCKED", "VERIFIED"}
          \cup DOMAIN Route

NoAgent == "none"

(* The waiting stages of the pipeline are told apart by the question it    *)
(* asks; "by" holds the approval named in what each operation produced.    *)
PipeStages == {"NONE", "WAITING_APPROVAL", "WAITING_RAW_DATA", "REWORK",
               "ANALYZED", "BLOCKED"}

NoPipe == [stage |-> "NONE", ask |-> NoRequest, raw |-> NoData,
           by |-> [k \in DataKinds |-> NoRequest]]

BegunPipe == [NoPipe EXCEPT !.stage = "WAITING_RAW_DATA"]

(* A project as ensure_project creates it. "pending" is the reference in   *)
(* the workflow state, "approval" the request kept beside it; "findings"   *)
(* says that a review has sent something back, "flagged" that a run has    *)
(* reported insufficient evidence.                                         *)
NewProject == [stage |-> "INTAKE", pending |-> NoRequest, approval |-> NoRequest,
               target |-> NoAgent, findings |-> FALSE, flagged |-> FALSE,
               pipe |-> NoPipe, package |-> FALSE]

Question(kind, raw) == [kind |-> kind, raw |-> raw, verdict |-> "none"]

NoQuestion == Question("none", NoData)

Init ==
    /\ mem = NewProject
    /\ stored = NewProject
    /\ asked = [r \in Requests |-> NoQuestion]
    /\ frozen = {}
    /\ pc = [c \in Calls |-> "idle"]
    /\ seen = [c \in Calls |-> NewProject]
    /\ verdict = [c \in Calls |-> "approved"]

-----------------------------------------------------------------------------
(* The shape of a request: it reads, it writes the memory, it saves. A     *)
(* request that has ended forgets what it has read.                        *)

Goes(c, from, to) == pc[c] = from /\ pc' = [pc EXCEPT ![c] = to]

Ends(c, from) ==
    /\ Goes(c, from, "idle")
    /\ seen' = [seen EXCEPT ![c] = NewProject]
    /\ verdict' = [verdict EXCEPT ![c] = "approved"]

Reads(c, to) ==
    /\ Goes(c, "idle", to)
    /\ seen' = [seen EXCEPT ![c] = mem]
    /\ UNCHANGED <<mem, stored, asked, frozen, verdict>>

Writes(c, from, m) ==
    /\ Goes(c, from, "saving")
    /\ mem' = m
    /\ seen' = [seen EXCEPT ![c] = m]
    /\ UNCHANGED <<stored, frozen, verdict>>

(* _persist: the snapshot is the state the request had just written, even  *)
(* if another request has written since.                                   *)
Save(c) ==
    /\ Ends(c, "saving")
    /\ stored' = seen[c]
    /\ UNCHANGED <<mem, asked, frozen>>

(* A request whose agent, file or precondition raises.                     *)
Fails(c, from) ==
    /\ Ends(c, from)
    /\ UNCHANGED <<mem, stored, asked, frozen>>

(* What the process holds, what it has stored, and what requests have read *)
(* or are about to save.                                                   *)
Versions == {mem, stored} \cup {seen[c] : c \in Calls}

RefersTo(m, r) ==
    m.pending = r \/ m.approval = r \/ m.pipe.ask = r \/ \E k \in DataKinds : m.pipe.by[k] = r

Unused == {r \in Requests \ {Planning} : \A m \in Versions : ~RefersTo(m, r)}

(* A new question gets an identifier nothing refers to; what nothing       *)
(* refers to is forgotten, so that identifiers can be few.                 *)
Fresh == CHOOSE r \in Unused : TRUE

Asks(kind, raw) ==
    /\ Unused # {}
    /\ asked' = [r \in Requests |-> IF r = Fresh THEN Question(kind, raw)
                                   ELSE IF r \in Unused THEN NoQuestion
                                   ELSE asked[r]]

-----------------------------------------------------------------------------
(* Planning, the agents, and the human's approvals.                        *)

BeginPlanning(c) ==
    /\ Goes(c, "idle", "planning")
    /\ UNCHANGED <<mem, stored, asked, frozen, seen, verdict>>

FinishPlanning(c) ==
    /\ asked' = [asked EXCEPT ![Planning] = [asked[Planning]
                                            EXCEPT !.kind = "research_scope"]]
    /\ Writes(c, "planning", [NewProject EXCEPT !.stage = "WAITING_HUMAN",
                                                !.pending = Planning, !.approval = Planning])

NextAgent(m) == IF m.stage = "REWORK" THEN m.target ELSE Route[m.stage]

Runnable(m) ==
    IF m.stage = "REWORK" THEN m.target # NoAgent ELSE m.stage \in DOMAIN Route

BeginRun(c) == Runnable(mem) /\ Reads(c, "running")

(* The references of the agent's result are merged into the research state *)
(* of now; pipeline and package are those read before the agent ran.       *)
FinishRun(c) ==
    LET agent == NextAgent(seen[c])
        risks == IF agent = "evidence_review" THEN BOOLEAN ELSE {FALSE}
    IN  pc[c] = "running" /\ \E risk \in risks :
        /\ Asks(Produces[agent], NoData)
        /\ Writes(c, "running",
                  [mem EXCEPT !.stage = "WAITING_HUMAN",
                              !.pending = Fresh, !.approval = Fresh,
                              !.flagged = @ \/ risk,
                              !.pipe = seen[c].pipe,
                              !.package = seen[c].package \/
                                  (agent = "data_analysis" /\ seen[c].stage # "REWORK")])

(* An approval without any evidence is refused too; it then changes        *)
(* nothing, and how much evidence there is is left out.                    *)
EvidenceBlocks(m) == asked[m.approval].kind = "evidence_protocol" /\ m.flagged

(* get_pending_approval of a project without one: the snapshot replaces    *)
(* the memory.                                                             *)
LookUpApproval(c) ==
    /\ pc[c] = "idle"
    /\ mem.approval = NoRequest
    /\ mem' = stored
    /\ UNCHANGED <<stored, asked, frozen, pc, seen, verdict>>

BeginApproval(c) ==
    /\ mem.approval # NoRequest
    /\ mem.pending = mem.approval
    /\ Goes(c, "idle", "deciding")
    /\ seen' = [seen EXCEPT ![c] = mem]
    /\ \E v \in Verdicts :
          /\ v = "approved" => ~EvidenceBlocks(mem)
          /\ verdict' = [verdict EXCEPT ![c] = v]
    /\ UNCHANGED <<mem, stored, asked, frozen>>

Records(c, r, from, to) ==
    /\ Goes(c, from, to)
    /\ asked' = [asked EXCEPT ![r].verdict = verdict[c]]
    /\ UNCHANGED <<mem, stored, frozen, seen, verdict>>

RecordApproval(c) == Records(c, seen[c].approval, "deciding", "applying")

ApplyApproval(c) ==
    LET kind == asked[seen[c].approval].kind
        settled == [seen[c] EXCEPT !.pending = NoRequest, !.approval = NoRequest]
    IN  /\ pc[c] = "applying"
        /\ UNCHANGED asked
        /\ \/ /\ verdict[c] = "rejected"
              /\ Writes(c, "applying", [settled EXCEPT !.stage = "REWORK",
                                                       !.target = ReworkTarget[kind]])
           \/ /\ verdict[c] = "approved"
              /\ kind = "analysis_specification" => seen[c].package
              /\ Writes(c, "applying",
                        [settled EXCEPT !.stage = ApprovedStage[kind],
                                        !.target = NoAgent,
                                        !.pipe = IF kind = "analysis_specification"
                                                 THEN BegunPipe ELSE @])

(* The decision is recorded, but there is no package to start the pipeline *)
(* from.                                                                   *)
PackageMissing(c) ==
    /\ pc[c] = "applying"
    /\ verdict[c] = "approved"
    /\ asked[seen[c].approval].kind = "analysis_specification"
    /\ ~seen[c].package
    /\ Fails(c, "applying")

-----------------------------------------------------------------------------
(* The data pipeline. Its requests leave the controller's own approval     *)
(* alone.                                                                  *)

Keeping(m) == [m EXCEPT !.approval = mem.approval]

ReadForPipeline(c) ==
    /\ mem.stage \in {"STUDY_PROTOCOL_APPROVED", "DATA_READY"}
    /\ Reads(c, "beginning")

BeginPipeline(c) ==
    /\ Writes(c, "beginning", Keeping([seen[c] EXCEPT !.stage = "DATA_READY",
                                                      !.pipe = BegunPipe]))
    /\ UNCHANGED asked

ReadForPreparation(c) ==
    /\ mem.stage = "STUDY_PROTOCOL_APPROVED"
    /\ mem.pipe.stage = "NONE"
    /\ Reads(c, "preparing")

Asking(pipe) == [pipe EXCEPT !.stage = "WAITING_APPROVAL", !.ask = Fresh]

PreparePipeline(c) ==
    /\ Asks("analysis_preparation", NoData)
    /\ Writes(c, "preparing", Keeping([seen[c] EXCEPT !.stage = "WAITING_HUMAN",
                                                      !.pipe = Asking(NoPipe)]))

(* Mutant: a second upload while the first is being decided.               *)
AcceptsReplacement(m) == m.pipe.stage = "WAITING_RAW_DATA" \/ m.pipe.raw # NoData

AcceptsRawData(m) == m.pipe.stage = "WAITING_RAW_DATA"

ReadForRawData(c) == AcceptsRawData(mem) /\ Reads(c, "auditing")

RegisterRawData(c) ==
    \E d \in Datasets :
        LET pipe == [seen[c].pipe EXCEPT !.raw = d]
        IN  \/ /\ Asks("data_processing", d)
               /\ Writes(c, "auditing", Keeping([seen[c] EXCEPT !.stage = "WAITING_HUMAN",
                                                                !.pipe = Asking(pipe)]))
            \/ /\ UNCHANGED asked
               /\ Writes(c, "auditing",
                         Keeping([seen[c] EXCEPT !.stage = "REWORK",
                                                 !.pipe = [pipe EXCEPT !.stage = "REWORK"]]))

BeginDecision(c) ==
    /\ mem.pipe.ask # NoRequest
    /\ Goes(c, "idle", "judging")
    /\ seen' = [seen EXCEPT ![c] = mem]
    /\ \E v \in Verdicts : verdict' = [verdict EXCEPT ![c] = v]
    /\ UNCHANGED <<mem, stored, asked, frozen>>

(* Mutant: the operation is executed, its approval is not recorded.        *)
RecordNoDecision(c) ==
    /\ Goes(c, "judging", "operating")
    /\ UNCHANGED <<mem, stored, asked, frozen, seen, verdict>>

RecordDecision(c) == Records(c, seen[c].pipe.ask, "judging", "operating")

Operation(c) == asked[seen[c].pipe.ask].kind

(* freeze_csv writes the file and marks it read-only.                      *)
WriteFrozenFile(c) ==
    /\ pc[c] = "operating"
    /\ verdict[c] = "approved" /\ Operation(c) = "data_freeze"
    /\ Privileged \/ seen[c].pipe.raw \notin frozen
    /\ Goes(c, "operating", "freezing")
    /\ frozen' = frozen \cup {seen[c].pipe.raw}
    /\ UNCHANGED <<mem, stored, asked, seen, verdict>>

FrozenFileIsReadOnly(c) ==
    /\ pc[c] = "operating"
    /\ verdict[c] = "approved" /\ Operation(c) = "data_freeze"
    /\ ~Privileged /\ seen[c].pipe.raw \in frozen
    /\ Fails(c, "operating")

(* Mutants: the question stays open; the decision instead of its request.  *)
AnsweredStillOpen(c) ==
    IF verdict[c] = "approved" /\ Operation(c) \in DataKinds
    THEN [seen[c].pipe EXCEPT !.by[Operation(c)] = seen[c].pipe.ask] ELSE seen[c].pipe

AnsweredByVerdict(c) ==
    LET pipe == [seen[c].pipe EXCEPT !.ask = NoRequest]
    IN  IF verdict[c] = "approved" /\ Operation(c) \in DataKinds
        THEN [pipe EXCEPT !.by[Operation(c)] = verdict[c]] ELSE pipe

(* The pipeline that was seen, its question answered; an operation keeps   *)
(* the reference of the approval that allowed it.                          *)
Answered(c) ==
    LET pipe == [seen[c].pipe EXCEPT !.ask = NoRequest]
    IN  IF verdict[c] = "approved" /\ Operation(c) \in DataKinds
        THEN [pipe EXCEPT !.by[Operation(c)] = seen[c].pipe.ask] ELSE pipe

(* Mutant: the approval to process is taken for the one to freeze.         *)
AsksForExecution(c, from, kind) ==
    /\ Asks("analysis_execution", seen[c].pipe.raw)
    /\ Writes(c, from, Keeping([seen[c] EXCEPT !.stage = "WAITING_HUMAN",
                                               !.pipe = Asking(Answered(c))]))

AsksNext(c, from, kind) ==
    /\ Asks(kind, seen[c].pipe.raw)
    /\ Writes(c, from, Keeping([seen[c] EXCEPT !.stage = "WAITING_HUMAN",
                                               !.pipe = Asking(Answered(c))]))

(* Mutant: the pipeline does not learn of the stage.                       *)
SettlesStageOnly(c, from, stage, pipestage) ==
    /\ UNCHANGED asked
    /\ Writes(c, from, Keeping([seen[c] EXCEPT !.stage = stage, !.pipe = Answered(c)]))

Settles(c, from, stage, pipestage) ==
    /\ UNCHANGED asked
    /\ Writes(c, from, Keeping([seen[c] EXCEPT
                  !.stage = stage, !.pipe = [Answered(c) EXCEPT !.stage = pipestage]]))

RejectData(c) ==
    /\ pc[c] = "operating"
    /\ verdict[c] = "rejected"
    /\ Settles(c, "operating", "REWORK", "REWORK")

ConfirmPreparation(c) ==
    /\ Operation(c) = "analysis_preparation"
    /\ Settles(c, "operating", "DATA_READY", "WAITING_RAW_DATA")

ProcessData(c) ==
    Operation(c) = "data_processing" /\ AsksNext(c, "operating", "data_freeze")

(* After the file is written its schema fits the model specification or    *)
(* does not.                                                               *)
FreezeData(c) ==
    /\ Operation(c) = "data_freeze"
    /\ \/ AsksNext(c, "freezing", "analysis_execution")
       \/ Settles(c, "freezing", "REWORK", "REWORK")

(* The analysis runs and validates, with any fallback provider, or not.    *)
ExecutePlan(c) ==
    /\ Operation(c) = "analysis_execution"
    /\ \/ Settles(c, "operating", "ANALYZED", "ANALYZED")
       \/ Settles(c, "operating", "BLOCKED", "BLOCKED")

AcceptData(c) ==
    /\ pc[c] \in {"operating", "freezing"}
    /\ verdict[c] = "approved"
    /\ ConfirmPreparation(c) \/ ProcessData(c) \/ FreezeData(c) \/ ExecutePlan(c)

-----------------------------------------------------------------------------
(* Reviews, and the tasks of agent plans that write the same state.        *)

ReadForReview(c) ==
    /\ mem.stage = "DRAFTED"
    /\ mem.pipe.stage = "ANALYZED"
    /\ Reads(c, "reviewing")

(* The reviewer finds numbers right or wrong.  review_reproducibility      *)
(* makes every finding a "claim" of ARTIFACT scope, so that the branch for *)
(* STAGE and PROJECT findings and the other targets are not reached here   *)
(* (external findings, which do reach them, are RouteFinding).             *)
FinishReview(c) ==
    \/ /\ Asks("review_report", NoData)
       /\ Writes(c, "reviewing", [seen[c] EXCEPT !.stage = "WAITING_HUMAN",
                                                 !.pending = Fresh, !.approval = Fresh])
    \/ /\ UNCHANGED asked
       /\ Writes(c, "reviewing",
                 Keeping([seen[c] EXCEPT !.stage = "REWORK", !.pending = NoRequest,
                                         !.target = "paper_writing", !.findings = TRUE]))

ReadForFinding(c) == mem.stage = "REWORK" /\ Reads(c, "routing")

RouteFinding(c) ==
    /\ UNCHANGED asked
    /\ \/ Writes(c, "routing", Keeping([seen[c] EXCEPT !.stage = "BLOCKED",
                                                       !.target = NoAgent]))
       \/ \E t \in FindingTargets :
             Writes(c, "routing", Keeping([seen[c] EXCEPT !.target = t, !.findings = TRUE]))

(* _execute_planned_task reads the workflow state, runs its agent, and     *)
(* writes what it read with the merged research state.                     *)
ReadForTask(c) == Reads(c, "tasking")

FinishTask(c) ==
    /\ UNCHANGED asked
    /\ \E risk \in BOOLEAN :
          Writes(c, "tasking",
                 Keeping([seen[c] EXCEPT !.target = mem.target, !.findings = mem.findings,
                                         !.flagged = mem.flagged \/ risk]))

RequestFails(c) ==
    \E at \in {"planning", "running", "preparing", "auditing", "operating", "reviewing", "tasking"} :
        Fails(c, at)

(* A restart: the snapshot is what remains.                                *)
Crash ==
    /\ mem' = stored
    /\ pc' = [c \in Calls |-> "idle"]
    /\ seen' = [c \in Calls |-> NewProject]
    /\ verdict' = [c \in Calls |-> "approved"]
    /\ UNCHANGED <<stored, asked, frozen>>

CallNext(c) ==
    \/ Save(c) \/ RequestFails(c)
    \/ BeginPlanning(c) \/ FinishPlanning(c)
    \/ BeginRun(c) \/ FinishRun(c)
    \/ LookUpApproval(c) \/ BeginApproval(c) \/ RecordApproval(c) \/ ApplyApproval(c) \/ PackageMissing(c)
    \/ ReadForPipeline(c) \/ BeginPipeline(c)
    \/ ReadForPreparation(c) \/ PreparePipeline(c)
    \/ ReadForRawData(c) \/ RegisterRawData(c)
    \/ BeginDecision(c) \/ RecordDecision(c) \/ WriteFrozenFile(c)
    \/ FrozenFileIsReadOnly(c) \/ RejectData(c) \/ AcceptData(c)
    \/ ReadForReview(c) \/ FinishReview(c)
    \/ ReadForFinding(c) \/ RouteFinding(c)
    \/ ReadForTask(c) \/ FinishTask(c)

Next == Crash \/ \E c \in Calls : CallNext(c)

Spec == Init /\ [][Next]_vars

-----------------------------------------------------------------------------
References == Requests \cup {NoRequest}

Projects ==
    [stage : Stages, pending : References, approval : References,
     target : Agents \cup {NoAgent}, findings : BOOLEAN, flagged : BOOLEAN,
     pipe : [stage : PipeStages, ask : References, raw : Datasets \cup {NoData},
             by : [DataKinds -> References]],
     package : BOOLEAN]

Places == {"idle", "saving", "planning", "running", "deciding", "applying", "beginning",
           "preparing", "auditing", "judging", "operating", "freezing", "reviewing",
           "routing", "tasking"}

(* Types; what is remembered names questions that were asked.              *)
TypeOK ==
    /\ mem \in Projects /\ stored \in Projects
    /\ asked \in [Requests -> [kind : Kinds \cup PipelineKinds \cup {"none"},
                             raw : Datasets \cup {NoData}, verdict : Verdicts \cup {"none"}]]
    /\ frozen \subseteq Datasets
    /\ pc \in [Calls -> Places]
    /\ seen \in [Calls -> Projects]
    /\ verdict \in [Calls -> Verdicts]

(* A project waits for the human exactly when one question is open, either *)
(* the controller's or the pipeline's: no order of requests, failures,     *)
(* reworks and restarts leaves it waiting for nothing or for two answers.  *)
(* (The run has one request at a time; that overlapping requests and their *)
(* stale writes keep it is theorem OneAnswer.)                             *)
WaitsForOneAnswer ==
    \A m \in Versions :
        /\ m.stage = "WAITING_HUMAN" <=> (m.pending # NoRequest \/ m.pipe.ask # NoRequest)
        /\ m.pending = NoRequest \/ m.pipe.ask = NoRequest

(* Approvals are about the data they are used for: what a pipeline asks    *)
(* now, and what it has processed, frozen and analysed, was asked as a     *)
(* question of that kind about the raw data the pipeline holds, through    *)
(* rejections, new uploads, new pipelines and restarts. (One request at a  *)
(* time in the run, any overlap in theorem DataApproved.)                  *)
ApprovedForThisData ==
    \A m \in Versions :
        /\ m.pipe.ask # NoRequest /\ m.pipe.raw # NoData => asked[m.pipe.ask].raw = m.pipe.raw
        /\ \A k \in DataKinds :
              m.pipe.by[k] # NoRequest =>
                  asked[m.pipe.by[k]].kind = k /\ asked[m.pipe.by[k]].raw = m.pipe.raw

(* A result rests on the whole chain: an analysed pipeline has data that   *)
(* was processed, frozen and analysed, each under its own approval, and    *)
(* the frozen file exists, whatever failed between a decision and what it  *)
(* allowed. (One request at a time in the run, any overlap in theorem      *)
(* ResultsAreChained.)                                                     *)
ResultHasChain ==
    \A m \in Versions :
        /\ m.pipe.stage = "ANALYZED" => \A k \in DataKinds : m.pipe.by[k] # NoRequest
        /\ m.pipe.by["data_freeze"] # NoRequest => m.pipe.raw \in frozen

(* With requests one after another: nothing was processed, frozen or       *)
(* analysed under an approval that the decision store shows as rejected.   *)
UsedApprovalsStand ==
    \A k \in DataKinds :
        mem.pipe.by[k] # NoRequest => asked[mem.pipe.by[k]].verdict = "approved"

(* With requests one after another: a manuscript is approved only on a     *)
(* result, or after a review finding has sent the project to writing.      *)
DraftNeedsResult ==
    mem.stage \in {"DRAFTED", "VERIFIED"} => mem.pipe.stage = "ANALYZED" \/ mem.findings

(* With requests one after another: a project in rework knows who reworks  *)
(* it, or its pipeline says why it is there; the open question is the one  *)
(* kept beside the state.                                                  *)
ReworkHasReason ==
    /\ mem.stage = "REWORK" => mem.target # NoAgent \/ mem.pipe.stage = "REWORK"
    /\ mem.approval = mem.pending

(* "Apply one approval exactly once": an approval about to be applied is   *)
(* still the pending one.                                                  *)
AppliesPending ==
    \A c \in Calls : pc[c] = "applying" => mem.pending = seen[c].approval

-----------------------------------------------------------------------------
(* The inductive invariant. Every request replaces the state as a whole by *)
(* one step from the state it has read, so what relates the parts of one   *)
(* state survives any interleaving.                                        *)

SoundPipe(p, q, f) ==
    /\ p.ask # Planning /\ \A k \in DataKinds : p.by[k] # Planning
    /\ p.ask # NoRequest =>
          /\ q[p.ask].kind \in PipelineKinds
          /\ q[p.ask].kind \in DataKinds => q[p.ask].raw = p.raw /\ p.raw # NoData
          /\ q[p.ask].kind = "analysis_preparation" =>
                p.raw = NoData /\ \A k \in DataKinds : p.by[k] = NoRequest
          /\ q[p.ask].kind \in {"data_freeze", "analysis_execution"} =>
                p.by["data_processing"] # NoRequest
          /\ q[p.ask].kind = "analysis_execution" => p.by["data_freeze"] # NoRequest
    /\ p.stage = "WAITING_RAW_DATA" =>
          p.raw = NoData /\ \A k \in DataKinds : p.by[k] = NoRequest
    /\ p.stage = "ANALYZED" => \A k \in DataKinds : p.by[k] # NoRequest
    /\ \A k \in DataKinds :
          p.by[k] # NoRequest => q[p.by[k]].kind = k /\ q[p.by[k]].raw = p.raw
    /\ p.by["data_freeze"] # NoRequest => p.raw \in f

SoundProject(m, q, f) ==
    /\ m.stage = "WAITING_HUMAN" <=> (m.pending # NoRequest \/ m.pipe.ask # NoRequest)
    /\ m.pending = NoRequest \/ m.pipe.ask = NoRequest
    /\ m.pending # NoRequest => q[m.pending].kind \in Kinds
    /\ m.pending = Planning => q[Planning].kind = "research_scope"
    /\ m.pipe.stage = "WAITING_RAW_DATA" => m.stage = "DATA_READY"
    /\ SoundPipe(m.pipe, q, f)

(* What a request has checked of the state it has read.                    *)
Checked(c) ==
    LET m == seen[c]
    IN  /\ pc[c] = "running" => Runnable(m)
        /\ pc[c] \in {"deciding", "applying"} => m.pending # NoRequest /\ m.approval = m.pending
        /\ pc[c] = "beginning" => m.stage \in {"STUDY_PROTOCOL_APPROVED", "DATA_READY"}
        /\ pc[c] = "preparing" => m.stage = "STUDY_PROTOCOL_APPROVED"
        /\ pc[c] = "auditing" => AcceptsRawData(m)
        /\ pc[c] \in {"judging", "operating", "freezing"} => m.pipe.ask # NoRequest
        /\ pc[c] = "freezing" => /\ m.pipe.raw \in frozen
                                 /\ asked[m.pipe.ask].kind = "data_freeze"
        /\ pc[c] = "reviewing" => m.stage = "DRAFTED"
        /\ pc[c] = "routing" => m.stage = "REWORK"

RInv ==
    /\ TypeOK
    /\ \A m \in Versions : SoundProject(m, asked, frozen)
    /\ \A c \in Calls : Checked(c)
=============================================================================
