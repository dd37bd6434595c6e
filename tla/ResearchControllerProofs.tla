---------------------- MODULE ResearchControllerProofs ----------------------
(***************************************************************************)
(* Proofs about ResearchController, for any number of concurrent requests, *)
(* identifiers and files: whatever is lost when requests cross, every      *)
(* version of the project waits for exactly one answer, and a result rests *)
(* on approvals that were asked about its own data.                        *)
(***************************************************************************)
EXTENDS ResearchController, TLAPS

AskedType == asked \in [Requests -> [kind : Kinds \cup PipelineKinds \cup {"none"},
                                     raw : Datasets \cup {NoData}, verdict : Verdicts \cup {"none"}]]

\* The questions that a version's own soundness is about.
Uses(m, r) == m.pending = r \/ m.pipe.ask = r \/ \E k \in DataKinds : m.pipe.by[k] = r

\* What a version uses stays the same question.
KeepsQuestions ==
  \A m \in Versions : \A r \in Requests : Uses(m, r) =>
    asked'[r].kind = asked[r].kind /\ asked'[r].raw = asked[r].raw

\* What is more, its answer stays.
KeepsAnswers ==
  \A m \in Versions : \A r \in Requests : Uses(m, r) => asked'[r] = asked[r]

----------------------------------------------------------------------------
(* A new project, and versions that did not change.                         *)

LEMMA NewProjectIsSound == NewProject \in Projects /\ SoundProject(NewProject, asked, frozen)
BY ConstantsAssumption DEF NewProject, NoPipe, Projects, SoundProject, SoundPipe, References,
   PipeStages, Stages, DataKinds, NoAgent

LEMMA SoundKept ==
  ASSUME NEW m \in Projects, NEW q, NEW f, NEW q2, NEW f2,
         SoundProject(m, q, f), f \subseteq f2,
         \A r \in Requests : Uses(m, r) => q2[r].kind = q[r].kind /\ q2[r].raw = q[r].raw
  PROVE  SoundProject(m, q2, f2)
<1>1. m.pending \in References /\ m.pipe.ask \in References /\ m.pipe.by \in [DataKinds -> References]
  BY DEF Projects
<1>2. m.pending # NoRequest => q2[m.pending].kind = q[m.pending].kind
  BY <1>1 DEF References, Uses
<1>3. m.pipe.ask # NoRequest => q2[m.pipe.ask].kind = q[m.pipe.ask].kind
                                /\ q2[m.pipe.ask].raw = q[m.pipe.ask].raw
  BY <1>1 DEF References, Uses
<1>4. \A k \in DataKinds : m.pipe.by[k] # NoRequest =>
        q2[m.pipe.by[k]].kind = q[m.pipe.by[k]].kind /\ q2[m.pipe.by[k]].raw = q[m.pipe.by[k]].raw
  BY <1>1 DEF References, Uses
<1>5. SoundPipe(m.pipe, q2, f2)
  BY <1>3, <1>4 DEF SoundProject, SoundPipe
<1> QED BY <1>2, <1>5, ConstantsAssumption DEF SoundProject

LEMMA FreshIsNew ==
  ASSUME RInv, NEW kind \in Kinds \cup PipelineKinds, NEW raw \in Datasets \cup {NoData}, Asks(kind, raw)
  PROVE  /\ Fresh \in Requests /\ Fresh # Planning /\ Fresh # NoRequest
         /\ \A m \in Versions : ~RefersTo(m, Fresh)
         /\ asked'[Fresh].kind = kind /\ asked'[Fresh].raw = raw
         /\ asked'[Planning] = asked[Planning]
         /\ AskedType' /\ KeepsQuestions /\ KeepsAnswers
<1>1. Fresh \in Unused  BY DEF Asks, Fresh
<1>2. Fresh \in Requests /\ Fresh # Planning /\ Fresh # NoRequest /\ \A m \in Versions : ~RefersTo(m, Fresh)
  BY <1>1, ConstantsAssumption DEF Unused
<1>3. \A r \in Requests : asked'[r] = IF r = Fresh THEN Question(kind, raw)
                                      ELSE IF r \in Unused THEN NoQuestion ELSE asked[r]
  BY DEF Asks
<1>4. asked'[Fresh].kind = kind /\ asked'[Fresh].raw = raw
  BY <1>2, <1>3 DEF Question
<1>5. asked'[Planning] = asked[Planning]
  BY <1>2, <1>3, ConstantsAssumption DEF Unused
<1>6. KeepsQuestions /\ KeepsAnswers
  <2> SUFFICES ASSUME NEW m \in Versions, NEW r \in Requests, Uses(m, r)
               PROVE  asked'[r] = asked[r]
    BY DEF KeepsQuestions, KeepsAnswers
  <2>1. RefersTo(m, r)  BY DEF Uses, RefersTo
  <2>2. r # Fresh /\ r \notin Unused  BY <1>2, <2>1 DEF Unused
  <2> QED BY <2>2, <1>3
<1>7. AskedType'
  BY DEF RInv, TypeOK, AskedType, Asks, Question, NoQuestion
<1> QED BY <1>2, <1>4, <1>5, <1>6, <1>7

----------------------------------------------------------------------------
(* The shapes of steps.                                                     *)

LEMMA VersionsAreProjects ==
  ASSUME RInv
  PROVE  \A m \in Versions : m \in Projects /\ SoundProject(m, asked, frozen)
BY DEF RInv, TypeOK, Versions

\* A step that writes no new version.
LEMMA StepKeeps ==
  ASSUME RInv, TypeOK', KeepsQuestions, frozen \subseteq frozen',
         Versions' \subseteq Versions \cup {NewProject},
         NEW c \in Calls, Checked(c)',
         \A d \in Calls \ {c} : pc'[d] = pc[d] /\ seen'[d] = seen[d]
  PROVE  RInv'
<1>1. ASSUME NEW m \in Versions'  PROVE SoundProject(m, asked', frozen')
  <2>1. CASE m \in Versions
    <3>1. m \in Projects /\ SoundProject(m, asked, frozen)  BY <2>1, VersionsAreProjects
    <3> QED BY <2>1, <3>1, SoundKept DEF KeepsQuestions
  <2>2. CASE m = NewProject
    BY <2>2, ConstantsAssumption DEF NewProject, NoPipe, SoundProject, SoundPipe, DataKinds
  <2> QED BY <1>1, <2>1, <2>2
<1>2. ASSUME NEW d \in Calls, d # c  PROVE Checked(d)'
  <2>1. Checked(d) /\ pc'[d] = pc[d] /\ seen'[d] = seen[d]  BY <1>2 DEF RInv
  <2>2. seen[d] \in Versions /\ seen[d] \in Projects  BY VersionsAreProjects DEF Versions
  <2>3. pc[d] = "freezing" => asked'[seen[d].pipe.ask].kind = asked[seen[d].pipe.ask].kind
    <3> SUFFICES ASSUME pc[d] = "freezing"
                 PROVE  asked'[seen[d].pipe.ask].kind = asked[seen[d].pipe.ask].kind
      OBVIOUS
    <3>1. seen[d].pipe.ask \in Requests  BY <2>1, <2>2 DEF Checked, Projects, References
    <3> QED BY <2>2, <3>1 DEF KeepsQuestions, Uses
  <2> QED BY <2>1, <2>3 DEF Checked
<1> QED BY <1>1, <1>2 DEF RInv

\* A step that writes a version.
LEMMA WriteKeeps ==
  ASSUME RInv, NEW c \in Calls, NEW from, NEW m \in Projects, Writes(c, from, m),
         AskedType', KeepsQuestions, SoundProject(m, asked', frozen)
  PROVE  RInv'
<1>1. TypeOK'
  BY DEF RInv, TypeOK, AskedType, Writes, Goes, Places
<1>2. pc'[c] = "saving" /\ \A d \in Calls \ {c} : pc'[d] = pc[d] /\ seen'[d] = seen[d]
  BY DEF Writes, Goes, RInv, TypeOK
<1>3. ASSUME NEW n \in Versions'  PROVE SoundProject(n, asked', frozen')
  <2>1. n = m \/ n \in Versions  BY <1>2, <1>3 DEF Versions, Writes, RInv, TypeOK
  <2>2. frozen' = frozen  BY DEF Writes
  <2>3. CASE n \in Versions
    <3>1. n \in Projects /\ SoundProject(n, asked, frozen)  BY <2>3, VersionsAreProjects
    <3> QED BY <2>2, <2>3, <3>1, SoundKept DEF KeepsQuestions
  <2> QED BY <2>1, <2>2, <2>3
<1>4. ASSUME NEW d \in Calls  PROVE Checked(d)'
  <2>1. CASE d = c  BY <1>2, <2>1 DEF Checked
  <2>2. CASE d # c
    <3>1. Checked(d) /\ pc'[d] = pc[d] /\ seen'[d] = seen[d] /\ frozen' = frozen
      BY <1>2, <2>2 DEF RInv, Writes
    <3>2. seen[d] \in Versions /\ seen[d] \in Projects  BY VersionsAreProjects DEF Versions
    <3>3. pc[d] = "freezing" => asked'[seen[d].pipe.ask].kind = asked[seen[d].pipe.ask].kind
      <4> SUFFICES ASSUME pc[d] = "freezing"
                   PROVE  asked'[seen[d].pipe.ask].kind = asked[seen[d].pipe.ask].kind
        OBVIOUS
      <4>1. seen[d].pipe.ask \in Requests  BY <3>1, <3>2 DEF Checked, Projects, References
      <4> QED BY <3>2, <4>1 DEF KeepsQuestions, Uses
    <3> QED BY <3>1, <3>3 DEF Checked
  <2> QED BY <2>1, <2>2
<1> QED BY <1>1, <1>3, <1>4 DEF RInv

LEMMA NothingAskedKeeps == ASSUME RInv, asked' = asked PROVE AskedType' /\ KeepsQuestions
BY DEF RInv, TypeOK, AskedType, KeepsQuestions

----------------------------------------------------------------------------
(* Planning, the agents, the human's approvals.                             *)

LEMMA SeenIsSound ==
  ASSUME RInv, KeepsQuestions, NEW c \in Calls
  PROVE  seen[c] \in Projects /\ SoundProject(seen[c], asked', frozen)
<1>1. seen[c] \in Versions /\ seen[c] \in Projects /\ SoundProject(seen[c], asked, frozen)
  BY VersionsAreProjects DEF Versions
<1> QED BY <1>1, SoundKept DEF KeepsQuestions

LEMMA FinishPlanningKeeps ==
  ASSUME RInv, NEW c \in Calls, FinishPlanning(c)  PROVE RInv'
<1> DEFINE m == [NewProject EXCEPT !.stage = "WAITING_HUMAN", !.pending = Planning, !.approval = Planning]
<1>1. AskedType' /\ asked'[Planning].kind = "research_scope" /\ asked'[Planning].raw = asked[Planning].raw
      /\ \A r \in Requests : r # Planning => asked'[r] = asked[r]
  BY ConstantsAssumption DEF RInv, TypeOK, AskedType, FinishPlanning, Kinds, ReworkTarget
<1>2. KeepsQuestions
  <2> SUFFICES ASSUME NEW n \in Versions, Uses(n, Planning)
               PROVE  asked[Planning].kind = "research_scope"
    BY <1>1 DEF KeepsQuestions
  <2> QED BY VersionsAreProjects DEF Uses, SoundProject, SoundPipe
<1>3. m \in Projects /\ SoundProject(m, asked', frozen)
  BY <1>1, ConstantsAssumption DEF NewProject, NoPipe, Projects, SoundProject, SoundPipe, References,
     PipeStages, Stages, DataKinds, NoAgent, Kinds, ReworkTarget
<1> QED BY <1>1, <1>2, <1>3, WriteKeeps DEF FinishPlanning

LEMMA FinishRunKeeps ==
  ASSUME RInv, NEW c \in Calls, FinishRun(c)  PROVE RInv'
<1> DEFINE agent == NextAgent(seen[c])
           kind == Produces[agent]
           flagged(risk) == mem.flagged \/ risk
           package == seen[c].package \/ (agent = "data_analysis" /\ seen[c].stage # "REWORK")
           m(risk) == [mem EXCEPT !.stage = "WAITING_HUMAN",
                              !.pending = Fresh, !.approval = Fresh,
                              !.flagged = flagged(risk),
                              !.pipe = seen[c].pipe,
                              !.package = package]
<1>1. PICK risk \in BOOLEAN : Asks(kind, NoData) /\ Writes(c, "running", m(risk))
  BY Zenon DEF FinishRun
<1>2. seen[c] \in Projects /\ Runnable(seen[c]) /\ mem \in Projects
  BY <1>1 DEF Writes, Goes, RInv, TypeOK, Checked
<1>3. agent \in Agents
  BY <1>2 DEF NextAgent, Runnable, Route, Projects, Agents
<1>4. kind \in Kinds
  BY <1>3 DEF Produces, Kinds, ReworkTarget, Agents
<1>5. /\ Fresh \in Requests /\ Fresh # Planning /\ Fresh # NoRequest
      /\ asked'[Fresh].kind = kind /\ AskedType' /\ KeepsQuestions
  BY <1>1, <1>4, FreshIsNew
<1>6. SoundProject(seen[c], asked', frozen)  BY <1>5, SeenIsSound
<1>7. seen[c].pipe.ask = NoRequest /\ seen[c].pipe.stage # "WAITING_RAW_DATA"
  BY <1>2, <1>6 DEF Runnable, Route, SoundProject
<1>8. m(risk) \in Projects
  <2>1. flagged(risk) \in BOOLEAN /\ package \in BOOLEAN  OBVIOUS
  <2> HIDE DEF flagged, package
  <2> QED BY <1>2, <1>5, <2>1 DEF Projects, References, Stages
<1>9. SoundProject(m(risk), asked', frozen)
  <2> HIDE DEF flagged, package
  <2> QED BY <1>2, <1>4, <1>5, <1>6, <1>7 DEF SoundProject, Projects
<1> QED BY <1>1, <1>5, <1>8, <1>9, WriteKeeps

LEMMA BeginApprovalKeeps ==
  ASSUME RInv, NEW c \in Calls, BeginApproval(c)  PROVE RInv'
<1>1. TypeOK'  BY DEF RInv, TypeOK, BeginApproval, Goes, Places
<1>2. Checked(c)'  BY <1>1 DEF BeginApproval, Goes, Checked, RInv, TypeOK
<1>3. KeepsQuestions  BY NothingAskedKeeps DEF BeginApproval
<1>4. Versions' \subseteq Versions  BY DEF Versions, BeginApproval, RInv, TypeOK
<1> QED BY <1>1, <1>2, <1>3, <1>4, StepKeeps DEF BeginApproval, Goes, RInv, TypeOK

LEMMA RecordsKeep ==
  ASSUME RInv, NEW c \in Calls, NEW r \in Requests, NEW from, NEW to \in Places, Records(c, r, from, to),
         Checked(c)'
  PROVE  RInv'
<1>1. TypeOK'  BY DEF RInv, TypeOK, Records, Goes
<1>2. KeepsQuestions  BY DEF KeepsQuestions, Records, RInv, TypeOK
<1>3. Versions' \subseteq Versions  BY DEF Versions, Records
<1> QED BY <1>1, <1>2, <1>3, StepKeeps DEF Records, Goes, RInv, TypeOK

LEMMA RecordApprovalKeeps ==
  ASSUME RInv, NEW c \in Calls, RecordApproval(c)  PROVE RInv'
<1>1. Checked(c) /\ pc[c] = "deciding" /\ pc'[c] = "applying" /\ seen' = seen
  BY DEF RecordApproval, Records, Goes, RInv, TypeOK
<1>2. seen[c].approval \in Requests
  BY <1>1 DEF Checked, RInv, TypeOK, Projects, References
<1>3. Checked(c)'  BY <1>1 DEF Checked
<1> QED BY <1>2, <1>3, RecordsKeep DEF RecordApproval, Places

LEMMA ApplyApprovalKeeps ==
  ASSUME RInv, NEW c \in Calls, ApplyApproval(c)  PROVE RInv'
<1> DEFINE kind == asked[seen[c].approval].kind
           settled == [seen[c] EXCEPT !.pending = NoRequest, !.approval = NoRequest]
           back == [settled EXCEPT !.stage = "REWORK", !.target = ReworkTarget[kind]]
           on == [settled EXCEPT !.stage = ApprovedStage[kind], !.target = NoAgent,
                                 !.pipe = IF kind = "analysis_specification" THEN BegunPipe ELSE @]
<1>1. pc[c] = "applying" /\ asked' = asked
      /\ (Writes(c, "applying", back) \/ Writes(c, "applying", on))
  BY DEF ApplyApproval
<1>2. AskedType' /\ KeepsQuestions  BY <1>1, NothingAskedKeeps
<1>3. seen[c] \in Projects /\ SoundProject(seen[c], asked, frozen) /\ SoundProject(seen[c], asked', frozen)
  BY <1>1, <1>2, SeenIsSound
<1>4. seen[c].pending # NoRequest /\ seen[c].approval = seen[c].pending
  BY <1>1 DEF RInv, Checked
<1>5. seen[c].pipe.ask = NoRequest /\ seen[c].stage = "WAITING_HUMAN"
      /\ seen[c].pipe.stage # "WAITING_RAW_DATA" /\ kind \in Kinds
  BY <1>3, <1>4 DEF SoundProject
<1>6. back \in Projects /\ SoundProject(back, asked', frozen)
  <2>1. ReworkTarget[kind] \in Agents  BY <1>5 DEF ReworkTarget, Kinds, Agents
  <2>2. back \in Projects  BY <1>3, <2>1 DEF Projects, References, Stages
  <2> QED BY <1>3, <1>5, <2>2, ConstantsAssumption DEF Projects, SoundProject
<1>7. ApprovedStage[kind] \in Stages \ {"WAITING_HUMAN"}
      /\ (kind = "analysis_specification" => ApprovedStage[kind] = "DATA_READY")
  BY <1>5 DEF ApprovedStage, Stages, Kinds, ReworkTarget, Route
<1>8. BegunPipe.ask = NoRequest /\ SoundPipe(BegunPipe, asked', frozen)
      /\ BegunPipe \in [stage : PipeStages, ask : References, raw : Datasets \cup {NoData},
                        by : [DataKinds -> References]]
  BY ConstantsAssumption DEF BegunPipe, NoPipe, SoundPipe, DataKinds, PipeStages, References
<1>9. on \in Projects
  BY ZenonT(40), <1>3, <1>7, <1>8 DEF Projects, References
<1>10. SoundProject(on, asked', frozen)
  BY <1>3, <1>5, <1>7, <1>8, ConstantsAssumption DEF Projects, SoundProject
<1> QED BY <1>1, <1>2, <1>6, <1>9, <1>10, WriteKeeps

LEMMA ReadsKeep ==
  ASSUME RInv, NEW c \in Calls, NEW to \in Places, Reads(c, to), Checked(c)'
  PROVE  RInv'
<1>1. TypeOK'  BY DEF RInv, TypeOK, Reads, Goes
<1>2. KeepsQuestions  BY NothingAskedKeeps DEF Reads
<1>3. Versions' \subseteq Versions  BY DEF Versions, Reads, RInv, TypeOK
<1> QED BY <1>1, <1>2, <1>3, StepKeeps DEF Reads, Goes, RInv, TypeOK

LEMMA EndsKeep ==
  ASSUME RInv, NEW c \in Calls, NEW from, Ends(c, from), UNCHANGED <<mem, asked, frozen>>,
         stored' \in {stored, seen[c]}
  PROVE  RInv'
<1>1. TypeOK'
  BY NewProjectIsSound DEF RInv, TypeOK, Ends, Goes, Places, Verdicts
<1>2. KeepsQuestions  BY NothingAskedKeeps
<1>3. Versions' \subseteq Versions \cup {NewProject}
  BY DEF Versions, Ends, RInv, TypeOK
<1>4. Checked(c)'  BY DEF Checked, Ends, Goes, RInv, TypeOK
<1> QED BY <1>1, <1>2, <1>3, <1>4, StepKeeps DEF Ends, Goes, RInv, TypeOK

LEMMA PlainReadsKeep ==
  ASSUME RInv, NEW c \in Calls,
         \/ BeginRun(c) \/ ReadForPipeline(c) \/ ReadForPreparation(c) \/ ReadForRawData(c)
         \/ ReadForReview(c) \/ ReadForFinding(c) \/ ReadForTask(c)
  PROVE  RInv'
<1>1. CASE BeginRun(c)
  <2>1. Checked(c)'  BY <1>1 DEF BeginRun, Reads, Goes, Checked, RInv, TypeOK
  <2> QED BY <1>1, <2>1, ReadsKeep DEF BeginRun, Places
<1>2. CASE ReadForPipeline(c)
  <2>1. Checked(c)'  BY <1>2 DEF ReadForPipeline, Reads, Goes, Checked, RInv, TypeOK
  <2> QED BY <1>2, <2>1, ReadsKeep DEF ReadForPipeline, Places
<1>3. CASE ReadForPreparation(c)
  <2>1. Checked(c)'  BY <1>3 DEF ReadForPreparation, Reads, Goes, Checked, RInv, TypeOK
  <2> QED BY <1>3, <2>1, ReadsKeep DEF ReadForPreparation, Places
<1>4. CASE ReadForRawData(c)
  <2>1. Checked(c)'  BY <1>4 DEF ReadForRawData, Reads, Goes, Checked, RInv, TypeOK
  <2> QED BY <1>4, <2>1, ReadsKeep DEF ReadForRawData, Places
<1>5. CASE ReadForReview(c)
  <2>1. Checked(c)'  BY <1>5 DEF ReadForReview, Reads, Goes, Checked, RInv, TypeOK
  <2> QED BY <1>5, <2>1, ReadsKeep DEF ReadForReview, Places
<1>6. CASE ReadForFinding(c)
  <2>1. Checked(c)'  BY <1>6 DEF ReadForFinding, Reads, Goes, Checked, RInv, TypeOK
  <2> QED BY <1>6, <2>1, ReadsKeep DEF ReadForFinding, Places
<1>7. CASE ReadForTask(c)
  <2>1. Checked(c)'  BY <1>7 DEF ReadForTask, Reads, Goes, Checked, RInv, TypeOK
  <2> QED BY <1>7, <2>1, ReadsKeep DEF ReadForTask, Places
<1> QED BY <1>1, <1>2, <1>3, <1>4, <1>5, <1>6, <1>7

LEMMA EndingsKeep ==
  ASSUME RInv, NEW c \in Calls,
         Save(c) \/ RequestFails(c) \/ PackageMissing(c) \/ FrozenFileIsReadOnly(c)
  PROVE  RInv'
BY EndsKeep DEF Save, RequestFails, PackageMissing, FrozenFileIsReadOnly, Fails

LEMMA BeginPlanningKeeps ==
  ASSUME RInv, NEW c \in Calls, BeginPlanning(c)  PROVE RInv'
<1>1. TypeOK'  BY DEF RInv, TypeOK, BeginPlanning, Goes, Places
<1>2. Checked(c)'  BY DEF BeginPlanning, Goes, Checked, RInv, TypeOK
<1>3. KeepsQuestions  BY NothingAskedKeeps DEF BeginPlanning
<1>4. Versions' \subseteq Versions  BY DEF Versions, BeginPlanning
<1> QED BY <1>1, <1>2, <1>3, <1>4, StepKeeps DEF BeginPlanning, Goes, RInv, TypeOK

LEMMA LookUpApprovalKeeps ==
  ASSUME RInv, NEW c \in Calls, LookUpApproval(c)  PROVE RInv'
<1>1. TypeOK'  BY DEF RInv, TypeOK, LookUpApproval
<1>2. Checked(c)'  BY DEF LookUpApproval, Checked, RInv
<1>3. KeepsQuestions  BY NothingAskedKeeps DEF LookUpApproval
<1>4. Versions' \subseteq Versions  BY DEF Versions, LookUpApproval
<1> QED BY <1>1, <1>2, <1>3, <1>4, StepKeeps DEF LookUpApproval

LEMMA CrashKeeps ==
  ASSUME RInv, Crash  PROVE RInv'
<1>1. TypeOK'  BY NewProjectIsSound DEF RInv, TypeOK, Crash, Places, Verdicts
<1>2. Versions' \subseteq Versions \cup {NewProject}  BY DEF Versions, Crash
<1>3. \A m \in Versions' : SoundProject(m, asked', frozen')
  BY <1>2, VersionsAreProjects, NewProjectIsSound DEF Crash
<1>4. \A c \in Calls : Checked(c)'  BY DEF Checked, Crash
<1> QED BY <1>1, <1>3, <1>4 DEF RInv

----------------------------------------------------------------------------
(* The data pipeline.                                                       *)

Pipes == [stage : PipeStages, ask : References, raw : Datasets \cup {NoData},
          by : [DataKinds -> References]]

\* What a request does not touch keeps its soundness.
LEMMA KeepingIsSound ==
  ASSUME RInv, NEW m \in Projects, NEW q, NEW f, SoundProject(m, q, f)
  PROVE  Keeping(m) \in Projects /\ SoundProject(Keeping(m), q, f)
BY DEF Keeping, SoundProject, Projects, RInv, TypeOK

\* A version with a sound pipeline put in, its stage chosen accordingly.
LEMMA PipedIsSound ==
  ASSUME NEW m \in Projects, NEW q, NEW f, NEW p \in Pipes, SoundPipe(p, q, f), NEW s \in Stages,
         m.pending = NoRequest, s = "WAITING_HUMAN" <=> p.ask # NoRequest,
         p.stage = "WAITING_RAW_DATA" => s = "DATA_READY"
  PROVE  LET n == [m EXCEPT !.stage = s, !.pipe = p]
         IN  n \in Projects /\ SoundProject(n, q, f)
BY ConstantsAssumption DEF Projects, Pipes, SoundProject

LEMMA BegunPipeIsSound ==
  ASSUME NEW q, NEW f
  PROVE  BegunPipe \in Pipes /\ SoundPipe(BegunPipe, q, f) /\ BegunPipe.ask = NoRequest
         /\ NoPipe \in Pipes
BY ConstantsAssumption DEF BegunPipe, NoPipe, SoundPipe, DataKinds, PipeStages, References, Pipes

LEMMA PipedKeeps ==
  ASSUME RInv, NEW c \in Calls, NEW from, AskedType', KeepsQuestions,
         seen[c].pending = NoRequest,
         NEW p \in Pipes, SoundPipe(p, asked', frozen), NEW s \in Stages,
         s = "WAITING_HUMAN" <=> p.ask # NoRequest,
         p.stage = "WAITING_RAW_DATA" => s = "DATA_READY",
         Writes(c, from, Keeping([seen[c] EXCEPT !.stage = s, !.pipe = p]))
  PROVE  RInv'
<1>1. seen[c] \in Projects  BY DEF RInv, TypeOK
<1> DEFINE n == [seen[c] EXCEPT !.stage = s, !.pipe = p]
<1>2. n \in Projects /\ SoundProject(n, asked', frozen)
  BY <1>1, PipedIsSound
<1>3. Keeping(n) \in Projects /\ SoundProject(Keeping(n), asked', frozen)
  BY <1>2, KeepingIsSound
<1> QED BY <1>3, WriteKeeps

LEMMA BeginPipelineKeeps ==
  ASSUME RInv, NEW c \in Calls, BeginPipeline(c)  PROVE RInv'
<1>1. AskedType' /\ KeepsQuestions  BY NothingAskedKeeps DEF BeginPipeline
<1>2. seen[c].stage \in {"STUDY_PROTOCOL_APPROVED", "DATA_READY"}
  BY DEF BeginPipeline, Writes, Goes, RInv, Checked
<1>3. seen[c].pending = NoRequest
  BY <1>1, <1>2, SeenIsSound DEF SoundProject
<1>4. "DATA_READY" \in Stages  BY DEF Stages
<1> QED BY <1>1, <1>3, <1>4, BegunPipeIsSound, PipedKeeps DEF BeginPipeline

LEMMA PreparePipelineKeeps ==
  ASSUME RInv, NEW c \in Calls, PreparePipeline(c)  PROVE RInv'
<1> DEFINE p == Asking(NoPipe)
<1>1. Asks("analysis_preparation", NoData) /\ seen[c].stage = "STUDY_PROTOCOL_APPROVED"
  BY DEF PreparePipeline, Writes, Goes, RInv, Checked
<1>2. /\ Fresh \in Requests /\ Fresh # Planning /\ Fresh # NoRequest
      /\ asked'[Fresh].kind = "analysis_preparation"
      /\ AskedType' /\ KeepsQuestions
  BY <1>1, FreshIsNew DEF PipelineKinds
<1>3. seen[c].pending = NoRequest
  BY <1>1, <1>2, SeenIsSound DEF SoundProject
<1>4. p \in Pipes /\ SoundPipe(p, asked', frozen) /\ p.ask # NoRequest /\ p.stage = "WAITING_APPROVAL"
  BY <1>2, ConstantsAssumption DEF Asking, NoPipe, Pipes, PipeStages, References, SoundPipe, DataKinds, PipelineKinds
<1>5. "WAITING_HUMAN" \in Stages  BY DEF Stages
<1> HIDE DEF p
<1>6. Writes(c, "preparing", Keeping([seen[c] EXCEPT !.stage = "WAITING_HUMAN", !.pipe = p]))
  BY DEF PreparePipeline, p
<1> QED BY <1>2, <1>3, <1>4, <1>5, <1>6, PipedKeeps

LEMMA RegisterRawDataKeeps ==
  ASSUME RInv, NEW c \in Calls, RegisterRawData(c)  PROVE RInv'
<1>1. PICK d \in Datasets :
        LET pipe == [seen[c].pipe EXCEPT !.raw = d]
        IN  \/ /\ Asks("data_processing", d)
               /\ Writes(c, "auditing", Keeping([seen[c] EXCEPT !.stage = "WAITING_HUMAN",
                                                                !.pipe = Asking(pipe)]))
            \/ /\ UNCHANGED asked
               /\ Writes(c, "auditing",
                         Keeping([seen[c] EXCEPT !.stage = "REWORK",
                                                 !.pipe = [pipe EXCEPT !.stage = "REWORK"]]))
  BY DEF RegisterRawData
<1> DEFINE pipe == [seen[c].pipe EXCEPT !.raw = d]
           p == Asking(pipe)
           b == [pipe EXCEPT !.stage = "REWORK"]
<1>2. seen[c].pipe.stage = "WAITING_RAW_DATA" /\ seen[c].pipe \in Pipes
      /\ SoundProject(seen[c], asked, frozen)
  BY <1>1, VersionsAreProjects DEF Writes, Goes, RInv, Checked, AcceptsRawData, Versions, Projects, Pipes
<1>3. seen[c].stage = "DATA_READY" /\ seen[c].pending = NoRequest /\ seen[c].pipe.ask = NoRequest
      /\ \A k \in DataKinds : seen[c].pipe.by[k] = NoRequest
  BY <1>2 DEF SoundProject, SoundPipe
<1>4. CASE Asks("data_processing", d)
           /\ Writes(c, "auditing", Keeping([seen[c] EXCEPT !.stage = "WAITING_HUMAN", !.pipe = Asking(pipe)]))
  <2>1. /\ Fresh \in Requests /\ Fresh # Planning /\ Fresh # NoRequest
        /\ asked'[Fresh].kind = "data_processing" /\ asked'[Fresh].raw = d
        /\ AskedType' /\ KeepsQuestions
    BY <1>4, FreshIsNew DEF PipelineKinds, DataKinds
  <2>2. p \in Pipes /\ p.ask = Fresh /\ p.stage = "WAITING_APPROVAL" /\ p.raw = d
        /\ \A k \in DataKinds : p.by[k] = NoRequest
    BY <1>2, <1>3, <2>1 DEF Asking, Pipes, PipeStages, References
  <2>3. SoundPipe(p, asked', frozen)
    BY <2>1, <2>2, ConstantsAssumption DEF SoundPipe, DataKinds, PipelineKinds
  <2>4. "WAITING_HUMAN" \in Stages  BY DEF Stages
  <2> HIDE DEF p
  <2>5. Writes(c, "auditing", Keeping([seen[c] EXCEPT !.stage = "WAITING_HUMAN", !.pipe = p]))
    BY <1>4 DEF p
  <2> QED BY <1>3, <2>1, <2>2, <2>3, <2>4, <2>5, PipedKeeps
<1>5. CASE asked' = asked /\ Writes(c, "auditing", Keeping([seen[c] EXCEPT !.stage = "REWORK", !.pipe = b]))
  <2>1. AskedType' /\ KeepsQuestions  BY <1>5, NothingAskedKeeps
  <2>2. b \in Pipes /\ b.ask = NoRequest /\ b.stage = "REWORK"
        /\ \A k \in DataKinds : b.by[k] = NoRequest
    BY <1>2, <1>3 DEF Pipes, PipeStages
  <2>3. SoundPipe(b, asked', frozen)
    BY <2>2, ConstantsAssumption DEF SoundPipe, DataKinds
  <2>4. "REWORK" \in Stages  BY DEF Stages
  <2> HIDE DEF b
  <2> QED BY <1>3, <1>5, <2>1, <2>2, <2>3, <2>4, PipedKeeps
<1> QED BY <1>1, <1>4, <1>5

LEMMA BeginDecisionKeeps ==
  ASSUME RInv, NEW c \in Calls, BeginDecision(c)  PROVE RInv'
<1>1. TypeOK'  BY DEF RInv, TypeOK, BeginDecision, Goes, Places
<1>2. Checked(c)'  BY <1>1 DEF BeginDecision, Goes, Checked, RInv, TypeOK
<1>3. KeepsQuestions  BY NothingAskedKeeps DEF BeginDecision
<1>4. Versions' \subseteq Versions  BY DEF Versions, BeginDecision, RInv, TypeOK
<1> QED BY <1>1, <1>2, <1>3, <1>4, StepKeeps DEF BeginDecision, Goes, RInv, TypeOK

LEMMA RecordDecisionKeeps ==
  ASSUME RInv, NEW c \in Calls, RecordDecision(c)  PROVE RInv'
<1>1. Checked(c) /\ pc[c] = "judging" /\ pc'[c] = "operating" /\ seen' = seen
  BY DEF RecordDecision, Records, Goes, RInv, TypeOK
<1>2. seen[c].pipe.ask \in Requests
  BY <1>1 DEF Checked, RInv, TypeOK, Projects, References
<1>3. Checked(c)'  BY <1>1 DEF Checked
<1> QED BY <1>2, <1>3, RecordsKeep DEF RecordDecision, Places

LEMMA WriteFrozenFileKeeps ==
  ASSUME RInv, NEW c \in Calls, WriteFrozenFile(c)  PROVE RInv'
<1>1. seen[c] \in Projects /\ SoundProject(seen[c], asked, frozen) /\ seen[c].pipe.ask # NoRequest
  BY VersionsAreProjects DEF WriteFrozenFile, RInv, Checked, Versions
<1>2. asked[seen[c].pipe.ask].kind = "data_freeze"
  BY DEF WriteFrozenFile, Operation
<1>3. seen[c].pipe.raw \in Datasets
  BY <1>1, <1>2 DEF SoundProject, SoundPipe, DataKinds, Projects
<1>4. TypeOK'  BY <1>3 DEF RInv, TypeOK, WriteFrozenFile, Goes, Places
<1>5. KeepsQuestions  BY NothingAskedKeeps DEF WriteFrozenFile
<1>6. Versions' \subseteq Versions  BY DEF Versions, WriteFrozenFile
<1>7. pc'[c] = "freezing" /\ seen' = seen /\ asked' = asked /\ frozen' = frozen \cup {seen[c].pipe.raw}
  BY DEF WriteFrozenFile, Goes, RInv, TypeOK
<1>8. Checked(c)'  BY <1>1, <1>2, <1>7 DEF Checked
<1> QED BY <1>4, <1>5, <1>6, <1>7, <1>8, StepKeeps DEF WriteFrozenFile, Goes, RInv, TypeOK

\* A decision has been taken on a pipeline's own question.
Deciding(c) ==
  /\ pc[c] \in {"operating", "freezing"}
  /\ verdict[c] = "approved" /\ Operation(c) = "data_freeze" => pc[c] = "freezing"

LEMMA AnsweredIsSound ==
  ASSUME RInv, NEW c \in Calls, Deciding(c), AskedType', KeepsQuestions
  PROVE  /\ seen[c].pending = NoRequest
         /\ Answered(c) \in Pipes /\ SoundPipe(Answered(c), asked', frozen)
         /\ Answered(c).ask = NoRequest /\ Answered(c).stage # "WAITING_RAW_DATA"
         /\ Answered(c).raw = seen[c].pipe.raw
         /\ Operation(c) = "analysis_preparation" =>
              Answered(c).raw = NoData /\ \A k \in DataKinds : Answered(c).by[k] = NoRequest
         /\ Operation(c) \in DataKinds => Answered(c).raw # NoData
         /\ Operation(c) \in {"data_freeze", "analysis_execution"} =>
              Answered(c).by["data_processing"] # NoRequest
         /\ Operation(c) = "analysis_execution" => Answered(c).by["data_freeze"] # NoRequest
         /\ verdict[c] = "approved" /\ Operation(c) \in DataKinds =>
              Answered(c).by[Operation(c)] # NoRequest
<1> DEFINE p == seen[c].pipe
           a == Answered(c)
           op == Operation(c)
<1>1. seen[c] \in Projects /\ SoundProject(seen[c], asked, frozen) /\ seen[c] \in Versions
  BY VersionsAreProjects DEF Versions
<1>2. p \in Pipes /\ SoundPipe(p, asked, frozen) /\ p.ask \in Requests /\ p.ask # Planning
      /\ p.ask # NoRequest
  BY <1>1 DEF RInv, Checked, Deciding, SoundProject, SoundPipe, Projects, Pipes, References
<1>3. seen[c].pending = NoRequest /\ p.stage # "WAITING_RAW_DATA"
  BY <1>1, <1>2 DEF SoundProject
<1>4. SoundPipe(p, asked', frozen)
  BY <1>1, SeenIsSound DEF SoundProject
<1>5. op = asked[p.ask].kind /\ asked'[p.ask].kind = op /\ asked'[p.ask].raw = asked[p.ask].raw
  BY <1>1, <1>2 DEF Operation, KeepsQuestions, Uses
<1> DEFINE used == IF verdict[c] = "approved" /\ op \in DataKinds
                   THEN [p.by EXCEPT ![op] = p.ask] ELSE p.by
<1>6. used \in [DataKinds -> References]
      /\ \A k \in DataKinds : used[k] = IF verdict[c] = "approved" /\ k = op THEN p.ask ELSE p.by[k]
  <2>1. p.by \in [DataKinds -> References] /\ p.ask \in References
    BY <1>2 DEF Pipes, References
  <2> HIDE DEF op, p
  <2> QED BY <2>1
<1>7. a \in Pipes /\ a.ask = NoRequest /\ a.stage = p.stage /\ a.raw = p.raw
      /\ \A k \in DataKinds : a.by[k] = IF verdict[c] = "approved" /\ k = op THEN p.ask ELSE p.by[k]
  <2>1. a = [p EXCEPT !.ask = NoRequest, !.by = used]
    BY <1>2 DEF Answered, Pipes
  <2> HIDE DEF a, used, op, p
  <2> QED BY <1>2, <1>6, <2>1 DEF Pipes, References
<1> HIDE DEF a, op
<1>8. verdict[c] = "approved" /\ op = "data_freeze" => p.raw \in frozen
  BY DEF Deciding, RInv, Checked, op
<1>9. op \in DataKinds => asked'[p.ask].raw = p.raw /\ p.raw # NoData
  BY <1>2, <1>4, <1>5 DEF SoundPipe
<1>10. SoundPipe(a, asked', frozen)
  <2>1. a.ask # Planning  BY <1>7, ConstantsAssumption
  <2>2. \A k \in DataKinds : a.by[k] # Planning  BY <1>2, <1>4, <1>7 DEF SoundPipe
  <2>3. a.stage = "ANALYZED" => \A k \in DataKinds : a.by[k] # NoRequest
    BY <1>2, <1>4, <1>7 DEF SoundPipe
  <2>4. \A k \in DataKinds : a.by[k] # NoRequest => asked'[a.by[k]].kind = k /\ asked'[a.by[k]].raw = a.raw
    BY <1>4, <1>5, <1>7, <1>9 DEF SoundPipe
  <2>5. a.by["data_freeze"] # NoRequest => a.raw \in frozen
    BY <1>4, <1>7, <1>8 DEF SoundPipe, DataKinds
  <2> QED BY <1>3, <1>7, <2>1, <2>2, <2>3, <2>4, <2>5 DEF SoundPipe
<1>11. op = "analysis_preparation" => a.raw = NoData /\ \A k \in DataKinds : a.by[k] = NoRequest
  BY <1>2, <1>4, <1>5, <1>7 DEF SoundPipe, DataKinds
<1>12. op \in {"data_freeze", "analysis_execution"} => a.by["data_processing"] # NoRequest
  BY <1>2, <1>4, <1>5, <1>7 DEF SoundPipe, DataKinds
<1>13. op = "analysis_execution" => a.by["data_freeze"] # NoRequest
  BY <1>2, <1>4, <1>5, <1>7 DEF SoundPipe, DataKinds
<1>14. verdict[c] = "approved" /\ op \in DataKinds => a.by[op] # NoRequest
  BY <1>2, <1>7
<1> QED BY <1>3, <1>7, <1>9, <1>10, <1>11, <1>12, <1>13, <1>14 DEF a, op

LEMMA AsksNextKeeps ==
  ASSUME RInv, NEW c \in Calls, NEW from, Deciding(c), verdict[c] = "approved",
         NEW kind \in {"data_freeze", "analysis_execution"}, AsksNext(c, from, kind),
         Operation(c) = IF kind = "data_freeze" THEN "data_processing" ELSE "data_freeze"
  PROVE  RInv'
<1> DEFINE p == Asking(Answered(c))
<1>1. seen[c].pipe.raw \in Datasets \cup {NoData} /\ kind \in PipelineKinds
  BY DEF RInv, TypeOK, Projects, PipelineKinds, DataKinds
<1>2. /\ Fresh \in Requests /\ Fresh # Planning /\ Fresh # NoRequest
      /\ asked'[Fresh].kind = kind /\ asked'[Fresh].raw = seen[c].pipe.raw
      /\ AskedType' /\ KeepsQuestions
  BY <1>1, FreshIsNew DEF AsksNext
<1>3. /\ seen[c].pending = NoRequest
      /\ Answered(c) \in Pipes /\ SoundPipe(Answered(c), asked', frozen)
      /\ Answered(c).raw = seen[c].pipe.raw /\ Answered(c).raw # NoData
      /\ Answered(c).by["data_processing"] # NoRequest
      /\ kind = "analysis_execution" => Answered(c).by["data_freeze"] # NoRequest
  BY <1>2, AnsweredIsSound DEF DataKinds
<1>4. p \in Pipes /\ p.ask = Fresh /\ p.stage = "WAITING_APPROVAL" /\ p.raw = Answered(c).raw
      /\ p.by = Answered(c).by
  BY <1>2, <1>3 DEF Asking, Pipes, PipeStages, References
<1>5. SoundPipe(p, asked', frozen)
  BY <1>2, <1>3, <1>4 DEF SoundPipe, DataKinds, PipelineKinds
<1>6. "WAITING_HUMAN" \in Stages  BY DEF Stages
<1> HIDE DEF p
<1>7. Writes(c, from, Keeping([seen[c] EXCEPT !.stage = "WAITING_HUMAN", !.pipe = p]))
  BY DEF AsksNext, p
<1> QED BY <1>2, <1>3, <1>4, <1>5, <1>6, <1>7, PipedKeeps

LEMMA SettlesKeeps ==
  ASSUME RInv, NEW c \in Calls, NEW from, Deciding(c),
         NEW stage \in Stages \ {"WAITING_HUMAN"}, NEW pipestage \in PipeStages,
         pipestage = "WAITING_RAW_DATA" =>
             stage = "DATA_READY" /\ Operation(c) = "analysis_preparation",
         pipestage = "ANALYZED" => verdict[c] = "approved" /\ Operation(c) = "analysis_execution",
         Settles(c, from, stage, pipestage)
  PROVE  RInv'
<1> DEFINE p == [Answered(c) EXCEPT !.stage = pipestage]
<1>1. AskedType' /\ KeepsQuestions  BY NothingAskedKeeps DEF Settles
<1>2. /\ seen[c].pending = NoRequest
      /\ Answered(c) \in Pipes /\ SoundPipe(Answered(c), asked', frozen)
      /\ Answered(c).ask = NoRequest
      /\ pipestage = "WAITING_RAW_DATA" =>
           Answered(c).raw = NoData /\ \A k \in DataKinds : Answered(c).by[k] = NoRequest
      /\ pipestage = "ANALYZED" => \A k \in DataKinds : Answered(c).by[k] # NoRequest
  BY <1>1, AnsweredIsSound DEF DataKinds
<1>3. p \in Pipes /\ p.ask = NoRequest /\ p.stage = pipestage /\ p.raw = Answered(c).raw
      /\ p.by = Answered(c).by
  BY <1>2 DEF Pipes
<1>4. SoundPipe(p, asked', frozen)
  BY <1>2, <1>3 DEF SoundPipe
<1> HIDE DEF p
<1>5. Writes(c, from, Keeping([seen[c] EXCEPT !.stage = stage, !.pipe = p]))
  BY DEF Settles, p
<1> QED BY <1>1, <1>2, <1>3, <1>4, <1>5, PipedKeeps

LEMMA RejectDataKeeps ==
  ASSUME RInv, NEW c \in Calls, RejectData(c)  PROVE RInv'
<1>1. Deciding(c)  BY DEF RejectData, Deciding
<1>2. "REWORK" \in Stages \ {"WAITING_HUMAN"} /\ "REWORK" \in PipeStages  BY DEF Stages, PipeStages
<1> QED BY <1>1, <1>2, SettlesKeeps DEF RejectData

LEMMA AcceptDataKeeps ==
  ASSUME RInv, NEW c \in Calls, AcceptData(c)  PROVE RInv'
<1>1. Deciding(c) /\ verdict[c] = "approved"
  <2>1. Operation(c) = "data_freeze" => pc[c] = "freezing"
    BY DEF AcceptData, ConfirmPreparation, ProcessData, FreezeData, ExecutePlan,
       AsksNext, Settles, Writes, Goes
  <2> QED BY <2>1 DEF AcceptData, Deciding
<1>2. {"REWORK", "DATA_READY", "ANALYZED", "BLOCKED"} \subseteq Stages \ {"WAITING_HUMAN"}
      /\ {"REWORK", "WAITING_RAW_DATA", "ANALYZED", "BLOCKED"} \subseteq PipeStages
  BY DEF Stages, Route, PipeStages
<1>3. CASE ConfirmPreparation(c)
  BY <1>1, <1>2, <1>3, SettlesKeeps DEF ConfirmPreparation
<1>4. CASE ProcessData(c)
  BY <1>1, <1>4, AsksNextKeeps DEF ProcessData
<1>5. CASE FreezeData(c)
  <2>1. CASE AsksNext(c, "freezing", "analysis_execution")
    BY <1>1, <1>5, <2>1, AsksNextKeeps DEF FreezeData
  <2>2. CASE Settles(c, "freezing", "REWORK", "REWORK")
    BY <1>1, <1>2, <2>2, SettlesKeeps
  <2> QED BY <1>5, <2>1, <2>2 DEF FreezeData
<1>6. CASE ExecutePlan(c)
  <2>1. CASE Settles(c, "operating", "ANALYZED", "ANALYZED")
    BY <1>1, <1>2, <1>6, <2>1, SettlesKeeps DEF ExecutePlan
  <2>2. CASE Settles(c, "operating", "BLOCKED", "BLOCKED")
    BY <1>1, <1>2, <2>2, SettlesKeeps
  <2> QED BY <1>6, <2>1, <2>2 DEF ExecutePlan
<1> QED BY <1>3, <1>4, <1>5, <1>6 DEF AcceptData

----------------------------------------------------------------------------
(* Reviews, findings, and the tasks of plans.                               *)

LEMMA FinishReviewKeeps ==
  ASSUME RInv, NEW c \in Calls, FinishReview(c)  PROVE RInv'
<1> DEFINE m == [seen[c] EXCEPT !.stage = "WAITING_HUMAN", !.pending = Fresh, !.approval = Fresh]
           n == [seen[c] EXCEPT !.stage = "REWORK", !.pending = NoRequest,
                                !.target = "paper_writing", !.findings = TRUE]
<1>1. seen[c].stage = "DRAFTED" /\ seen[c] \in Projects
  BY DEF FinishReview, Writes, Goes, RInv, TypeOK, Checked
<1>2. CASE Asks("review_report", NoData) /\ Writes(c, "reviewing", m)
  <2>1. /\ Fresh \in Requests /\ Fresh # Planning /\ Fresh # NoRequest
        /\ asked'[Fresh].kind = "review_report"
        /\ AskedType' /\ KeepsQuestions
    BY <1>2, FreshIsNew DEF Kinds, ReworkTarget
  <2>2. SoundProject(seen[c], asked', frozen)  BY <2>1, SeenIsSound
  <2>3. m \in Projects  BY <1>1, <2>1 DEF Projects, References, Stages
  <2>4. seen[c].pipe.ask = NoRequest /\ seen[c].pipe.stage # "WAITING_RAW_DATA"
    BY <1>1, <2>2 DEF SoundProject
  <2>5. "review_report" \in Kinds  BY DEF Kinds, ReworkTarget
  <2>6. SoundProject(m, asked', frozen)
    BY <1>1, <2>1, <2>2, <2>4, <2>5 DEF SoundProject, Projects
  <2> QED BY <1>2, <2>1, <2>3, <2>6, WriteKeeps
<1>3. CASE asked' = asked /\ Writes(c, "reviewing", Keeping(n))
  <2>1. AskedType' /\ KeepsQuestions  BY <1>3, NothingAskedKeeps
  <2>2. SoundProject(seen[c], asked', frozen)  BY <2>1, SeenIsSound
  <2>3. seen[c].pipe.ask = NoRequest /\ seen[c].pipe.stage # "WAITING_RAW_DATA"
    BY <1>1, <2>2 DEF SoundProject
  <2>4. n \in Projects  BY <1>1 DEF Projects, References, Stages, Agents
  <2>5. SoundProject(n, asked', frozen)
    BY <1>1, <2>2, <2>3, ConstantsAssumption DEF SoundProject, Projects
  <2>6. Keeping(n) \in Projects /\ SoundProject(Keeping(n), asked', frozen)
    BY <2>4, <2>5, KeepingIsSound
  <2> QED BY <1>3, <2>1, <2>6, WriteKeeps
<1> QED BY <1>2, <1>3 DEF FinishReview

LEMMA RouteFindingKeeps ==
  ASSUME RInv, NEW c \in Calls, RouteFinding(c)  PROVE RInv'
<1> DEFINE m == [seen[c] EXCEPT !.stage = "BLOCKED", !.target = NoAgent]
           n(t) == [seen[c] EXCEPT !.target = t, !.findings = TRUE]
<1>1. AskedType' /\ KeepsQuestions  BY NothingAskedKeeps DEF RouteFinding
<1>2. seen[c] \in Projects /\ SoundProject(seen[c], asked', frozen)  BY <1>1, SeenIsSound
<1>3. CASE Writes(c, "routing", Keeping(m))
  <2>1. seen[c].stage = "REWORK"  BY <1>3 DEF Writes, Goes, RInv, Checked
  <2>2. m \in Projects  BY <1>2 DEF Projects, Stages
  <2>3. SoundProject(m, asked', frozen)  BY <1>2, <2>1 DEF SoundProject, Projects
  <2> QED BY <1>1, <1>3, <2>2, <2>3, KeepingIsSound, WriteKeeps
<1>4. CASE \E t \in FindingTargets : Writes(c, "routing", Keeping(n(t)))
  <2>1. PICK t \in FindingTargets : Writes(c, "routing", Keeping(n(t)))  BY <1>4
  <2>2. n(t) \in Projects  BY <1>2 DEF Projects, FindingTargets
  <2>3. SoundProject(n(t), asked', frozen)  BY <1>2 DEF SoundProject, Projects
  <2> QED BY <1>1, <2>1, <2>2, <2>3, KeepingIsSound, WriteKeeps
<1> QED BY <1>3, <1>4 DEF RouteFinding

LEMMA FinishTaskKeeps ==
  ASSUME RInv, NEW c \in Calls, FinishTask(c)  PROVE RInv'
<1> DEFINE m(risk) == [seen[c] EXCEPT !.target = mem.target, !.findings = mem.findings,
                                      !.flagged = mem.flagged \/ risk]
<1>1. AskedType' /\ KeepsQuestions  BY NothingAskedKeeps DEF FinishTask
<1>2. seen[c] \in Projects /\ SoundProject(seen[c], asked', frozen) /\ mem \in Projects
  BY <1>1, SeenIsSound DEF RInv, TypeOK
<1>3. PICK risk \in BOOLEAN : Writes(c, "tasking", Keeping(m(risk)))  BY DEF FinishTask
<1>4. m(risk) \in Projects  BY <1>2 DEF Projects
<1>5. SoundProject(m(risk), asked', frozen)  BY <1>2 DEF SoundProject, Projects
<1> QED BY <1>1, <1>3, <1>4, <1>5, KeepingIsSound, WriteKeeps

----------------------------------------------------------------------------
LEMMA InitIsSound == Init => RInv
<1> SUFFICES ASSUME Init  PROVE RInv
  OBVIOUS
<1>1. TypeOK
  BY NewProjectIsSound, ConstantsAssumption DEF Init, TypeOK, NoQuestion, Question, Places, Verdicts
<1>2. \A m \in Versions : SoundProject(m, asked, frozen)
  BY NewProjectIsSound DEF Versions, Init
<1>3. \A c \in Calls : Checked(c)  BY DEF Checked, Init
<1> QED BY <1>1, <1>2, <1>3 DEF RInv

LEMMA CallKeeps ==
  ASSUME RInv, NEW c \in Calls, CallNext(c)  PROVE RInv'
BY EndingsKeep, BeginPlanningKeeps, FinishPlanningKeeps, PlainReadsKeep, FinishRunKeeps,
   LookUpApprovalKeeps, BeginApprovalKeeps, RecordApprovalKeeps, ApplyApprovalKeeps,
   BeginPipelineKeeps, PreparePipelineKeeps, RegisterRawDataKeeps, BeginDecisionKeeps,
   RecordDecisionKeeps, WriteFrozenFileKeeps, RejectDataKeeps, AcceptDataKeeps,
   FinishReviewKeeps, RouteFindingKeeps, FinishTaskKeeps DEF CallNext

\* RInv is an invariant: every request replaces the state as a whole by one
\* sound step from a state that was sound when it was read.
THEOREM Invariance == Spec => []RInv
<1>1. RInv /\ [Next]_vars => RInv'
  <2> SUFFICES ASSUME RInv, [Next]_vars  PROVE RInv'
    OBVIOUS
  <2>1. CASE Crash  BY <2>1, CrashKeeps
  <2>2. ASSUME NEW c \in Calls, CallNext(c)  PROVE RInv'
    BY <2>2, CallKeeps
  <2>3. CASE UNCHANGED vars
    BY <2>3 DEF vars, RInv, TypeOK, Versions, Checked, Runnable, NextAgent, AcceptsRawData
  <2> QED BY <2>1, <2>2, <2>3 DEF Next
<1> QED BY InitIsSound, <1>1, PTL DEF Spec

\* What is remembered names questions that were asked.
THEOREM Typed == Spec => []TypeOK
<1>1. RInv => TypeOK  BY DEF RInv
<1> QED BY <1>1, Invariance, PTL

\* No order of concurrent requests, stale writes and restarts leaves a
\* project waiting for nothing, or for two answers.
THEOREM OneAnswer == Spec => []WaitsForOneAnswer
<1>1. RInv => WaitsForOneAnswer  BY DEF RInv, WaitsForOneAnswer, SoundProject
<1> QED BY <1>1, Invariance, PTL

\* What was processed, frozen and analysed was approved as that operation on
\* the data the pipeline holds, however requests cross.
THEOREM DataApproved == Spec => []ApprovedForThisData
<1>1. ASSUME RInv, NEW m \in Versions
      PROVE  /\ m.pipe.ask # NoRequest /\ m.pipe.raw # NoData => asked[m.pipe.ask].raw = m.pipe.raw
             /\ \A k \in DataKinds : m.pipe.by[k] # NoRequest =>
                  asked[m.pipe.by[k]].kind = k /\ asked[m.pipe.by[k]].raw = m.pipe.raw
  <2>1. SoundPipe(m.pipe, asked, frozen)  BY <1>1 DEF RInv, SoundProject
  <2> QED BY <2>1 DEF SoundPipe, PipelineKinds
<1>2. RInv => ApprovedForThisData  BY <1>1 DEF ApprovedForThisData
<1> QED BY <1>2, Invariance, PTL

\* An analysed pipeline has gone through processing, freezing and analysis,
\* each with an approval, and its frozen file exists.
THEOREM ResultsAreChained == Spec => []ResultHasChain
<1>1. ASSUME RInv, NEW m \in Versions
      PROVE  /\ m.pipe.stage = "ANALYZED" => \A k \in DataKinds : m.pipe.by[k] # NoRequest
             /\ m.pipe.by["data_freeze"] # NoRequest => m.pipe.raw \in frozen
  BY <1>1 DEF RInv, SoundProject, SoundPipe
<1>2. RInv => ResultHasChain  BY <1>1 DEF ResultHasChain
<1> QED BY <1>2, Invariance, PTL

----------------------------------------------------------------------------
(* Requests one after another.                                              *)

OneCall == \A c, d \in Calls : c = d

Reading == Places \ {"idle", "planning", "saving"}

\* What the request works on is what the process holds, and unless it is
\* about to save, what is stored.
InStep ==
  /\ \A c \in Calls : pc[c] \in Reading \cup {"saving"} => seen[c] = mem
  /\ (\A c \in Calls : pc[c] # "saving") => stored = mem

Written(m) == m.pipe.stage = "ANALYZED" \/ m.findings

Reasoned(m, q) ==
  /\ m.approval = m.pending
  /\ m.stage = "REWORK" => m.target # NoAgent \/ m.pipe.stage = "REWORK"
  /\ m.target # NoAgent => m.stage = "REWORK" \/ m.pending # NoRequest
  /\ m.target \in {"paper_writing", "independent_review"} => Written(m)
  /\ m.stage = "ANALYZED" => m.pipe.stage = "ANALYZED"
  /\ m.stage \in {"DRAFTED", "VERIFIED"} => Written(m)
  /\ m.pending # NoRequest /\ q[m.pending].kind \in {"manuscript", "review_report"} => Written(m)

\* The approvals a pipeline rests on were given, and are open no more.
Standing(pipe, q) ==
  \A k \in DataKinds : pipe.by[k] # NoRequest =>
    q[pipe.by[k]].verdict = "approved" /\ pipe.by[k] # pipe.ask

Straight(m, q) == Reasoned(m, q) /\ Standing(m.pipe, q)

SInv ==
  /\ InStep
  /\ Straight(mem, asked) /\ Straight(stored, asked)
  /\ \A c \in Calls : pc[c] \in {"operating", "freezing"} => asked[seen[c].pipe.ask].verdict = verdict[c]

LEMMA StraightKept ==
  ASSUME RInv, NEW m \in Versions, Straight(m, asked), KeepsAnswers
  PROVE  Straight(m, asked')
<1>1. m \in Projects  BY VersionsAreProjects
<1>2. m.pending # NoRequest => asked'[m.pending] = asked[m.pending]
  BY <1>1 DEF Projects, References, KeepsAnswers, Uses
<1>3. \A k \in DataKinds : m.pipe.by[k] # NoRequest => asked'[m.pipe.by[k]] = asked[m.pipe.by[k]]
  <2> SUFFICES ASSUME NEW k \in DataKinds, m.pipe.by[k] # NoRequest
               PROVE  asked'[m.pipe.by[k]] = asked[m.pipe.by[k]]
    OBVIOUS
  <2>1. m.pipe.by[k] \in Requests  BY <1>1 DEF Projects, References
  <2> QED BY <2>1 DEF KeepsAnswers, Uses
<1> QED BY <1>2, <1>3 DEF Straight, Reasoned, Standing

\* What a request reads is the only version there is.
LEMMA OneVersion ==
  ASSUME RInv, SInv, OneCall, NEW c \in Calls, pc[c] \in Reading
  PROVE  /\ seen[c] = mem /\ stored = mem
         /\ mem \in Versions /\ mem \in Projects /\ SoundProject(mem, asked, frozen)
         /\ Straight(mem, asked)
<1>1. \A d \in Calls : d = c  BY DEF OneCall
<1>2. seen[c] = mem /\ stored = mem  BY <1>1 DEF SInv, InStep, Reading
<1> QED BY <1>2, VersionsAreProjects DEF Versions, SInv

LEMMA WriteStaysStraight ==
  ASSUME RInv, SInv, OneCall, NEW c \in Calls, NEW from, from # "saving", NEW m, Writes(c, from, m),
         KeepsAnswers, Straight(m, asked')
  PROVE  SInv'
<1>1. \A d \in Calls : d = c  BY DEF OneCall
<1>2. pc[c] = from /\ pc'[c] = "saving" /\ mem' = m /\ seen'[c] = m /\ stored' = stored
  BY DEF Writes, Goes, RInv, TypeOK
<1>3. stored \in Versions /\ Straight(stored, asked)  BY DEF Versions, SInv
<1>4. Straight(stored, asked')  BY <1>3, StraightKept
<1>5. InStep'  BY <1>1, <1>2 DEF InStep
<1> QED BY <1>1, <1>2, <1>4, <1>5 DEF SInv

LEMMA ReadStaysStraight ==
  ASSUME RInv, SInv, OneCall, NEW c \in Calls, NEW to \in Reading \ {"operating", "freezing"},
         Goes(c, "idle", to), seen' = [seen EXCEPT ![c] = mem], UNCHANGED <<mem, stored, asked>>
  PROVE  SInv'
<1>1. \A d \in Calls : d = c  BY DEF OneCall
<1>2. pc[c] = "idle" /\ pc'[c] = to /\ seen'[c] = mem  BY DEF Goes, RInv, TypeOK
<1>3. stored = mem  BY <1>1, <1>2 DEF SInv, InStep
<1>4. InStep'  BY <1>1, <1>2, <1>3 DEF InStep
<1> QED BY <1>1, <1>2, <1>4 DEF SInv

LEMMA PlainReadsStayStraight ==
  ASSUME RInv, SInv, OneCall, NEW c \in Calls,
         \/ BeginRun(c) \/ ReadForPipeline(c) \/ ReadForPreparation(c) \/ ReadForRawData(c)
         \/ ReadForReview(c) \/ ReadForFinding(c) \/ ReadForTask(c)
         \/ BeginApproval(c) \/ BeginDecision(c)
  PROVE  SInv'
BY ReadStaysStraight DEF BeginRun, ReadForPipeline, ReadForPreparation, ReadForRawData, ReadForReview,
   ReadForFinding, ReadForTask, Reads, BeginApproval, BeginDecision, Reading, Places

LEMMA EndStaysStraight ==
  ASSUME RInv, SInv, OneCall, NEW c \in Calls,
         Save(c) \/ RequestFails(c) \/ PackageMissing(c) \/ FrozenFileIsReadOnly(c)
  PROVE  SInv'
<1>1. \A d \in Calls : d = c  BY DEF OneCall
<1>2. PICK from : Ends(c, from) /\ UNCHANGED <<mem, asked>>
                  /\ stored' = IF from = "saving" THEN seen[c] ELSE stored
  BY DEF Save, RequestFails, PackageMissing, FrozenFileIsReadOnly, Fails
<1>3. pc[c] = from /\ pc'[c] = "idle"  BY <1>2 DEF Ends, Goes, RInv, TypeOK
<1>4. stored' = mem  BY <1>1, <1>2, <1>3 DEF SInv, InStep
<1>5. InStep'  BY <1>1, <1>2, <1>3, <1>4 DEF InStep, Reading
<1> QED BY <1>1, <1>2, <1>3, <1>4, <1>5 DEF SInv

LEMMA CrashStaysStraight ==
  ASSUME SInv, Crash  PROVE SInv'
<1>1. \A c \in Calls : pc'[c] = "idle"  BY DEF Crash
<1> QED BY <1>1 DEF Crash, SInv, InStep, Reading

LEMMA IdleStaysStraight ==
  ASSUME RInv, SInv, OneCall, NEW c \in Calls, BeginPlanning(c) \/ LookUpApproval(c)
  PROVE  SInv'
<1>1. \A d \in Calls : d = c  BY DEF OneCall
<1>2. pc[c] = "idle"  BY DEF BeginPlanning, LookUpApproval, Goes
<1>3. stored = mem  BY <1>1, <1>2 DEF SInv, InStep
<1>4. mem' = mem /\ stored' = stored /\ asked' = asked /\ pc'[c] \in {"idle", "planning"}
  BY <1>2, <1>3 DEF BeginPlanning, LookUpApproval, Goes, RInv, TypeOK
<1>5. InStep'  BY <1>1, <1>3, <1>4 DEF InStep, Reading
<1> QED BY <1>1, <1>4, <1>5 DEF SInv

LEMMA RecordStaysStraight ==
  ASSUME RInv, SInv, OneCall, NEW c \in Calls, RecordApproval(c) \/ RecordDecision(c)
  PROVE  SInv'
<1>1. \A d \in Calls : d = c  BY DEF OneCall
<1>2. PICK r \in {seen[c].approval, seen[c].pipe.ask}, from \in {"deciding", "judging"},
           to \in {"applying", "operating"} :
        /\ Records(c, r, from, to)
        /\ \/ from = "deciding" /\ to = "applying" /\ r = seen[c].approval
           \/ from = "judging" /\ to = "operating" /\ r = seen[c].pipe.ask
  BY DEF RecordApproval, RecordDecision
<1>3. pc[c] = from /\ pc'[c] = to /\ UNCHANGED <<mem, stored, seen, verdict>>
  BY <1>2 DEF Records, Goes, RInv, TypeOK
<1>4. /\ seen[c] = mem /\ stored = mem /\ mem \in Projects
      /\ SoundProject(mem, asked, frozen) /\ Straight(mem, asked)
  BY <1>2, <1>3, OneVersion DEF Reading, Places
<1>5. /\ r \in Requests
      /\ \/ r = mem.pending /\ asked[r].kind \in Kinds
         \/ r = mem.pipe.ask
  BY <1>2, <1>3, <1>4 DEF RInv, Checked, Projects, References, SoundProject
<1>6. \A s \in Requests : asked'[s].kind = asked[s].kind
                          /\ asked'[s].verdict = IF s = r THEN verdict[c] ELSE asked[s].verdict
  BY <1>2, <1>5 DEF Records, RInv, TypeOK
<1>7. \A k \in DataKinds : mem.pipe.by[k] # NoRequest => mem.pipe.by[k] \in Requests \ {r}
  <2> SUFFICES ASSUME NEW k \in DataKinds, mem.pipe.by[k] # NoRequest
               PROVE  mem.pipe.by[k] \in Requests \ {r}
    OBVIOUS
  <2>1. mem.pipe.by[k] \in Requests  BY <1>4 DEF Projects, References
  <2>2. asked[mem.pipe.by[k]].kind = k  BY <1>4 DEF SoundProject, SoundPipe
  <2>3. k \notin Kinds  BY DEF DataKinds, Kinds, ReworkTarget
  <2>4. mem.pipe.by[k] # mem.pipe.ask  BY <1>4 DEF Straight, Standing
  <2> QED BY <1>5, <2>1, <2>2, <2>3, <2>4
<1>8. Standing(mem.pipe, asked')  BY <1>4, <1>6, <1>7 DEF Straight, Standing
<1>9. Reasoned(mem, asked')  BY <1>4, <1>6 DEF Straight, Reasoned, Projects, References
<1>10. InStep'  BY <1>1, <1>3, <1>4 DEF InStep
<1>11. to = "operating" => asked'[seen'[c].pipe.ask].verdict = verdict'[c]
  BY <1>2, <1>3, <1>5, <1>6
<1> QED BY <1>1, <1>3, <1>4, <1>8, <1>9, <1>10, <1>11 DEF SInv, Straight

LEMMA FrozenStaysStraight ==
  ASSUME RInv, SInv, OneCall, NEW c \in Calls, WriteFrozenFile(c)
  PROVE  SInv'
<1>1. \A d \in Calls : d = c  BY DEF OneCall
<1>2. pc[c] = "operating" /\ pc'[c] = "freezing" /\ UNCHANGED <<mem, stored, asked, seen, verdict>>
  BY DEF WriteFrozenFile, Goes, RInv, TypeOK
<1>3. seen[c] = mem /\ stored = mem  BY <1>2, OneVersion DEF Reading, Places
<1>4. InStep'  BY <1>1, <1>2, <1>3 DEF InStep
<1> QED BY <1>1, <1>2, <1>4 DEF SInv

----------------------------------------------------------------------------
(* The steps of the controller, one after another.                          *)

LEMMA NothingAskedAnswers == ASSUME asked' = asked PROVE KeepsAnswers
BY DEF KeepsAnswers

LEMMA FinishPlanningStaysStraight ==
  ASSUME RInv, SInv, OneCall, NEW c \in Calls, FinishPlanning(c)
  PROVE  SInv'
<1> DEFINE m == [NewProject EXCEPT !.stage = "WAITING_HUMAN", !.pending = Planning, !.approval = Planning]
<1>1. Writes(c, "planning", m)
      /\ asked' = [asked EXCEPT ![Planning] = [asked[Planning] EXCEPT !.kind = "research_scope"]]
  BY DEF FinishPlanning
<1>2. asked'[Planning].kind = "research_scope" /\ \A r \in Requests \ {Planning} : asked'[r] = asked[r]
  BY <1>1, ConstantsAssumption DEF RInv, TypeOK
<1>3. KeepsAnswers
  <2> SUFFICES ASSUME NEW n \in Versions, Uses(n, Planning)
               PROVE  asked'[Planning] = asked[Planning]
    BY <1>2 DEF KeepsAnswers
  <2>1. asked[Planning].kind = "research_scope"
    BY VersionsAreProjects DEF Uses, SoundProject, SoundPipe
  <2> QED BY <1>1, <2>1, ConstantsAssumption DEF RInv, TypeOK
<1>4. Straight(m, asked')
  BY <1>2, ConstantsAssumption DEF Straight, Reasoned, Standing, NewProject, NoPipe, DataKinds, NoAgent
<1> QED BY <1>1, <1>3, <1>4, WriteStaysStraight

LEMMA FinishRunStaysStraight ==
  ASSUME RInv, SInv, OneCall, NEW c \in Calls, FinishRun(c)
  PROVE  SInv'
<1> DEFINE agent == NextAgent(seen[c])
           kind == Produces[agent]
           flagged(risk) == mem.flagged \/ risk
           package == seen[c].package \/ (agent = "data_analysis" /\ seen[c].stage # "REWORK")
           m(risk) == [mem EXCEPT !.stage = "WAITING_HUMAN",
                              !.pending = Fresh, !.approval = Fresh,
                              !.flagged = flagged(risk),
                              !.pipe = seen[c].pipe,
                              !.package = package]
<1>1. PICK risk \in BOOLEAN : Asks(kind, NoData) /\ Writes(c, "running", m(risk))
  BY Zenon DEF FinishRun
<1>2. pc[c] = "running"  BY <1>1 DEF Writes, Goes
<1>3. seen[c] = mem /\ mem \in Versions /\ mem \in Projects /\ Straight(mem, asked)
  BY <1>2, OneVersion DEF Reading, Places
<1>4. Runnable(mem)  BY <1>2, <1>3 DEF RInv, Checked
<1>5. agent \in Agents
  BY <1>3, <1>4 DEF NextAgent, Runnable, Route, Projects, Agents
<1>6. kind \in Kinds /\ (kind \in {"manuscript", "review_report"} => agent \in {"paper_writing", "independent_review"})
  BY <1>5 DEF Produces, Kinds, ReworkTarget, Agents
<1>7. /\ Fresh \in Requests /\ Fresh # NoRequest /\ asked'[Fresh].kind = kind /\ KeepsAnswers
  BY <1>1, <1>6, FreshIsNew
<1>8. agent \in {"paper_writing", "independent_review"} => Written(mem)
  <2>1. CASE mem.stage = "REWORK"  BY <1>3, <2>1 DEF NextAgent, Straight, Reasoned
  <2>2. CASE mem.stage # "REWORK"
    <3>1. agent = Route[mem.stage] /\ mem.stage \in DOMAIN Route
      BY <1>3, <1>4, <2>2 DEF NextAgent, Runnable
    <3>2. agent \in {"paper_writing", "independent_review"} => mem.stage \in {"ANALYZED", "DRAFTED"}
      BY <3>1 DEF Route
    <3> QED BY <1>3, <3>2 DEF Straight, Reasoned, Written
  <2> QED BY <2>1, <2>2
<1>9. /\ m(risk).stage = "WAITING_HUMAN" /\ m(risk).pending = Fresh /\ m(risk).approval = Fresh
      /\ m(risk).target = mem.target /\ m(risk).pipe = mem.pipe /\ m(risk).findings = mem.findings
  <2> HIDE DEF flagged, package
  <2> QED BY <1>3 DEF Projects
<1>10. Straight(mem, asked')  BY <1>3, <1>7, StraightKept
<1> HIDE DEF m, kind, agent
<1>11. Straight(m(risk), asked')
  BY <1>6, <1>7, <1>8, <1>9, <1>10 DEF Straight, Reasoned, Written
<1> QED BY <1>1, <1>7, <1>11, WriteStaysStraight

LEMMA ApplyApprovalStaysStraight ==
  ASSUME RInv, SInv, OneCall, NEW c \in Calls, ApplyApproval(c)
  PROVE  SInv'
<1> DEFINE kind == asked[seen[c].approval].kind
           settled == [seen[c] EXCEPT !.pending = NoRequest, !.approval = NoRequest]
           back == [settled EXCEPT !.stage = "REWORK", !.target = ReworkTarget[kind]]
           on == [settled EXCEPT !.stage = ApprovedStage[kind], !.target = NoAgent,
                                 !.pipe = IF kind = "analysis_specification" THEN BegunPipe ELSE @]
<1>1. pc[c] = "applying" /\ asked' = asked
      /\ (Writes(c, "applying", back) \/ Writes(c, "applying", on))
  BY DEF ApplyApproval
<1>2. KeepsAnswers  BY <1>1, NothingAskedAnswers
<1>3. /\ seen[c] = mem /\ mem \in Projects /\ SoundProject(mem, asked, frozen) /\ Straight(mem, asked)
      /\ mem.pending # NoRequest /\ mem.approval = mem.pending
  BY <1>1, OneVersion DEF Reading, Places, RInv, Checked
<1>4. kind \in Kinds /\ kind = asked[mem.pending].kind
  BY <1>3 DEF SoundProject
<1>5. ReworkTarget[kind] \in Agents /\ ReworkTarget[kind] # NoAgent
      /\ (ReworkTarget[kind] \in {"paper_writing", "independent_review"} => kind \in {"manuscript", "review_report"})
  BY <1>4 DEF ReworkTarget, Kinds, Agents, NoAgent
<1>6. /\ ApprovedStage[kind] \notin {"REWORK", "ANALYZED"}
      /\ ApprovedStage[kind] \in {"DRAFTED", "VERIFIED"} => kind \in {"manuscript", "review_report"}
  BY <1>4 DEF ApprovedStage, Kinds, ReworkTarget
<1>7. kind \in {"manuscript", "review_report"} => Written(mem)
  BY <1>3, <1>4 DEF Straight, Reasoned
<1>8. Standing(BegunPipe, asked)
  BY DEF Standing, BegunPipe, NoPipe
<1> HIDE DEF kind
<1>9. /\ back.stage = "REWORK" /\ back.target = ReworkTarget[kind] /\ back.pipe = mem.pipe
      /\ back.findings = mem.findings /\ back.pending = NoRequest /\ back.approval = NoRequest
  BY <1>3 DEF Projects
<1>10. /\ on.stage = ApprovedStage[kind] /\ on.target = NoAgent
       /\ on.pipe = IF kind = "analysis_specification" THEN BegunPipe ELSE mem.pipe
       /\ on.findings = mem.findings /\ on.pending = NoRequest /\ on.approval = NoRequest
  BY <1>3 DEF Projects
<1> HIDE DEF back, on
<1>11. Straight(back, asked')
  BY <1>1, <1>3, <1>5, <1>7, <1>9 DEF Straight, Reasoned, Written
<1>12. Straight(on, asked')
  <2>1. Standing(on.pipe, asked')  BY <1>1, <1>3, <1>8, <1>10 DEF Straight
  <2>2. Reasoned(on, asked')  BY <1>6, <1>7, <1>10 DEF Reasoned, Written, NoAgent
  <2> QED BY <2>1, <2>2 DEF Straight
<1> QED BY <1>1, <1>2, <1>11, <1>12, WriteStaysStraight

\* A step of the pipeline from a project that is not in rework.
LEMMA PipedStaysStraight ==
  ASSUME RInv, SInv, OneCall, NEW c \in Calls, NEW from, pc[c] \in Reading, KeepsAnswers,
         seen[c].pending = NoRequest, seen[c].stage # "REWORK",
         NEW p \in Pipes, Standing(p, asked'),
         NEW s \in Stages, s \notin {"DRAFTED", "VERIFIED"},
         s \in {"REWORK", "ANALYZED"} => p.stage = s,
         Writes(c, from, Keeping([seen[c] EXCEPT !.stage = s, !.pipe = p]))
  PROVE  SInv'
<1> DEFINE n == Keeping([seen[c] EXCEPT !.stage = s, !.pipe = p])
<1>1. seen[c] = mem /\ mem \in Projects /\ Straight(mem, asked)
  BY OneVersion
<1>2. /\ n.stage = s /\ n.pipe = p /\ n.pending = NoRequest /\ n.approval = NoRequest
      /\ n.target = NoAgent
  BY <1>1 DEF Keeping, Projects, Straight, Reasoned
<1> HIDE DEF n
<1>3. Straight(n, asked')  BY <1>2 DEF Straight, Reasoned, NoAgent
<1>4. from # "saving"  BY DEF Writes, Goes, Reading
<1> QED BY <1>3, <1>4, WriteStaysStraight DEF n

LEMMA PipelineStaysStraight ==
  ASSUME RInv, SInv, OneCall, NEW c \in Calls, BeginPipeline(c) \/ PreparePipeline(c)
  PROVE  SInv'
<1>1. CASE BeginPipeline(c)
  <2>1. KeepsAnswers /\ asked' = asked  BY <1>1, NothingAskedAnswers DEF BeginPipeline
  <2>2. pc[c] \in Reading /\ seen[c].stage \in {"STUDY_PROTOCOL_APPROVED", "DATA_READY"}
    BY <1>1 DEF BeginPipeline, Writes, Goes, RInv, Checked, Reading, Places
  <2>3. seen[c].pending = NoRequest
    BY <2>2, OneVersion DEF SoundProject
  <2>4. Standing(BegunPipe, asked')  BY DEF Standing, BegunPipe, NoPipe
  <2>5. "DATA_READY" \in Stages  BY DEF Stages
  <2> QED BY <1>1, <2>1, <2>2, <2>3, <2>4, <2>5, BegunPipeIsSound, PipedStaysStraight DEF BeginPipeline
<1>2. CASE PreparePipeline(c)
  <2> DEFINE p == Asking(NoPipe)
  <2>1. Asks("analysis_preparation", NoData)
        /\ Writes(c, "preparing", Keeping([seen[c] EXCEPT !.stage = "WAITING_HUMAN", !.pipe = p]))
    BY <1>2 DEF PreparePipeline
  <2>2. pc[c] \in Reading /\ seen[c].stage = "STUDY_PROTOCOL_APPROVED"
    BY <2>1 DEF Writes, Goes, RInv, Checked, Reading, Places
  <2>3. Fresh \in Requests /\ KeepsAnswers
    BY <2>1, FreshIsNew DEF PipelineKinds
  <2>4. seen[c].pending = NoRequest
    BY <2>2, OneVersion DEF SoundProject
  <2>5. p \in Pipes /\ Standing(p, asked')
    BY <2>3 DEF Asking, NoPipe, Pipes, PipeStages, References, Standing
  <2>6. "WAITING_HUMAN" \in Stages  BY DEF Stages
  <2> HIDE DEF p
  <2> QED BY <2>1, <2>2, <2>3, <2>4, <2>5, <2>6, PipedStaysStraight
<1> QED BY <1>1, <1>2

LEMMA RegisterStaysStraight ==
  ASSUME RInv, SInv, OneCall, NEW c \in Calls, RegisterRawData(c)
  PROVE  SInv'
<1>1. PICK d \in Datasets :
        LET pipe == [seen[c].pipe EXCEPT !.raw = d]
        IN  \/ /\ Asks("data_processing", d)
               /\ Writes(c, "auditing", Keeping([seen[c] EXCEPT !.stage = "WAITING_HUMAN",
                                                                !.pipe = Asking(pipe)]))
            \/ /\ UNCHANGED asked
               /\ Writes(c, "auditing",
                         Keeping([seen[c] EXCEPT !.stage = "REWORK",
                                                 !.pipe = [pipe EXCEPT !.stage = "REWORK"]]))
  BY DEF RegisterRawData
<1> DEFINE pipe == [seen[c].pipe EXCEPT !.raw = d]
           p == Asking(pipe)
           b == [pipe EXCEPT !.stage = "REWORK"]
<1>2. pc[c] = "auditing" /\ pc[c] \in Reading /\ seen[c].pipe.stage = "WAITING_RAW_DATA"
  BY <1>1 DEF Writes, Goes, RInv, Checked, AcceptsRawData, Reading, Places
<1>3. seen[c].pipe \in Pipes /\ SoundProject(seen[c], asked, frozen)
  BY <1>2, OneVersion DEF Projects, Pipes
<1>4. seen[c].stage = "DATA_READY" /\ seen[c].pending = NoRequest
      /\ \A k \in DataKinds : seen[c].pipe.by[k] = NoRequest
  BY <1>2, <1>3 DEF SoundProject, SoundPipe
<1>5. {"WAITING_HUMAN", "REWORK"} \subseteq Stages  BY DEF Stages
<1>6. CASE Asks("data_processing", d)
           /\ Writes(c, "auditing", Keeping([seen[c] EXCEPT !.stage = "WAITING_HUMAN", !.pipe = Asking(pipe)]))
  <2>1. Fresh \in Requests /\ KeepsAnswers
    BY <1>6, FreshIsNew DEF PipelineKinds, DataKinds
  <2>2. p \in Pipes /\ Standing(p, asked')
    BY <1>3, <1>4, <2>1 DEF Asking, Pipes, PipeStages, References, Standing
  <2>3. Writes(c, "auditing", Keeping([seen[c] EXCEPT !.stage = "WAITING_HUMAN", !.pipe = p]))
    BY <1>6
  <2> HIDE DEF p
  <2> QED BY <1>2, <1>4, <1>5, <2>1, <2>2, <2>3, PipedStaysStraight
<1>7. CASE asked' = asked /\ Writes(c, "auditing", Keeping([seen[c] EXCEPT !.stage = "REWORK", !.pipe = b]))
  <2>1. KeepsAnswers  BY <1>7, NothingAskedAnswers
  <2>2. b \in Pipes /\ b.stage = "REWORK" /\ Standing(b, asked')
    BY <1>3, <1>4 DEF Pipes, PipeStages, Standing
  <2> HIDE DEF b
  <2> QED BY <1>2, <1>4, <1>5, <1>7, <2>1, <2>2, PipedStaysStraight
<1> QED BY <1>1, <1>6, <1>7

\* The approval just given is recorded, like those before it.
LEMMA AnsweredStands ==
  ASSUME RInv, SInv, OneCall, NEW c \in Calls, Deciding(c), KeepsAnswers
  PROVE  /\ pc[c] \in Reading /\ seen[c].pending = NoRequest /\ seen[c].stage # "REWORK"
         /\ \A k \in DataKinds : Answered(c).by[k] # NoRequest =>
              /\ asked'[Answered(c).by[k]].verdict = "approved"
              /\ RefersTo(seen[c], Answered(c).by[k])
<1> DEFINE p == seen[c].pipe
           op == Operation(c)
<1>1. pc[c] \in {"operating", "freezing"} /\ pc[c] \in Reading
  BY DEF Deciding, Reading, Places
<1>2. /\ seen[c] = mem /\ mem \in Versions /\ mem \in Projects
      /\ SoundProject(mem, asked, frozen) /\ Straight(mem, asked)
  BY <1>1, OneVersion
<1>3. p.ask # NoRequest /\ p.ask \in Requests /\ p.by \in [DataKinds -> References]
  BY <1>1, <1>2 DEF RInv, Checked, Projects, References
<1>4. seen[c].pending = NoRequest /\ seen[c].stage = "WAITING_HUMAN"
  BY <1>2, <1>3 DEF SoundProject
<1>5. asked[p.ask].verdict = verdict[c] /\ asked'[p.ask] = asked[p.ask]
  BY <1>1, <1>2, <1>3 DEF SInv, KeepsAnswers, Uses
<1> DEFINE used == IF verdict[c] = "approved" /\ op \in DataKinds
                   THEN [p.by EXCEPT ![op] = p.ask] ELSE p.by
<1>6. \A k \in DataKinds : used[k] = IF verdict[c] = "approved" /\ k = op THEN p.ask ELSE p.by[k]
  <2> HIDE DEF op, p
  <2> QED BY <1>3
<1>7. Answered(c).by = used
  BY <1>2 DEF Answered, Projects
<1> HIDE DEF used, op
<1>8. ASSUME NEW k \in DataKinds, used[k] # NoRequest
      PROVE  asked'[used[k]].verdict = "approved" /\ RefersTo(seen[c], used[k])
  <2>1. CASE verdict[c] = "approved" /\ k = op
    BY <1>5, <1>6, <2>1 DEF RefersTo
  <2>2. CASE ~(verdict[c] = "approved" /\ k = op)
    <3>1. used[k] = p.by[k] /\ p.by[k] \in Requests
      BY <1>3, <1>6, <1>8, <2>2 DEF References
    <3>2. asked[p.by[k]].verdict = "approved"
      BY <1>2, <1>8, <3>1 DEF Straight, Standing
    <3>3. asked'[p.by[k]] = asked[p.by[k]]
      BY <1>2, <3>1 DEF KeepsAnswers, Uses
    <3> QED BY <3>1, <3>2, <3>3 DEF RefersTo
  <2> QED BY <2>1, <2>2
<1> QED BY <1>1, <1>4, <1>7, <1>8

LEMMA AsksNextStaysStraight ==
  ASSUME RInv, SInv, OneCall, NEW c \in Calls, NEW from, Deciding(c),
         NEW kind \in {"data_freeze", "analysis_execution"}, AsksNext(c, from, kind)
  PROVE  SInv'
<1> DEFINE p == Asking(Answered(c))
<1>1. seen[c].pipe.raw \in Datasets \cup {NoData} /\ kind \in PipelineKinds
  BY DEF RInv, TypeOK, Projects, PipelineKinds, DataKinds
<1>2. /\ Fresh \in Requests /\ \A m \in Versions : ~RefersTo(m, Fresh)
      /\ AskedType' /\ KeepsQuestions /\ KeepsAnswers
  BY <1>1, FreshIsNew DEF AsksNext
<1>3. ~RefersTo(seen[c], Fresh)  BY <1>2 DEF Versions
<1>4. Answered(c) \in Pipes  BY <1>2, AnsweredIsSound
<1>5. p \in Pipes /\ p.ask = Fresh /\ p.by = Answered(c).by
  BY <1>2, <1>4 DEF Asking, Pipes, PipeStages, References
<1>6. Writes(c, from, Keeping([seen[c] EXCEPT !.stage = "WAITING_HUMAN", !.pipe = p]))
  BY DEF AsksNext
<1> HIDE DEF p
<1>7. Standing(p, asked')
  BY <1>2, <1>3, <1>5, AnsweredStands DEF Standing
<1>8. "WAITING_HUMAN" \in Stages  BY DEF Stages
<1> QED BY <1>2, <1>5, <1>6, <1>7, <1>8, AnsweredStands, PipedStaysStraight

LEMMA SettlesStaysStraight ==
  ASSUME RInv, SInv, OneCall, NEW c \in Calls, NEW from, Deciding(c),
         NEW stage \in Stages \ {"DRAFTED", "VERIFIED"}, NEW pipestage \in PipeStages,
         stage \in {"REWORK", "ANALYZED"} => pipestage = stage,
         Settles(c, from, stage, pipestage)
  PROVE  SInv'
<1> DEFINE p == [Answered(c) EXCEPT !.stage = pipestage]
<1>1. AskedType' /\ KeepsQuestions /\ KeepsAnswers
  BY NothingAskedKeeps, NothingAskedAnswers DEF Settles
<1>2. Answered(c) \in Pipes /\ Answered(c).ask = NoRequest  BY <1>1, AnsweredIsSound
<1>3. p \in Pipes /\ p.ask = NoRequest /\ p.stage = pipestage /\ p.by = Answered(c).by
  BY <1>2 DEF Pipes
<1>4. Writes(c, from, Keeping([seen[c] EXCEPT !.stage = stage, !.pipe = p]))
  BY DEF Settles
<1> HIDE DEF p
<1>5. Standing(p, asked')
  BY <1>1, <1>3, AnsweredStands DEF Standing
<1> QED BY <1>1, <1>3, <1>4, <1>5, AnsweredStands, PipedStaysStraight

LEMMA DecisionStaysStraight ==
  ASSUME RInv, SInv, OneCall, NEW c \in Calls, RejectData(c) \/ AcceptData(c)
  PROVE  SInv'
<1>1. Deciding(c)
  <2>1. AcceptData(c) /\ Operation(c) = "data_freeze" => pc[c] = "freezing"
    BY DEF AcceptData, ConfirmPreparation, ProcessData, FreezeData, ExecutePlan,
       AsksNext, Settles, Writes, Goes
  <2> QED BY <2>1 DEF AcceptData, RejectData, Deciding
<1>2. \/ \E from, kind \in {"operating", "freezing", "data_freeze", "analysis_execution"} :
           kind \in {"data_freeze", "analysis_execution"} /\ AsksNext(c, from, kind)
      \/ \E from \in {"operating", "freezing"} :
           \/ Settles(c, from, "REWORK", "REWORK") \/ Settles(c, from, "ANALYZED", "ANALYZED")
           \/ Settles(c, from, "BLOCKED", "BLOCKED") \/ Settles(c, from, "DATA_READY", "WAITING_RAW_DATA")
  BY DEF RejectData, AcceptData, ConfirmPreparation, ProcessData, FreezeData, ExecutePlan
<1>3. {"REWORK", "DATA_READY", "ANALYZED", "BLOCKED"} \subseteq Stages \ {"DRAFTED", "VERIFIED"}
      /\ {"REWORK", "WAITING_RAW_DATA", "ANALYZED", "BLOCKED"} \subseteq PipeStages
  BY DEF Stages, Route, PipeStages
<1>4. ASSUME NEW from, NEW kind \in {"data_freeze", "analysis_execution"}, AsksNext(c, from, kind)
      PROVE  SInv'
  BY <1>1, <1>4, AsksNextStaysStraight
<1>5. ASSUME NEW from, NEW stage, NEW pipestage, Settles(c, from, stage, pipestage),
             <<stage, pipestage>> \in {<<"REWORK", "REWORK">>, <<"ANALYZED", "ANALYZED">>,
                                      <<"BLOCKED", "BLOCKED">>, <<"DATA_READY", "WAITING_RAW_DATA">>}
      PROVE  SInv'
  BY <1>1, <1>3, <1>5, SettlesStaysStraight
<1> QED BY <1>2, <1>4, <1>5

LEMMA FinishReviewStaysStraight ==
  ASSUME RInv, SInv, OneCall, NEW c \in Calls, FinishReview(c)
  PROVE  SInv'
<1> DEFINE m == [seen[c] EXCEPT !.stage = "WAITING_HUMAN", !.pending = Fresh, !.approval = Fresh]
           n == Keeping([seen[c] EXCEPT !.stage = "REWORK", !.pending = NoRequest,
                                        !.target = "paper_writing", !.findings = TRUE])
<1>1. pc[c] = "reviewing" /\ seen[c].stage = "DRAFTED"
  BY DEF FinishReview, Writes, Goes, RInv, Checked
<1>2. /\ seen[c] = mem /\ mem \in Versions /\ mem \in Projects
      /\ SoundProject(mem, asked, frozen) /\ Straight(mem, asked)
  BY <1>1, OneVersion DEF Reading, Places
<1>3. mem.pending = NoRequest /\ mem.approval = NoRequest /\ mem.target = NoAgent /\ Written(mem)
  BY <1>1, <1>2 DEF SoundProject, Straight, Reasoned
<1>4. CASE Asks("review_report", NoData) /\ Writes(c, "reviewing", m)
  <2>1. /\ Fresh \in Requests /\ Fresh # NoRequest /\ KeepsAnswers
        /\ \A v \in Versions : ~RefersTo(v, Fresh)
    BY <1>4, FreshIsNew DEF Kinds, ReworkTarget
  <2>2. /\ m.stage = "WAITING_HUMAN" /\ m.pending = Fresh /\ m.approval = Fresh
        /\ m.target = NoAgent /\ m.pipe = mem.pipe /\ m.findings = mem.findings
    BY <1>2, <1>3 DEF Projects
  <2>3. Straight(mem, asked')  BY <1>2, <2>1, StraightKept
  <2> HIDE DEF m
  <2>4. Straight(m, asked')
    BY <1>3, <2>2, <2>3 DEF Straight, Reasoned, Written, NoAgent
  <2> QED BY <1>4, <2>1, <2>4, WriteStaysStraight
<1>5. CASE asked' = asked /\ Writes(c, "reviewing", n)
  <2>1. KeepsAnswers  BY <1>5, NothingAskedAnswers
  <2>2. /\ n.stage = "REWORK" /\ n.pending = NoRequest /\ n.approval = NoRequest
        /\ n.target = "paper_writing" /\ n.findings = TRUE /\ n.pipe = mem.pipe
    BY <1>2, <1>3 DEF Keeping, Projects
  <2> HIDE DEF n
  <2>3. Straight(n, asked')
    BY <1>2, <1>5, <2>2 DEF Straight, Reasoned, Written, NoAgent
  <2> QED BY <1>5, <2>1, <2>3, WriteStaysStraight
<1> QED BY <1>4, <1>5 DEF FinishReview

LEMMA RouteFindingStaysStraight ==
  ASSUME RInv, SInv, OneCall, NEW c \in Calls, RouteFinding(c)
  PROVE  SInv'
<1> DEFINE m == Keeping([seen[c] EXCEPT !.stage = "BLOCKED", !.target = NoAgent])
           n(t) == Keeping([seen[c] EXCEPT !.target = t, !.findings = TRUE])
<1>1. pc[c] = "routing" /\ seen[c].stage = "REWORK" /\ asked' = asked
  BY DEF RouteFinding, Writes, Goes, RInv, Checked
<1>2. /\ seen[c] = mem /\ mem \in Versions /\ mem \in Projects
      /\ SoundProject(mem, asked, frozen) /\ Straight(mem, asked)
  BY <1>1, OneVersion DEF Reading, Places
<1>3. mem.pending = NoRequest /\ mem.approval = NoRequest /\ KeepsAnswers
  BY <1>1, <1>2, NothingAskedAnswers DEF SoundProject, Straight, Reasoned
<1>4. CASE Writes(c, "routing", m)
  <2>1. /\ m.stage = "BLOCKED" /\ m.pending = NoRequest /\ m.approval = NoRequest
        /\ m.target = NoAgent /\ m.pipe = mem.pipe
    BY <1>2, <1>3 DEF Keeping, Projects
  <2> HIDE DEF m
  <2>2. Straight(m, asked')  BY <1>1, <1>2, <2>1 DEF Straight, Reasoned, NoAgent
  <2> QED BY <1>3, <1>4, <2>2, WriteStaysStraight
<1>5. CASE \E t \in FindingTargets : Writes(c, "routing", n(t))
  <2>1. PICK t \in FindingTargets : Writes(c, "routing", n(t))  BY <1>5
  <2>2. /\ n(t).stage = "REWORK" /\ n(t).pending = NoRequest /\ n(t).approval = NoRequest
        /\ n(t).target = t /\ n(t).findings = TRUE /\ n(t).pipe = mem.pipe
    BY <1>1, <1>2, <1>3 DEF Keeping, Projects
  <2>3. t # NoAgent  BY DEF FindingTargets, Agents, NoAgent
  <2> HIDE DEF n
  <2>4. Straight(n(t), asked')  BY <1>1, <1>2, <2>2, <2>3 DEF Straight, Reasoned, Written
  <2> QED BY <1>3, <2>1, <2>4, WriteStaysStraight
<1> QED BY <1>4, <1>5 DEF RouteFinding

LEMMA FinishTaskStaysStraight ==
  ASSUME RInv, SInv, OneCall, NEW c \in Calls, FinishTask(c)
  PROVE  SInv'
<1> DEFINE m(risk) == Keeping([seen[c] EXCEPT !.target = mem.target, !.findings = mem.findings,
                                              !.flagged = mem.flagged \/ risk])
<1>1. PICK risk \in BOOLEAN : Writes(c, "tasking", m(risk)) /\ asked' = asked
  BY DEF FinishTask
<1>2. pc[c] = "tasking"  BY <1>1 DEF Writes, Goes
<1>3. seen[c] = mem /\ mem \in Projects /\ Straight(mem, asked)
  BY <1>2, OneVersion DEF Reading, Places
<1>4. /\ m(risk).stage = mem.stage /\ m(risk).pending = mem.pending /\ m(risk).approval = mem.approval
      /\ m(risk).target = mem.target /\ m(risk).findings = mem.findings /\ m(risk).pipe = mem.pipe
  BY <1>3 DEF Keeping, Projects
<1> HIDE DEF m
<1>5. Straight(m(risk), asked')
  BY <1>1, <1>3, <1>4 DEF Straight, Reasoned, Written
<1> QED BY <1>1, <1>5, NothingAskedAnswers, WriteStaysStraight

LEMMA InitIsStraight == Init => SInv
<1> SUFFICES ASSUME Init  PROVE SInv
  OBVIOUS
<1>1. Straight(NewProject, asked)
  BY ConstantsAssumption DEF Straight, Reasoned, Standing, NewProject, NoPipe, DataKinds, NoAgent
<1>2. mem = NewProject /\ stored = NewProject /\ \A c \in Calls : pc[c] = "idle"
  BY DEF Init
<1> QED BY <1>1, <1>2 DEF SInv, InStep, Reading

LEMMA CallStaysStraight ==
  ASSUME RInv, SInv, OneCall, NEW c \in Calls, CallNext(c)
  PROVE  SInv'
BY EndStaysStraight, IdleStaysStraight, FinishPlanningStaysStraight, PlainReadsStayStraight,
   FinishRunStaysStraight, RecordStaysStraight, ApplyApprovalStaysStraight, PipelineStaysStraight,
   RegisterStaysStraight, FrozenStaysStraight, DecisionStaysStraight, FinishReviewStaysStraight,
   RouteFindingStaysStraight, FinishTaskStaysStraight DEF CallNext

\* With requests one after another SInv is an invariant too, whatever
\* requests fail and whenever the process dies.
THEOREM StraightInvariance ==
  ASSUME OneCall
  PROVE  Spec => []SInv
<1>1. RInv /\ SInv /\ [Next]_vars => SInv'
  <2> SUFFICES ASSUME RInv, SInv, [Next]_vars  PROVE SInv'
    OBVIOUS
  <2>1. CASE Crash  BY <2>1, CrashStaysStraight
  <2>2. ASSUME NEW c \in Calls, CallNext(c)  PROVE SInv'
    BY <2>2, CallStaysStraight
  <2>3. CASE UNCHANGED vars  BY <2>3 DEF vars, SInv, InStep
  <2> QED BY <2>1, <2>2, <2>3 DEF Next
<1> QED BY InitIsStraight, <1>1, Invariance, PTL DEF Spec

\* Nothing was processed, frozen or analysed under an approval that the
\* decision store shows as rejected, if requests come one after another.
THEOREM ApprovalsStand ==
  ASSUME OneCall
  PROVE  Spec => []UsedApprovalsStand
<1>1. SInv => UsedApprovalsStand  BY DEF SInv, Straight, Standing, UsedApprovalsStand
<1> QED BY <1>1, StraightInvariance, PTL

\* A manuscript is approved only on a result or after a review finding, if
\* requests come one after another.
THEOREM DraftsHaveResults ==
  ASSUME OneCall
  PROVE  Spec => []DraftNeedsResult
<1>1. SInv => DraftNeedsResult  BY DEF SInv, Straight, Reasoned, Written, DraftNeedsResult
<1> QED BY <1>1, StraightInvariance, PTL

\* A project in rework knows why, and the open question is the one kept
\* beside the state, if requests come one after another.
THEOREM ReworkIsReasoned ==
  ASSUME OneCall
  PROVE  Spec => []ReworkHasReason
<1>1. SInv => ReworkHasReason  BY DEF SInv, Straight, Reasoned, ReworkHasReason
<1> QED BY <1>1, StraightInvariance, PTL
=============================================================================
