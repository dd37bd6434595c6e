------------------------- MODULE ControlPlaneProofs -------------------------
(***************************************************************************)
(* Proofs about ControlPlane, for every route, every set of threads, every *)
(* mode and every bound: an acknowledged constraint is never lost, and a   *)
(* Gate is decided at most once.                                           *)
(***************************************************************************)
EXTENDS ControlPlane, SequenceTheorems, TLAPS

\* What a step may be called.
Names == STRING \cup {None, "journal_style_revision"}

\* The columns of the state that the proofs are about.
Counted(s) == /\ {"rev", "notes", "steps"} \subseteq DOMAIN s
              /\ s.rev \in Nat /\ s.rev >= 1 /\ s.notes \in Nat /\ s.steps \in Seq(Names)

Places == Locked \cup {"idle", "route", "noting", "answering", "chosen", "working"}

Jobs == [action : Names, mode : {"chat", "api", None}, expected : Nat, gate : Nat,
         human : BOOLEAN, checkpoint : CheckpointNames \cup {None}, valid : BOOLEAN,
         independent : BOOLEAN, decision : Decisions \cup {None}]

Rows == [action : Names, status : {"PENDING", "APPROVED", "REJECTED"},
         valid : BOOLEAN, independent : BOOLEAN]

\* What is in memory and in the rows.
Shape == /\ Counted(state) /\ notes \in Nat /\ gates \in Seq(Rows)
         /\ DOMAIN copy = Threads /\ copy = [t \in Threads |-> copy[t]]
         /\ \A t \in Threads : Counted(copy[t])
         /\ pc \in [Threads -> Places] /\ job \in [Threads -> Jobs]

\* A copy at the current revision is current: the constraints in it are all
\* that were acknowledged.
CopiesCurrent == /\ state.notes = notes
                 /\ state.rev = 1 => notes = 0
                 /\ \A t \in Threads : /\ copy[t].rev <= state.rev
                                       /\ copy[t].rev = state.rev => copy[t].notes = notes

\* The lock of the control plane has one holder, and a Gate that is about to
\* be decided is pending.
OneHolder == \A t, u \in Threads : pc[t] \in Locked /\ pc[u] \in Locked => t = u
DecidesPending == \A t \in Threads : pc[t] = "deciding" =>
  job[t].gate \in DOMAIN gates /\ gates[job[t].gate].status = "PENDING"

CInv == Shape /\ CopiesCurrent /\ OneHolder /\ DecidesPending

----------------------------------------------------------------------------
(* Operators.                                                               *)

LEMMA RouteIsOfActions == Workflow \in Seq(Actions)
<1>1. Workflow \in Seq(STRING)  BY WorkflowAssumption
<1>2. Len(Workflow) \in Nat /\ DOMAIN Workflow = 1..Len(Workflow)
      /\ Workflow = [i \in 1..Len(Workflow) |-> Workflow[i]]
  BY <1>1, LenProperties
<1>3. \A i \in 1..Len(Workflow) : Workflow[i] \in Actions  BY <1>2 DEF Actions
<1> QED BY <1>2, <1>3, IsASeq

LEMMA StepsAreNames == Workflow \in Seq(Names) /\ Unclassified \in Seq(Names)
<1>1. ASSUME NEW steps \in Seq(STRING) PROVE steps \in Seq(Names)
  <2>1. Len(steps) \in Nat /\ DOMAIN steps = 1..Len(steps)
        /\ steps = [i \in 1..Len(steps) |-> steps[i]]
    BY LenProperties
  <2>2. \A i \in 1..Len(steps) : steps[i] \in Names  BY <2>1, ElementOfSeq DEF Names
  <2> QED BY <2>1, <2>2, IsASeq
<1> QED BY <1>1, WorkflowAssumption

LEMMA PositionIsThere ==
  ASSUME NEW steps \in Seq(Names), NEW s, In(steps, s)
  PROVE  Position(steps, s) \in 1..Len(steps)
BY DEF In, Position

LEMMA FormattedIsRoute ==
  ASSUME NEW steps \in Seq(Names)
  PROVE  Formatted(steps) \in Seq(Names)
<1> DEFINE p == LastBeforeFormatting(steps)
<1>1. p \in 0..Len(steps)  BY PositionIsThere, LenProperties DEF LastBeforeFormatting
<1>2. ASSUME NEW q \in 0..Len(steps)
      PROVE  InsertAfter(steps, q, "journal_style_revision") \in Seq(Names)
  <2>1. SubSeq(steps, 1, q) \in Seq(Names) /\ SubSeq(steps, q + 1, Len(steps)) \in Seq(Names)
    <3>1. Len(steps) \in Nat /\ \A i \in 1..Len(steps) : steps[i] \in Names  OBVIOUS
    <3>2. \A i \in 1..q : i \in 1..Len(steps)  BY <3>1
    <3>3. \A i \in (q + 1)..Len(steps) : i \in 1..Len(steps)  BY <3>1
    <3> QED BY <3>1, <3>2, <3>3, SubSeqProperties
  <2>2. "journal_style_revision" \in Names  BY DEF Names
  <2>3. <<"journal_style_revision">> \in Seq(Names)  BY <2>2
  <2> QED BY <2>1, <2>3, ConcatProperties DEF InsertAfter
<1> QED BY <1>1, <1>2 DEF Formatted

LEMMA CheckpointsAreNames ==
  ASSUME NEW a, NEW m, NEW c \in Checkpoints(a, m)
  PROVE  c \in CheckpointNames \cup {None}
BY DEF Checkpoints, CheckpointNames

LEMMA CreatedCounted == Counted(Created) /\ Created.rev = 1 /\ Created.notes = 0
BY StepsAreNames DEF Counted, Created

LEMMA NoJobIsJob == NoJob \in Jobs
BY DEF NoJob, Jobs, Names

LEMMA PlacesOfLock == Locked \subseteq Places /\ "idle" \in Places /\ "idle" \notin Locked
BY DEF Places, Locked

----------------------------------------------------------------------------
(* Kinds of steps.                                                          *)

\* A step of t that leaves the rows alone: it goes to l, with a copy of the
\* state or without, and enters the lock only when that is free.
LEMMA StepKeeps ==
  ASSUME CInv, NEW t \in Threads, NEW l \in Places, Goto(t, l),
         UNCHANGED <<state, gates, notes>>,
         copy' = copy \/ copy' = [copy EXCEPT ![t] = state],
         job' \in [Threads -> Jobs], \A u \in Threads \ {t} : job'[u] = job[u],
         l \in Locked => LockFree,
         l = "deciding" => /\ job'[t].gate \in DOMAIN gates
                           /\ gates[job'[t].gate].status = "PENDING"
  PROVE  CInv'
<1>1. Shape /\ CopiesCurrent /\ OneHolder /\ DecidesPending  BY DEF CInv
<1>2. pc' \in [Threads -> Places] /\ pc'[t] = l /\ \A u \in Threads \ {t} : pc'[u] = pc[u]
  BY <1>1 DEF Shape, Goto
<1>3. /\ DOMAIN copy' = Threads /\ copy' = [u \in Threads |-> copy'[u]]
      /\ \A u \in Threads : copy'[u] = copy[u] \/ copy'[u] = state
  BY <1>1 DEF Shape
<1>4. Shape'  BY ZenonT(40), <1>1, <1>2, <1>3 DEF Shape, Counted
<1>5. CopiesCurrent'  BY <1>1, <1>3 DEF CopiesCurrent, Shape, Counted
<1>6. OneHolder'  BY <1>1, <1>2 DEF OneHolder, LockFree
<1>7. DecidesPending'  BY <1>1, <1>2 DEF DecidesPending
<1> QED BY <1>4, <1>5, <1>6, <1>7 DEF CInv

\* What a save leaves: the new state at the next revision, or the old one.
LEMMA SaveShape ==
  ASSUME CInv, NEW t \in Threads, NEW new, Counted(new), Save(t, new), notes' \in Nat,
         gates' = gates
  PROVE  /\ Shape'
         /\ \/ state' = state /\ ~Unchanged(t)
            \/ /\ Unchanged(t) /\ state'.rev = state.rev + 1 /\ state'.notes = new.notes
         /\ pc'[t] = "idle" /\ \A u \in Threads \ {t} : pc'[u] = pc[u] /\ job'[u] = job[u]
         /\ copy'[t] = Created /\ \A u \in Threads \ {t} : copy'[u] = copy[u]
<1>1. Shape  BY DEF CInv
<1>2. /\ pc' \in [Threads -> Places] /\ job' \in [Threads -> Jobs]
      /\ pc'[t] = "idle" /\ \A u \in Threads \ {t} : pc'[u] = pc[u] /\ job'[u] = job[u]
  BY <1>1, NoJobIsJob, PlacesOfLock DEF Shape, Save, Goto
<1>3. /\ DOMAIN copy' = Threads /\ copy' = [u \in Threads |-> copy'[u]]
      /\ copy'[t] = Created /\ \A u \in Threads \ {t} : copy'[u] = copy[u]
  BY <1>1 DEF Shape, Save
<1>4. \A u \in Threads : Counted(copy[u])'  BY <1>1, <1>3, CreatedCounted DEF Shape, Counted
<1>5. CASE ~Unchanged(t)
  <2>1. state' = state  BY <1>5 DEF Save
  <2>2. Counted(state)'  BY <1>1, <2>1 DEF Shape, Counted
  <2> QED BY <1>1, <1>2, <1>3, <1>4, <1>5, <2>1, <2>2 DEF Shape
<1>6. CASE Unchanged(t)
  <2>1. copy[t].rev = state.rev /\ state.rev \in Nat /\ state.rev >= 1
    BY <1>1, <1>6 DEF Unchanged, Shape, Counted
  <2>2. state' = [new EXCEPT !.rev = copy[t].rev + 1]  BY <1>6 DEF Save
  <2>3. state'.rev = state.rev + 1 /\ state'.notes = new.notes /\ state'.steps = new.steps
        /\ DOMAIN state' = DOMAIN new
    BY <2>1, <2>2 DEF Counted
  <2>4. Counted(state)'  BY <2>1, <2>3 DEF Counted
  <2> QED BY <1>1, <1>2, <1>3, <1>4, <1>6, <2>3, <2>4 DEF Shape
<1> QED BY <1>5, <1>6

LEMMA SaveKeeps ==
  ASSUME CInv, NEW t \in Threads, NEW new, Counted(new), Save(t, new), gates' = gates,
         \/ new.notes = copy[t].notes /\ notes' = notes
         \/ new.notes = copy[t].notes + 1 /\ notes' = IF Unchanged(t) THEN notes + 1 ELSE notes
  PROVE  CInv'
<1>1. Shape /\ CopiesCurrent /\ OneHolder /\ DecidesPending  BY DEF CInv
<1>2. notes' \in Nat  BY <1>1 DEF Shape
<1>3. /\ Shape'
      /\ \/ state' = state /\ ~Unchanged(t)
         \/ /\ Unchanged(t) /\ state'.rev = state.rev + 1 /\ state'.notes = new.notes
      /\ pc'[t] = "idle" /\ \A u \in Threads \ {t} : pc'[u] = pc[u] /\ job'[u] = job[u]
      /\ copy'[t] = Created /\ \A u \in Threads \ {t} : copy'[u] = copy[u]
  BY <1>2, SaveShape
<1>4. state.rev \in Nat /\ state.rev >= 1 /\ \A u \in Threads : copy[u].rev \in Nat
  BY <1>1 DEF Shape, Counted
<1>5. CopiesCurrent'
  <2>1. CASE state' = state /\ ~Unchanged(t)
    <3>1. notes' = notes  BY <2>1
    <3> QED BY <1>1, <1>3, <1>4, <2>1, <3>1, CreatedCounted DEF CopiesCurrent
  <2>2. CASE Unchanged(t) /\ state'.rev = state.rev + 1 /\ state'.notes = new.notes
    <3>1. copy[t].notes = notes  BY <1>1, <2>2 DEF CopiesCurrent, Unchanged
    <3>2. state'.notes = notes'  BY <2>2, <3>1
    <3>3. \A u \in Threads : copy'[u].rev < state'.rev
      BY <1>1, <1>3, <1>4, <2>2, CreatedCounted DEF CopiesCurrent
    <3>4. state'.rev # 1 /\ \A u \in Threads : copy'[u].rev \in Nat /\ state'.rev \in Nat
      BY <1>3, <1>4, <2>2, CreatedCounted
    <3>5. \A u \in Threads : copy'[u].rev <= state'.rev /\ copy'[u].rev # state'.rev  BY <3>3, <3>4
    <3> QED BY <3>2, <3>4, <3>5 DEF CopiesCurrent
  <2> QED BY <1>3, <2>1, <2>2
<1>6. OneHolder'  BY <1>1, <1>3, PlacesOfLock DEF OneHolder
<1>7. DecidesPending'  BY <1>1, <1>3 DEF DecidesPending
<1> QED BY <1>3, <1>5, <1>6, <1>7 DEF CInv

----------------------------------------------------------------------------
(* Steps.                                                                   *)

LEMMA MembersOfPlaces ==
  /\ \A l \in {"idle", "route", "noting", "answering", "chosen", "working"} :
       l \in Places /\ l \notin Locked
  /\ \A l \in {"routing", "targeting", "storing", "committing", "gated", "deciding", "decided"} :
       l \in Places
BY DEF Places, Locked

\* Requests that read the state, or nothing yet.
LEMMA ReadsKeep ==
  ASSUME CInv, NEW t \in Threads, UNCHANGED job,
         \/ AskForRoute(t) \/ ReadForRoute(t) \/ ReadForTarget(t) \/ StorePrimaryData(t)
         \/ RefuseWithoutData(t) \/ ReadForNote(t) \/ ReadForAnswer(t)
  PROVE  CInv'
<1>1. job' \in [Threads -> Jobs] /\ \A u \in Threads : job'[u] = job[u]  BY DEF CInv, Shape
<1>2. CASE AskForRoute(t)
  BY <1>1, <1>2, StepKeeps, MembersOfPlaces DEF AskForRoute
<1>3. CASE ReadForRoute(t)
  BY <1>1, <1>3, StepKeeps, MembersOfPlaces DEF ReadForRoute, Read
<1>4. CASE ReadForTarget(t)
  BY <1>1, <1>4, StepKeeps, MembersOfPlaces DEF ReadForTarget, Read
<1>5. CASE StorePrimaryData(t)
  BY <1>1, <1>5, StepKeeps, MembersOfPlaces DEF StorePrimaryData, Read
<1>6. CASE RefuseWithoutData(t)
  BY <1>1, <1>6, StepKeeps, MembersOfPlaces DEF RefuseWithoutData, Read
<1>7. CASE ReadForNote(t)
  BY <1>1, <1>7, StepKeeps, MembersOfPlaces DEF ReadForNote, Read
<1>8. CASE ReadForAnswer(t)
  BY <1>1, <1>8, StepKeeps, MembersOfPlaces DEF ReadForAnswer, Read
<1> QED BY <1>2, <1>3, <1>4, <1>5, <1>6, <1>7, <1>8

\* Saves that leave the constraints alone.
LEMMA SavesKeep ==
  ASSUME CInv, NEW t \in Threads,
         ChooseRoute(t) \/ SetPublicationTarget(t) \/ SaveDataStatus(t) \/ AnswerCheckpoint(t)
         \/ CompleteAction(t) \/ SaveDecision(t)
  PROVE  CInv'
<1>1. Counted(copy[t])  BY DEF CInv, Shape
<1>2. Formatted(copy[t].steps) \in Seq(Names) /\ Formatted(Workflow) \in Seq(Names)
      /\ Workflow \in Seq(Names)
  BY <1>1, FormattedIsRoute, StepsAreNames DEF Counted
<1>3. CASE ChooseRoute(t)
  <2> DEFINE new == [copy[t] EXCEPT !.routed = TRUE, !.index = 3, !.gate = 0,
                       !.steps = IF copy[t].target THEN Formatted(Workflow) ELSE Workflow]
  <2>1. Counted(new) /\ new.notes = copy[t].notes  BY <1>1, <1>2 DEF Counted
  <2>2. Save(t, new) /\ gates' = gates /\ notes' = notes  BY <1>3 DEF ChooseRoute
  <2> HIDE DEF new
  <2> QED BY <2>1, <2>2, SaveKeeps
<1>4. CASE SetPublicationTarget(t)
  <2> DEFINE new == [copy[t] EXCEPT !.target = TRUE, !.steps = Formatted(copy[t].steps)]
  <2>1. Counted(new) /\ new.notes = copy[t].notes  BY <1>1, <1>2 DEF Counted
  <2>2. Save(t, new) /\ gates' = gates /\ notes' = notes  BY <1>4 DEF SetPublicationTarget
  <2> HIDE DEF new
  <2> QED BY <2>1, <2>2, SaveKeeps
<1>5. CASE SaveDataStatus(t)
  BY <1>1, <1>5, SaveKeeps DEF SaveDataStatus
<1>6. CASE AnswerCheckpoint(t)
  <2>0. PICK c \in AfterAnswer(copy[t].checkpoint) : Save(t, [copy[t] EXCEPT !.checkpoint = c])
    BY <1>6 DEF AnswerCheckpoint
  <2> DEFINE new == [copy[t] EXCEPT !.checkpoint = c]
  <2>1. Counted(new) /\ new.notes = copy[t].notes  BY <1>1 DEF Counted
  <2>2. Save(t, new) /\ gates' = gates /\ notes' = notes  BY <1>6, <2>0 DEF AnswerCheckpoint
  <2> HIDE DEF new
  <2> QED BY <2>1, <2>2, SaveKeeps
<1>7. CASE CompleteAction(t)
  <2> DEFINE new == [copy[t] EXCEPT !.gate = job[t].gate, !.checkpoint = job[t].checkpoint,
                       !.index = NextIndex(copy[t], job[t].human, job[t].checkpoint)]
  <2>1. Counted(new) /\ new.notes = copy[t].notes  BY <1>1 DEF Counted
  <2>2. Save(t, new) /\ gates' = gates /\ notes' = notes  BY <1>7 DEF CompleteAction
  <2> HIDE DEF new
  <2> QED BY <2>1, <2>2, SaveKeeps
<1>8. CASE SaveDecision(t)
  <2> DEFINE a == gates[job[t].gate].action
             new == Decided(copy[t], a, job[t].decision)
  <2>1. Counted(new) /\ new.notes = copy[t].notes
    <3> DEFINE cleared == [copy[t] EXCEPT !.gate = 0]
    <3>1. Counted(cleared) /\ cleared.notes = copy[t].notes /\ cleared.steps = copy[t].steps
      BY <1>1 DEF Counted
    <3>2. \E i, l, c : \/ new = cleared
                       \/ new = [cleared EXCEPT !.life = l]
                       \/ new = [cleared EXCEPT !.index = i, !.life = l]
                       \/ new = [cleared EXCEPT !.index = i]
                       \/ new = [cleared EXCEPT !.index = i, !.checkpoint = c]
      BY DEF Decided
    <3> HIDE DEF new, cleared
    <3> QED BY <3>1, <3>2 DEF Counted
  <2>2. Save(t, new) /\ gates' = gates /\ notes' = notes  BY <1>8 DEF SaveDecision
  <2> HIDE DEF new
  <2> QED BY <2>1, <2>2, SaveKeeps
<1> QED BY <1>3, <1>4, <1>5, <1>6, <1>7, <1>8

LEMMA TakeNoteKeeps ==
  ASSUME CInv, NEW t \in Threads, TakeNote(t)
  PROVE  CInv'
<1> DEFINE new == [copy[t] EXCEPT !.notes = @ + 1]
<1>1. Counted(new) /\ new.notes = copy[t].notes + 1  BY DEF CInv, Shape, Counted
<1>2. /\ Save(t, new) /\ gates' = gates
      /\ notes' = IF Unchanged(t) THEN notes + 1 ELSE notes
  BY DEF TakeNote
<1> HIDE DEF new
<1> QED BY <1>1, <1>2, SaveKeeps

LEMMA JobSet ==
  ASSUME job \in [Threads -> Jobs], NEW t \in Threads, NEW j \in Jobs, job' = [job EXCEPT ![t] = j]
  PROVE  /\ job' \in [Threads -> Jobs] /\ job'[t] = j
         /\ \A u \in Threads \ {t} : job'[u] = job[u]
OBVIOUS

\* Steps of a worker before it writes.
LEMMA WorkKeeps ==
  ASSUME CInv, NEW t \in Threads,
         (\E m \in Modes : Continue(t, m)) \/ Enqueue(t) \/ BeginCommit(t) \/ AbandonAction(t)
  PROVE  CInv'
<1>1. Shape  BY DEF CInv
<1>2. job \in [Threads -> Jobs] /\ Counted(state)  BY <1>1 DEF Shape
<1>3. ASSUME NEW m \in Modes, Continue(t, m)  PROVE CInv'
  <2> DEFINE j == [NoJob EXCEPT !.action = state.steps[state.index], !.mode = m]
  <2>1. state.steps[state.index] \in Names
    <3>1. state.steps \in Seq(Names) /\ state.index \in DOMAIN state.steps
      BY <1>2, <1>3 DEF Continue, Counted
    <3> QED BY <3>1, ElementOfSeq, LenProperties
  <2>2. j \in Jobs  BY <2>1, ModesAssumption DEF NoJob, Jobs
  <2>3. job' = [job EXCEPT ![t] = j] /\ copy' = copy /\ Goto(t, "chosen")
        /\ UNCHANGED <<state, gates, notes>>
    BY <1>3 DEF Continue
  <2> HIDE DEF j
  <2>4. job' \in [Threads -> Jobs] /\ \A u \in Threads \ {t} : job'[u] = job[u]
    BY <1>2, <2>2, <2>3, JobSet
  <2> QED BY <2>3, <2>4, StepKeeps, MembersOfPlaces
<1>4. CASE Enqueue(t)
  <2>1. job' \in [Threads -> Jobs] /\ \A u \in Threads \ {t} : job'[u] = job[u]
    BY ZenonT(40), <1>2, <1>4 DEF Enqueue, Jobs, Counted
  <2> QED BY <1>4, <2>1, StepKeeps, MembersOfPlaces DEF Enqueue
<1>5. CASE BeginCommit(t)
  <2>1. CASE state.rev # job[t].expected
    <3>1. job' \in [Threads -> Jobs] /\ \A u \in Threads \ {t} : job'[u] = job[u]
      BY <1>2, <1>5, <2>1, NoJobIsJob DEF BeginCommit
    <3> QED BY <1>5, <2>1, <3>1, StepKeeps, MembersOfPlaces DEF BeginCommit
  <2>2. CASE state.rev = job[t].expected
    <3>1. PICK c \in Checkpoints(job[t].action, job[t].mode), valid \in BOOLEAN :
            job' = [job EXCEPT ![t] = [job[t] EXCEPT
                      !.human = NeedsHumanGate(job[t].action, job[t].mode),
                      !.checkpoint = c, !.valid = valid]]
      BY <1>5, <2>2 DEF BeginCommit
    <3>2. c \in CheckpointNames \cup {None}  BY CheckpointsAreNames
    <3>3. NeedsHumanGate(job[t].action, job[t].mode) \in BOOLEAN  BY DEF NeedsHumanGate
    <3> DEFINE j == [job[t] EXCEPT !.human = NeedsHumanGate(job[t].action, job[t].mode),
                                   !.checkpoint = c, !.valid = valid]
    <3>4. j \in Jobs
      <4>1. job[t] \in Jobs  BY <1>2
      <4> QED BY <4>1, <3>2, <3>3 DEF Jobs
    <3>5. job' = [job EXCEPT ![t] = j]  BY <3>1
    <3> HIDE DEF j
    <3>6. job' \in [Threads -> Jobs] /\ \A u \in Threads \ {t} : job'[u] = job[u]
      BY <1>2, <3>4, <3>5, JobSet
    <3> QED BY <1>5, <2>2, <3>6, StepKeeps, MembersOfPlaces DEF BeginCommit, Read
  <2> QED BY <2>1, <2>2
<1>6. CASE AbandonAction(t)
  <2>1. job' \in [Threads -> Jobs] /\ \A u \in Threads \ {t} : job'[u] = job[u]
    BY <1>2, <1>6, NoJobIsJob DEF AbandonAction
  <2> QED BY <1>6, <2>1, StepKeeps, MembersOfPlaces DEF AbandonAction
<1> QED BY <1>3, <1>4, <1>5, <1>6

\* A decision begins under the lock about a Gate that it has seen pending.
LEMMA BeginDecideKeeps ==
  ASSUME CInv, NEW t \in Threads, NEW g \in DOMAIN gates, BeginDecide(t, g) \/ BeginMigrate(t, g)
  PROVE  CInv'
<1>1. job \in [Threads -> Jobs] /\ gates \in Seq(Rows)  BY DEF CInv, Shape
<1>2. g \in Nat /\ gates[g].status = "PENDING"
  <2>1. g \in Nat  BY <1>1, LenProperties
  <2>2. Decidable(g)  BY DEF BeginDecide, BeginMigrate
  <2> QED BY <2>1, <2>2 DEF Decidable
<1>3. \E d \in Decisions, independent \in BOOLEAN :
        job' = [job EXCEPT ![t] = [NoJob EXCEPT !.gate = g, !.decision = d,
                                                !.independent = independent]]
  <2>1. CASE BeginDecide(t, g)  BY <2>1 DEF BeginDecide
  <2>2. CASE BeginMigrate(t, g)  BY <2>2 DEF BeginMigrate, Decisions
  <2> QED BY <2>1, <2>2
<1>4. PICK d \in Decisions, independent \in BOOLEAN :
        job' = [job EXCEPT ![t] = [NoJob EXCEPT !.gate = g, !.decision = d,
                                                !.independent = independent]]
  BY <1>3
<1>5. job' \in [Threads -> Jobs] /\ job'[t].gate = g /\ \A u \in Threads \ {t} : job'[u] = job[u]
  <2> DEFINE j == [NoJob EXCEPT !.gate = g, !.decision = d, !.independent = independent]
  <2>1. j \in Jobs /\ j.gate = g  BY <1>2 DEF NoJob, Jobs, Names
  <2>2. job' = [job EXCEPT ![t] = j]  BY <1>4
  <2> HIDE DEF j
  <2> QED BY <1>1, <2>1, <2>2, JobSet
<1>6. /\ LockFree /\ Goto(t, "deciding") /\ copy' = [copy EXCEPT ![t] = state]
      /\ UNCHANGED <<state, gates, notes>>
  BY DEF BeginDecide, BeginMigrate, Read
<1> QED BY <1>2, <1>5, <1>6, StepKeeps, MembersOfPlaces

----------------------------------------------------------------------------
(* Steps that write a Gate, and restarts.                                   *)

LEMMA PutGateKeeps ==
  ASSUME CInv, NEW t \in Threads, PutGate(t)
  PROVE  /\ CInv'
         /\ \A g \in DOMAIN gates : g \in DOMAIN gates' /\ gates'[g] = gates[g]
<1>1. Shape /\ CopiesCurrent /\ OneHolder /\ DecidesPending  BY DEF CInv
<1> DEFINE row == [action |-> job[t].action, status |-> "PENDING",
                   valid |-> job[t].valid, independent |-> FALSE]
<1>2. row \in Rows  BY <1>1 DEF Shape, Jobs, Rows
<1>3. gates' = Append(gates, row)  BY DEF PutGate
<1> HIDE DEF row
<1>4. gates \in Seq(Rows) /\ Len(gates) \in Nat  BY <1>1 DEF Shape
<1>5. gates' \in Seq(Rows) /\ \A g \in DOMAIN gates : g \in DOMAIN gates' /\ gates'[g] = gates[g]
  BY <1>2, <1>3, <1>4, AppendProperties
<1>6. job' \in [Threads -> Jobs] /\ \A u \in Threads \ {t} : job'[u] = job[u]
  <2>1. job' = [job EXCEPT ![t].gate = Len(gates) + 1]  BY DEF PutGate
  <2>2. [job[t] EXCEPT !.gate = Len(gates) + 1] \in Jobs
    <3>1. job[t] \in Jobs /\ Len(gates) + 1 \in Nat  BY <1>1, <1>4 DEF Shape
    <3> QED BY <3>1 DEF Jobs
  <2> QED BY <1>1, <2>1, <2>2 DEF Shape
<1>7. pc' \in [Threads -> Places] /\ pc'[t] = "gated" /\ pc[t] = "committing"
      /\ \A u \in Threads \ {t} : pc'[u] = pc[u]
  BY <1>1, MembersOfPlaces DEF PutGate, Goto, Shape
<1>8. UNCHANGED <<state, notes, copy>>  BY DEF PutGate
<1>9. Shape'  BY <1>1, <1>5, <1>6, <1>7, <1>8 DEF Shape, Counted
<1>10. CopiesCurrent'  BY <1>1, <1>8 DEF CopiesCurrent
<1>11. OneHolder'  BY <1>1, <1>7 DEF OneHolder, Locked
<1>12. DecidesPending'  BY <1>1, <1>5, <1>6, <1>7 DEF DecidesPending
<1> QED BY <1>5, <1>9, <1>10, <1>11, <1>12 DEF CInv

LEMMA PutDecisionKeeps ==
  ASSUME CInv, NEW t \in Threads, PutDecision(t)
  PROVE  /\ CInv'
         /\ \A g \in DOMAIN gates : /\ g \in DOMAIN gates'
                                    /\ gates[g].status # "PENDING" => gates'[g] = gates[g]
<1>1. Shape /\ CopiesCurrent /\ OneHolder /\ DecidesPending  BY DEF CInv
<1> DEFINE k == job[t].gate
           row == [gates[k] EXCEPT
                     !.status = IF job[t].decision = "approve" THEN "APPROVED" ELSE "REJECTED",
                     !.independent = job[t].independent]
<1>2. pc[t] = "deciding" /\ UNCHANGED <<state, notes, copy, job>>  BY DEF PutDecision
<1>3. gates \in Seq(Rows) /\ job \in [Threads -> Jobs]  BY <1>1 DEF Shape
<1>4. k \in 1..Len(gates) /\ gates[k].status = "PENDING"  BY <1>1, <1>2, <1>3 DEF DecidesPending
<1>5. gates[k] \in Rows  BY <1>3, <1>4, ElementOfSeq
<1>6. row \in Rows  BY <1>3, <1>5 DEF Rows, Jobs
<1>7. gates' = [gates EXCEPT ![k] = row]  BY DEF PutDecision
<1> HIDE DEF row
<1>8. gates' \in Seq(Rows) /\ DOMAIN gates' = DOMAIN gates
      /\ \A g \in DOMAIN gates : gates'[g] = IF g = k THEN row ELSE gates[g]
  BY <1>3, <1>4, <1>6, <1>7, ExceptSeq
<1>9. pc' \in [Threads -> Places] /\ pc'[t] = "decided" /\ \A u \in Threads \ {t} : pc'[u] = pc[u]
  BY <1>1, MembersOfPlaces DEF PutDecision, Goto, Shape
<1>10. Shape'  BY <1>1, <1>2, <1>8, <1>9 DEF Shape, Counted
<1>11. CopiesCurrent'  BY <1>1, <1>2 DEF CopiesCurrent
<1>12. OneHolder'  BY <1>1, <1>2, <1>9 DEF OneHolder, Locked
<1>13. \A u \in Threads : pc'[u] # "deciding"
  BY <1>1, <1>2, <1>9 DEF OneHolder, Locked
<1>14. DecidesPending'  BY <1>13 DEF DecidesPending
<1> QED BY <1>4, <1>8, <1>10, <1>11, <1>12, <1>14 DEF CInv

LEMMA CrashKeeps ==
  ASSUME CInv, Crash
  PROVE  CInv'
<1>1. Shape /\ CopiesCurrent  BY DEF CInv
<1>2. /\ pc' = [t \in Threads |-> "idle"] /\ job' = [t \in Threads |-> NoJob]
      /\ copy' = [t \in Threads |-> Created] /\ UNCHANGED <<state, gates, notes>>
  BY DEF Crash
<1>3. pc' \in [Threads -> Places] /\ job' \in [Threads -> Jobs]
  BY <1>2, NoJobIsJob, MembersOfPlaces
<1>4. Shape'  BY <1>1, <1>2, <1>3, CreatedCounted DEF Shape, Counted
<1>5. CopiesCurrent'  BY <1>1, <1>2, CreatedCounted DEF CopiesCurrent, Shape, Counted
<1>6. OneHolder'  BY <1>2, PlacesOfLock DEF OneHolder
<1>7. DecidesPending'  BY <1>2 DEF DecidesPending
<1> QED BY <1>4, <1>5, <1>6, <1>7 DEF CInv

----------------------------------------------------------------------------
(* Theorems.                                                                *)

LEMMA InitEstablishes == Init => CInv
<1> SUFFICES ASSUME Init PROVE CInv  OBVIOUS
<1>1. state = Created /\ gates = <<>> /\ notes = 0 /\ copy = [t \in Threads |-> Created]
      /\ pc = [t \in Threads |-> "idle"] /\ job = [t \in Threads |-> NoJob]
  BY DEF Init
<1>2. Counted(state) /\ \A t \in Threads : copy[t] = Created /\ Counted(copy[t])
  BY <1>1, CreatedCounted DEF Counted
<1>3. gates \in Seq(Rows)  BY <1>1, EmptySeq
<1>4. pc \in [Threads -> Places] /\ job \in [Threads -> Jobs]
  BY <1>1, NoJobIsJob, MembersOfPlaces
<1>5. Shape  BY <1>1, <1>2, <1>3, <1>4 DEF Shape
<1>6. CopiesCurrent  BY <1>1, <1>2, CreatedCounted DEF CopiesCurrent
<1>7. OneHolder /\ DecidesPending  BY <1>1, PlacesOfLock DEF OneHolder, DecidesPending
<1> QED BY <1>5, <1>6, <1>7 DEF CInv

\* Every step keeps the invariant and every decision.
LEMMA StepsKeep ==
  ASSUME CInv, [Next]_vars
  PROVE  CInv' /\ DecisionsStand
<1>1. CASE UNCHANGED vars
  BY <1>1 DEF vars, CInv, Shape, CopiesCurrent, OneHolder, DecidesPending, DecisionsStand, Counted, LockFree
<1>2. CASE Crash
  BY <1>2, CrashKeeps DEF Crash, DecisionsStand
<1>3. ASSUME NEW t \in Threads, Talk(t)  PROVE CInv' /\ DecisionsStand
  <2>1. CASE \/ AskForRoute(t) \/ ReadForRoute(t) \/ ReadForTarget(t) \/ StorePrimaryData(t)
             \/ RefuseWithoutData(t) \/ ReadForNote(t) \/ ReadForAnswer(t)
    <3>1. UNCHANGED <<job, gates>>
      BY <2>1 DEF AskForRoute, ReadForRoute, ReadForTarget, StorePrimaryData, RefuseWithoutData,
                  ReadForNote, ReadForAnswer
    <3> QED BY <2>1, <3>1, ReadsKeep DEF DecisionsStand
  <2>2. CASE ChooseRoute(t) \/ SetPublicationTarget(t) \/ SaveDataStatus(t) \/ AnswerCheckpoint(t)
    <3>1. UNCHANGED gates
      BY <2>2 DEF ChooseRoute, SetPublicationTarget, SaveDataStatus, AnswerCheckpoint
    <3> QED BY <2>2, <3>1, SavesKeep DEF DecisionsStand
  <2>3. CASE TakeNote(t)
    <3>1. UNCHANGED gates  BY <2>3 DEF TakeNote
    <3> QED BY <2>3, <3>1, TakeNoteKeeps DEF DecisionsStand
  <2> QED BY <1>3, <2>1, <2>2, <2>3 DEF Talk
<1>4. ASSUME NEW t \in Threads, Work(t)  PROVE CInv' /\ DecisionsStand
  <2>1. CASE (\E m \in Modes : Continue(t, m)) \/ Enqueue(t) \/ BeginCommit(t) \/ AbandonAction(t)
    <3>1. UNCHANGED gates  BY <2>1 DEF Continue, Enqueue, BeginCommit, AbandonAction
    <3> QED BY <2>1, <3>1, WorkKeeps DEF DecisionsStand
  <2>2. CASE PutGate(t)  BY <2>2, PutGateKeeps DEF DecisionsStand
  <2>3. CASE CompleteAction(t)
    <3>1. UNCHANGED gates  BY <2>3 DEF CompleteAction
    <3> QED BY <2>3, <3>1, SavesKeep DEF DecisionsStand
  <2> QED BY <1>4, <2>1, <2>2, <2>3 DEF Work
<1>5. ASSUME NEW t \in Threads, Decide(t)  PROVE CInv' /\ DecisionsStand
  <2>1. ASSUME NEW g \in DOMAIN gates, BeginDecide(t, g) \/ BeginMigrate(t, g)
        PROVE  CInv' /\ DecisionsStand
    <3>1. UNCHANGED gates  BY <2>1 DEF BeginDecide, BeginMigrate
    <3> QED BY <2>1, <3>1, BeginDecideKeeps DEF DecisionsStand
  <2>2. CASE PutDecision(t)  BY <2>2, PutDecisionKeeps DEF DecisionsStand
  <2>3. CASE SaveDecision(t)
    <3>1. UNCHANGED gates  BY <2>3 DEF SaveDecision
    <3> QED BY <2>3, <3>1, SavesKeep DEF DecisionsStand
  <2> QED BY <1>5, <2>1, <2>2, <2>3 DEF Decide
<1> QED BY <1>1, <1>2, <1>3, <1>4, <1>5 DEF Next

THEOREM Invariance == Spec => []CInv
<1>1. Init => CInv  BY InitEstablishes
<1>2. CInv /\ [Next]_vars => CInv'  BY StepsKeep
<1> QED BY <1>1, <1>2, PTL DEF Spec

\* Every constraint that a conversation turn acknowledged is in the state,
\* however many threads save it, with the lock or without.
THEOREM NothingLost == Spec => []NoLostUpdate
<1>1. CInv => NoLostUpdate  BY DEF CInv, CopiesCurrent, NoLostUpdate
<1> QED BY <1>1, Invariance, PTL

\* No Gate is decided twice, by two requests, a migration and a request, or
\* across a restart.
THEOREM DecidedOnce == Spec => GatesDecidedOnce
<1>1. CInv /\ [Next]_vars => [DecisionsStand]_vars  BY StepsKeep
<1> QED BY <1>1, Invariance, PTL DEF Spec, GatesDecidedOnce
=============================================================================
