------------------------ MODULE CommandJournalProofs ------------------------
(***************************************************************************)
(* Proofs about CommandJournal: the inductive invariant JInv, and that a   *)
(* turn is executed once and answered consistently, for every number of    *)
(* calls, turns, contents, rows and faults.                                *)
(***************************************************************************)
EXTENDS CommandJournal, SequenceTheorems, TLAPS

\* Registering a turn adds one row and keeps the others.
LEMMA RowAdded ==
  ASSUME TypeOK, NEW t \in Turn, Len(turns) < MaxTurns, turns' = Append(turns, t)
  PROVE  /\ turns' \in Seq(Turn) /\ Len(turns') <= MaxTurns
         /\ Len(turns) + 1 \in 1..MaxTurns /\ Len(turns) + 1 \notin Rows
         /\ Rows' = Rows \cup {Len(turns) + 1}
         /\ \A i \in Rows : turns'[i] = turns[i]
         /\ turns'[Len(turns) + 1] = t
<1>1. turns \in Seq(Turn) /\ Len(turns) \in Nat /\ Rows = 1..Len(turns)
  BY LenProperties DEF TypeOK, Rows
<1>2. /\ turns' \in Seq(Turn) /\ Len(turns') = Len(turns) + 1
      /\ \A i \in 1..Len(turns) : turns'[i] = turns[i]
      /\ turns'[Len(turns) + 1] = t
  BY <1>1, AppendProperties
<1>3. Rows' = 1..(Len(turns) + 1)
  BY <1>2, LenProperties DEF Rows
<1> QED BY <1>1, <1>2, <1>3, LimitAssumption

\* An update writes the status and possibly the response of one row.
LEMMA RowUpdated ==
  ASSUME TypeOK, NEW i \in Rows, NEW r \in Response \cup {NoResponse},
         NEW st \in {"received", "processing", "completed", "failed"}, Update(i, st, r)
  PROVE  /\ turns' \in Seq(Turn) /\ Len(turns') = Len(turns) /\ Rows' = Rows
         /\ \A j \in Rows :
              /\ turns'[j].id = turns[j].id /\ turns'[j].content = turns[j].content
              /\ j # i => turns'[j] = turns[j]
              /\ j = i => turns'[j].response = IF r = NoResponse THEN turns[j].response ELSE r
<1> DEFINE new == [id |-> turns[i].id, content |-> turns[i].content, status |-> st,
                   response |-> IF r = NoResponse THEN turns[i].response ELSE r]
<1>1. turns \in Seq(Turn) /\ Rows = 1..Len(turns) /\ turns \in [1..Len(turns) -> Turn]
  BY LenProperties DEF TypeOK, Rows
<1>2. new \in Turn
  BY <1>1 DEF Turn
<1>3. turns' = [turns EXCEPT ![i] = new]
  BY DEF Update
<1>4. /\ new.id = turns[i].id /\ new.content = turns[i].content
      /\ new.response = IF r = NoResponse THEN turns[i].response ELSE r
  OBVIOUS
<1> HIDE DEF new
<1>5. /\ turns' \in Seq(Turn) /\ Len(turns') = Len(turns)
      /\ \A j \in 1..Len(turns) : turns'[j] = IF j = i THEN new ELSE turns[j]
  BY <1>1, <1>2, <1>3, ExceptSeq
<1>6. Rows' = Rows
  BY <1>1, <1>5, LenProperties DEF Rows
<1> QED BY <1>1, <1>4, <1>5, <1>6

\* The invariant holds at the start: there are no rows and no calls.
LEMMA InitInv == Init => JInv
<1> SUFFICES ASSUME Init PROVE JInv
  OBVIOUS
<1>1. turns \in Seq(Turn) /\ Len(turns) = 0 /\ Rows = {}
  BY EmptySeq, LenProperties DEF Init, Rows
<1>2. TypeOK
  BY <1>1, LimitAssumption DEF Init, TypeOK, NoJob, PCs
<1>3. RunsCounted
  BY DEF Init, RunsCounted
<1>4. OneCallPerRow /\ CallOK
  BY DEF Init, OneCallPerRow, CallOK
<1> QED BY <1>1, <1>2, <1>3, <1>4 DEF Init, JInv, IdsUnique, GivenOK

\* What a row's response and a call's outcome may be.
LEMMA Responses ==
  ASSUME JInv
  PROVE  /\ NoResponse \notin Response
         /\ \A i \in Rows : /\ turns[i] \in Turn /\ turns[i].content \in Contents
                            /\ turns[i].response \in Response \cup {NoResponse}
         /\ \A c \in Calls : pc[c] \in {"executed", "recorded"}
              => /\ Recorded(c) \in Response \cup {NoResponse}
                 /\ Recorded(c) \in {NoResponse} \cup
                                      [kind : Kinds, to : {turns[job[c].row].content}]
                 /\ Recorded(c) = NoResponse <=> job[c].outcome = "rejected"
<1>1. NoResponse \notin Response
  BY DEF NoResponse, Response, Kinds
<1>2. \A i \in Rows : turns[i] \in Turn
  BY ElementOfSeq, LenProperties DEF JInv, TypeOK, Rows
<1>3. ASSUME NEW c \in Calls, pc[c] \in {"executed", "recorded"}
      PROVE  /\ Recorded(c) \in Response \cup {NoResponse}
             /\ Recorded(c) \in {NoResponse} \cup [kind : Kinds, to : {turns[job[c].row].content}]
             /\ Recorded(c) = NoResponse <=> job[c].outcome = "rejected"
  <2>1. job[c].row \in Rows /\ job[c].outcome \in Kinds \cup {"rejected"}
    BY <1>3 DEF JInv, TypeOK, CallOK
  <2>2. turns[job[c].row].content \in Contents
    BY <1>2, <2>1 DEF Turn
  <2>3. \A k, x : k # "none" => [kind |-> k, to |-> x] # NoResponse
    BY DEF NoResponse
  <2> QED BY <2>1, <2>2, <2>3 DEF Recorded, Response, Kinds
<1> QED BY <1>1, <1>2, <1>3 DEF Turn

\* A new turn belongs to the call that registers it.
LEMMA AcceptStep ==
  ASSUME JInv, NEW c \in Calls, NEW id \in Ids \cup {NoId}, NEW content \in Contents,
         Accept(c, id, content)
  PROVE  JInv'
<1> DEFINE t == NewTurn(id, content)
           n == Len(turns) + 1
<1>1. /\ t \in Turn /\ t.id = id /\ t.content = content /\ t.response = NoResponse
  BY DEF NewTurn, Turn
<1> HIDE DEF t
<1>2. /\ turns' \in Seq(Turn) /\ Len(turns') <= MaxTurns
      /\ n \in 1..MaxTurns /\ n \notin Rows /\ Rows' = Rows \cup {n}
      /\ \A i \in Rows : turns'[i] = turns[i]
      /\ turns'[n] = t
  BY <1>1, RowAdded DEF Accept, JInv, t
<1> HIDE DEF n
<1>3. /\ pc' = [pc EXCEPT ![c] = "received"]
      /\ job' = [job EXCEPT ![c] = [row |-> n, outcome |-> "none"]]
      /\ UNCHANGED <<runs, given, faults>>
  BY DEF Accept, Goto, n
<1>4. TypeOK'
  BY <1>2, <1>3 DEF JInv, TypeOK, PCs
<1>5. IdsUnique'
  <2>1. \A i \in Rows : id # NoId => turns[i].id # id
    BY DEF Accept, RowOf
  <2> QED BY <1>1, <1>2, <2>1 DEF JInv, IdsUnique
<1>6. OneCallPerRow' /\ RunsCounted'
  BY <1>2, <1>3 DEF JInv, TypeOK, OneCallPerRow, RunsCounted
<1>7. CallOK'
  <2> SUFFICES ASSUME NEW d \in Calls
               PROVE  /\ pc'[d] \in {"received", "processing"} => runs'[job'[d].row] = 0
                      /\ pc'[d] \in {"received", "processing", "executed"}
                           => turns'[job'[d].row].response = NoResponse
                      /\ pc'[d] \in {"executed", "recorded"} => job'[d].outcome # "none"
                      /\ pc'[d] = "recorded" => turns'[job'[d].row].response = Recorded(d)'
    BY DEF CallOK
  <2>1. CASE d = c
    BY <1>1, <1>2, <1>3, <2>1 DEF JInv, TypeOK, RunsCounted
  <2>2. CASE d # c
    BY <1>2, <1>3, <2>2 DEF JInv, TypeOK, CallOK, Recorded
  <2> QED BY <2>1, <2>2
<1>8. GivenOK'
  BY <1>1, <1>2, <1>3 DEF JInv, TypeOK, GivenOK
<1> QED BY <1>4, <1>5, <1>6, <1>7, <1>8 DEF JInv

\* A step that keeps the rows, their numbers and who works on them.
LEMMA WorkKept ==
  ASSUME JInv, turns' \in Seq(Turn), Len(turns') = Len(turns), Rows' = Rows,
         \A i \in Rows : turns'[i].id = turns[i].id,
         pc' \in [Calls -> PCs], \A c \in Calls : pc'[c] # "idle" => pc[c] # "idle",
         UNCHANGED <<runs, job, given, faults>>
  PROVE  TypeOK' /\ IdsUnique' /\ OneCallPerRow' /\ RunsCounted'
<1>1. \A d \in Calls : pc'[d] # "idle" => job'[d].row \in Rows'
  BY DEF JInv, TypeOK
<1>2. given' \subseteq [row : Rows', asked : Contents, response : Response]
  BY DEF JInv, TypeOK
<1>3. job' \in [Calls -> [row : Rows' \cup {0}, outcome : Kinds \cup {"none", "rejected"}]]
  BY DEF JInv, TypeOK
<1>4. TypeOK'
  BY <1>1, <1>2, <1>3 DEF JInv, TypeOK
<1>5. IdsUnique'
  BY DEF JInv, IdsUnique
<1>6. OneCallPerRow'
  BY DEF JInv, OneCallPerRow
<1>7. RunsCounted'
  BY DEF JInv, RunsCounted
<1> QED BY <1>4, <1>5, <1>6, <1>7

\* Marking a turn as being processed leaves its response alone.
LEMMA StartStep ==
  ASSUME JInv, NEW c \in Calls, StartProcessing(c)
  PROVE  JInv'
<1> DEFINE i == job[c].row
<1>1. i \in Rows /\ turns[i].response = NoResponse /\ pc[c] = "received"
  BY DEF JInv, TypeOK, CallOK, StartProcessing
<1>2. /\ turns' \in Seq(Turn) /\ Len(turns') = Len(turns) /\ Rows' = Rows
      /\ \A j \in Rows : /\ turns'[j].id = turns[j].id
                         /\ turns'[j].content = turns[j].content
                         /\ turns'[j].response = turns[j].response
  BY <1>1, RowUpdated DEF StartProcessing, JInv
<1>3. pc' = [pc EXCEPT ![c] = "processing"] /\ UNCHANGED <<runs, job, given, faults>>
  BY DEF StartProcessing, Goto
<1>4. pc' \in [Calls -> PCs] /\ \A d \in Calls : pc'[d] # "idle" => pc[d] # "idle"
  BY <1>1, <1>3 DEF JInv, TypeOK, PCs
<1>5. TypeOK' /\ IdsUnique' /\ OneCallPerRow' /\ RunsCounted'
  BY <1>2, <1>3, <1>4, WorkKept
<1>6. CallOK'
  <2>1. \A d \in Calls : pc[d] # "idle" => job[d].row \in Rows /\ Recorded(d)' = Recorded(d)
    BY <1>2, <1>3 DEF JInv, TypeOK, Recorded
  <2> QED BY <1>1, <1>2, <1>3, <1>4, <2>1 DEF JInv, TypeOK, CallOK
<1>7. GivenOK'
  BY <1>2, <1>3 DEF JInv, TypeOK, GivenOK
<1> QED BY <1>5, <1>6, <1>7 DEF JInv

\* Only the call that created a row executes it, and only once.
LEMMA ExecuteStep ==
  ASSUME JInv, NEW c \in Calls, Execute(c)
  PROVE  JInv'
<1> DEFINE i == job[c].row
<1>0. Rows = 1..Len(turns) /\ Len(turns) \in Nat /\ Len(turns) <= MaxTurns
  BY LenProperties DEF JInv, TypeOK, Rows
<1>1. i \in Rows /\ runs[i] = 0 /\ pc[c] = "processing" /\ i \in 1..MaxTurns
  BY <1>0, LimitAssumption DEF JInv, TypeOK, CallOK, Execute
<1>2. PICK o \in {"answer", "rejected", "error"} : job' = [job EXCEPT ![c].outcome = o]
  BY DEF Execute
<1>3. /\ runs' = [runs EXCEPT ![i] = runs[i] + 1]
      /\ pc' = [pc EXCEPT ![c] = "executed"] /\ UNCHANGED <<turns, given, faults>>
  BY DEF Execute, Goto
<1>4. \A d \in Calls : /\ job'[d].row = job[d].row
                       /\ d # c => job'[d] = job[d]
                       /\ d = c => job'[d].outcome = o
  BY <1>2 DEF JInv, TypeOK
<1>5. TypeOK'
  BY <1>1, <1>2, <1>3, <1>4 DEF JInv, TypeOK, PCs, Rows, Kinds
<1>6. IdsUnique' /\ OneCallPerRow' /\ RunsCounted' /\ GivenOK'
  BY <1>1, <1>3, <1>4 DEF JInv, TypeOK, IdsUnique, OneCallPerRow, RunsCounted, GivenOK, Rows
<1>7. CallOK'
  <2> SUFFICES ASSUME NEW d \in Calls
               PROVE  /\ pc'[d] \in {"received", "processing"} => runs'[job'[d].row] = 0
                      /\ pc'[d] \in {"received", "processing", "executed"}
                           => turns'[job'[d].row].response = NoResponse
                      /\ pc'[d] \in {"executed", "recorded"} => job'[d].outcome # "none"
                      /\ pc'[d] = "recorded" => turns'[job'[d].row].response = Recorded(d)'
    BY DEF CallOK
  <2>1. CASE d = c
    BY <1>2, <1>3, <1>4, <2>1 DEF JInv, TypeOK, CallOK, Execute
  <2>2. CASE d # c
    <3>1. pc[d] # "idle" => job[d].row # i
      BY <1>1, <2>2 DEF JInv, OneCallPerRow
    <3>2. pc[d] # "idle" => runs'[job'[d].row] = runs[job[d].row]
      BY <1>3, <1>4, <2>2, <3>1 DEF JInv, TypeOK
    <3> QED BY <1>3, <1>4, <2>2, <3>2 DEF JInv, TypeOK, CallOK, Recorded
  <2> QED BY <2>1, <2>2
<1> QED BY <1>5, <1>6, <1>7 DEF JInv

\* The response of a turn is recorded by its call, once.
LEMMA RecordStep ==
  ASSUME JInv, NEW c \in Calls, Record(c)
  PROVE  JInv'
<1> DEFINE i == job[c].row
<1>1. /\ i \in Rows /\ turns[i].response = NoResponse /\ pc[c] = "executed"
      /\ job[c].outcome # "none"
  BY DEF JInv, TypeOK, CallOK, Record
<1>2. Recorded(c) \in Response \cup {NoResponse} /\ NoResponse \notin Response
      /\ Recorded(c) \in {NoResponse} \cup [kind : Kinds, to : {turns[i].content}]
  BY <1>1, Responses
<1>3. /\ turns' \in Seq(Turn) /\ Len(turns') = Len(turns) /\ Rows' = Rows
      /\ \A j \in Rows : /\ turns'[j].id = turns[j].id
                         /\ turns'[j].content = turns[j].content
                         /\ j # i => turns'[j].response = turns[j].response
                         /\ j = i => turns'[j].response = Recorded(c)
  BY <1>1, <1>2, RowUpdated DEF Record, JInv
<1>4. pc' = [pc EXCEPT ![c] = "recorded"] /\ UNCHANGED <<runs, job, given, faults>>
  BY DEF Record, Goto
<1>5. pc' \in [Calls -> PCs] /\ \A d \in Calls : pc'[d] # "idle" => pc[d] # "idle"
  BY <1>1, <1>4 DEF JInv, TypeOK, PCs
<1>6. TypeOK' /\ IdsUnique' /\ OneCallPerRow' /\ RunsCounted'
  BY <1>3, <1>4, <1>5, WorkKept
<1>7. CallOK'
  <2>1. \A d \in Calls : d # c /\ pc[d] # "idle" => job[d].row # i
    BY <1>1 DEF JInv, OneCallPerRow
  <2>2. \A d \in Calls : pc[d] # "idle" => Recorded(d)' = Recorded(d)
    BY <1>3, <1>4 DEF JInv, TypeOK, Recorded
  <2> QED BY <1>1, <1>3, <1>4, <2>1, <2>2 DEF JInv, TypeOK, CallOK
<1>8. GivenOK'
  <2>1. \A g \in given : g.row \in Rows /\ g.row # i
    BY <1>1, <1>2 DEF JInv, TypeOK, GivenOK
  <2> QED BY <1>2, <1>3, <1>4, <2>1 DEF JInv, GivenOK
<1> QED BY <1>6, <1>7, <1>8 DEF JInv

\* A response that is handed out is the recorded one.
LEMMA GiveStep ==
  ASSUME JInv, NEW i \in Rows, turns[i].response # NoResponse,
         NEW g, g = [row |-> i, asked |-> turns[i].content, response |-> turns[i].response],
         given' \in {given, given \cup {g}}, UNCHANGED <<turns, runs>>
  PROVE  given' \subseteq [row : Rows, asked : Contents, response : Response] /\ GivenOK'
<1>1. turns[i].content \in Contents /\ turns[i].response \in Response
  BY Responses
<1>2. g.row = i /\ g.asked = turns[i].content /\ g.response = turns[i].response
  OBVIOUS
<1>3. given' \subseteq [row : Rows, asked : Contents, response : Response]
  BY <1>1 DEF JInv, TypeOK
<1>4. GivenOK'
  BY <1>2 DEF JInv, GivenOK, Rows
<1> QED BY <1>3, <1>4

\* A replay hands out what the journal holds.
LEMMA ReplayStep ==
  ASSUME JInv, NEW c \in Calls, NEW id \in Ids \cup {NoId}, NEW content \in Contents,
         Replay(c, id, content)
  PROVE  JInv'
<1> PICK i \in RowOf(id) :
      /\ turns[i].content = content /\ turns[i].response # NoResponse
      /\ given' = given \cup {[row |-> i, asked |-> content, response |-> turns[i].response]}
  BY DEF Replay, SameRequest
<1>1. UNCHANGED <<turns, runs, pc, job, faults>> /\ i \in Rows
  BY DEF Replay, RowOf
<1>2. given' \subseteq [row : Rows, asked : Contents, response : Response] /\ GivenOK'
  BY <1>1, GiveStep
<1> QED BY <1>1, <1>2
        DEF JInv, TypeOK, IdsUnique, OneCallPerRow, RunsCounted, CallOK, Recorded, Rows

\* The call that executed a turn hands out what it recorded.
LEMMA ReplyStep ==
  ASSUME JInv, NEW c \in Calls, Reply(c)
  PROVE  JInv'
<1> DEFINE i == job[c].row
<1>1. i \in Rows /\ turns[i].response = Recorded(c) /\ pc[c] = "recorded"
  BY DEF Reply, JInv, TypeOK, CallOK
<1>2. pc' = [pc EXCEPT ![c] = "idle"] /\ job' = [job EXCEPT ![c] = NoJob]
      /\ UNCHANGED <<turns, runs, faults>>
  BY DEF Reply, Goto
<1>3. given' \subseteq [row : Rows, asked : Contents, response : Response] /\ GivenOK'
  <2>1. CASE job[c].outcome = "rejected"
    BY <1>2, <2>1 DEF Reply, JInv, TypeOK, GivenOK, Rows
  <2>2. CASE job[c].outcome # "rejected"
    <3>1. Recorded(c) # NoResponse
      BY <1>1, <2>2, Responses
    <3> QED BY <1>1, <1>2, <2>2, <3>1, GiveStep DEF Reply
  <2> QED BY <2>1, <2>2
<1>4. TypeOK'
  BY <1>2, <1>3 DEF JInv, TypeOK, PCs, NoJob, Rows
<1>5. IdsUnique' /\ RunsCounted'
  BY <1>2 DEF JInv, IdsUnique, RunsCounted, Rows
<1>6. \A d \in Calls : pc'[d] # "idle" => pc'[d] = pc[d] /\ job'[d] = job[d]
  BY <1>2 DEF JInv, TypeOK
<1>7. OneCallPerRow' /\ CallOK'
  BY <1>2, <1>6 DEF JInv, TypeOK, OneCallPerRow, CallOK, Recorded
<1> QED BY <1>3, <1>4, <1>5, <1>7 DEF JInv

\* A failed journal write turns the outcome into an error.
LEMMA RaiseStep ==
  ASSUME JInv, NEW c \in Calls, UpdateRaises(c)
  PROVE  JInv'
<1>1. /\ pc' = [pc EXCEPT ![c] = "executed"] /\ UNCHANGED <<turns, runs, given>>
      /\ pc[c] \in {"received", "executed"} /\ faults' \in 0..MaxFaults
  BY LimitAssumption DEF UpdateRaises, Goto, JInv, TypeOK
<1>2. \A d \in Calls : /\ job'[d].row = job[d].row
                       /\ d # c => job'[d] = job[d]
                       /\ d = c => job'[d].outcome = "error"
  BY DEF UpdateRaises, JInv, TypeOK
<1>3. job' \in [Calls -> [row : Rows \cup {0}, outcome : Kinds \cup {"none", "rejected"}]]
  BY DEF UpdateRaises, JInv, TypeOK, Kinds
<1>4. TypeOK'
  BY <1>1, <1>2, <1>3 DEF JInv, TypeOK, PCs, Rows
<1>5. IdsUnique' /\ RunsCounted' /\ GivenOK'
  BY <1>1 DEF JInv, IdsUnique, RunsCounted, GivenOK, Rows
<1>6. \A d \in Calls : pc'[d] # "idle" => pc[d] # "idle"
  BY <1>1 DEF JInv, TypeOK
<1>7. OneCallPerRow'
  BY <1>2, <1>6 DEF JInv, OneCallPerRow
<1>8. CallOK'
  <2> SUFFICES ASSUME NEW d \in Calls
               PROVE  /\ pc'[d] \in {"received", "processing"} => runs'[job'[d].row] = 0
                      /\ pc'[d] \in {"received", "processing", "executed"}
                           => turns'[job'[d].row].response = NoResponse
                      /\ pc'[d] \in {"executed", "recorded"} => job'[d].outcome # "none"
                      /\ pc'[d] = "recorded" => turns'[job'[d].row].response = Recorded(d)'
    BY DEF CallOK
  <2>1. CASE d = c
    BY <1>1, <1>2, <2>1 DEF JInv, TypeOK, CallOK
  <2>2. CASE d # c
    BY <1>1, <1>2, <2>2 DEF JInv, TypeOK, CallOK, Recorded
  <2> QED BY <2>1, <2>2
<1> QED BY <1>4, <1>5, <1>7, <1>8 DEF JInv

\* Calls that end without recording anything: a lost error, a restart.
LEMMA EndStep ==
  ASSUME JInv, UNCHANGED <<turns, runs, given>>, faults' \in 0..MaxFaults,
         pc' \in [Calls -> PCs],
         job' \in [Calls -> [row : Rows \cup {0}, outcome : Kinds \cup {"none", "rejected"}]],
         \A d \in Calls : pc'[d] # "idle" => pc'[d] = pc[d] /\ job'[d] = job[d]
  PROVE  JInv'
<1>1. TypeOK'
  BY DEF JInv, TypeOK, Rows
<1>2. IdsUnique' /\ RunsCounted' /\ GivenOK'
  BY DEF JInv, IdsUnique, RunsCounted, GivenOK, Rows
<1>3. OneCallPerRow'
  BY DEF JInv, OneCallPerRow
<1>4. CallOK'
  BY DEF JInv, CallOK, Recorded
<1> QED BY <1>1, <1>2, <1>3, <1>4 DEF JInv

\* Every step preserves the inductive invariant.
LEMMA InvStep == JInv /\ [Next]_vars => JInv'
<1> SUFFICES ASSUME JInv, [Next]_vars PROVE JInv'
  OBVIOUS
<1>1. ASSUME NEW c \in Calls, Arrive(c) PROVE JInv'
  <2> PICK id \in Ids \cup {NoId}, content \in Contents :
        Accept(c, id, content) \/ Replay(c, id, content) \/ Wait(c, id, content)
    BY <1>1 DEF Arrive
  <2>1. CASE Accept(c, id, content)
    BY <2>1, AcceptStep
  <2>2. CASE Replay(c, id, content)
    BY <2>2, ReplayStep
  <2>3. CASE Wait(c, id, content)
    BY <2>3, EndStep DEF Wait, vars, JInv, TypeOK
  <2> QED BY <2>1, <2>2, <2>3
<1>2. ASSUME NEW c \in Calls, Step(c) PROVE JInv'
  BY <1>2, StartStep, ExecuteStep, RecordStep, ReplyStep DEF Step
<1>3. ASSUME NEW c \in Calls, UpdateRaises(c) PROVE JInv'
  BY <1>3, RaiseStep
<1>4. ASSUME NEW c \in Calls, ErrorIsLost(c) PROVE JInv'
  BY <1>4, EndStep, LimitAssumption DEF ErrorIsLost, Goto, JInv, TypeOK, PCs, NoJob
<1>5. CASE Crash
  BY <1>5, EndStep, LimitAssumption DEF Crash, JInv, TypeOK, PCs, NoJob
<1>6. CASE UNCHANGED vars
  BY <1>6, EndStep DEF vars, JInv, TypeOK
<1> QED BY <1>1, <1>2, <1>3, <1>4, <1>5, <1>6 DEF Next

\* The inductive invariant holds in every reachable state.
THEOREM Invariance == Spec => []JInv
<1> QED BY InitInv, InvStep, PTL DEF Spec

\* A numbered turn is executed at most once.
THEOREM ExecutedOnce == Spec => []RunsOnce
<1>1. JInv => RunsOnce
  <2> SUFFICES ASSUME JInv PROVE RunsOnce
    OBVIOUS
  <2>1. Rows = 1..Len(turns) /\ Len(turns) \in Nat /\ Len(turns) <= MaxTurns
    BY LenProperties DEF JInv, TypeOK, Rows
  <2>2. \A i \in Rows : runs[i] <= 1
    BY <2>1, LimitAssumption DEF JInv, RunsCounted
  <2> QED BY <2>2 DEF RunsOnce, JInv, IdsUnique
<1> QED BY <1>1, Invariance, PTL

\* All callers of a turn are given the one response to what they asked.
THEOREM AnswersConsistent == Spec => []AnswersAgree
<1>1. JInv => AnswersAgree
  <2> SUFFICES ASSUME JInv, NEW g \in given
               PROVE  g.response.to = g.asked /\ \A h \in given : g.row = h.row => g.response = h.response
    BY DEF AnswersAgree
  <2>1. g.row \in Rows /\ g.response \in Response /\ NoResponse \notin Response
    BY Responses DEF JInv, TypeOK
  <2>2. g.response \in [kind : Kinds, to : {turns[g.row].content}]
    BY <2>1 DEF JInv, GivenOK
  <2> QED BY <2>2 DEF JInv, GivenOK
<1> QED BY <1>1, Invariance, PTL

----------------------------------------------------------------------------
(* The journal implements TurnOnce. *)

\* A number that names a row names no other: its response is the row's.
LEMMA RowResponse ==
  ASSUME JInv, NEW i \in Rows, turns[i].id # NoId
  PROVE  RowOf(turns[i].id) = {i} /\ ResponseOf(turns[i].id) = turns[i].response
<1>1. RowOf(turns[i].id) = {i}
  BY DEF JInv, IdsUnique, RowOf
<1>2. (CHOOSE j \in RowOf(turns[i].id) : TRUE) = i
  BY <1>1
<1> QED BY <1>1, <1>2 DEF ResponseOf

\* A step that keeps rows, runs and responses changes nothing that TurnOnce sees.
LEMMA Unseen ==
  ASSUME UNCHANGED <<runs, given>>, Rows' = Rows, given \subseteq [row : Rows, asked : Contents, response : Response],
         \A i \in Rows : turns'[i].id = turns[i].id /\ turns'[i].response = turns[i].response
  PROVE  UNCHANGED Promise!vars
<1>1. \A id : RowOf(id)' = RowOf(id)
  BY DEF RowOf
<1>2. Ran' = Ran
  BY <1>1 DEF Ran
<1>3. \A id : ResponseOf(id)' = ResponseOf(id)
  <2> SUFFICES ASSUME NEW id PROVE ResponseOf(id)' = ResponseOf(id)
    OBVIOUS
  <2>1. \A i \in RowOf(id) : i \in Rows
    BY DEF RowOf
  <2>2. CASE RowOf(id) = {}
    BY <1>1, <2>2 DEF ResponseOf
  <2>3. CASE RowOf(id) # {}
    <3>1. (CHOOSE i \in RowOf(id) : TRUE) \in RowOf(id)
      BY <2>3
    <3> QED BY <1>1, <2>1, <3>1 DEF ResponseOf
  <2> QED BY <2>2, <2>3
<1>4. Results' = Results
  BY <1>3 DEF Results
<1>5. Given' = Given
  BY DEF Given
<1> QED BY <1>2, <1>4, <1>5 DEF Promise!vars

\* A new row has neither run nor been answered.
LEMMA AcceptUnseen ==
  ASSUME JInv, NEW c \in Calls, NEW id \in Ids \cup {NoId}, NEW content \in Contents,
         Accept(c, id, content)
  PROVE  UNCHANGED Promise!vars
<1> DEFINE t == NewTurn(id, content)
           n == Len(turns) + 1
<1>1. t \in Turn /\ t.id = id /\ t.response = NoResponse
  BY DEF NewTurn, Turn
<1> HIDE DEF t
<1>2. /\ n \notin Rows /\ Rows' = Rows \cup {n} /\ n \in 1..MaxTurns
      /\ \A i \in Rows : turns'[i] = turns[i]
      /\ turns'[n] = t
  BY <1>1, RowAdded DEF Accept, JInv, t
<1>3. runs[n] = 0 /\ UNCHANGED <<runs, given>>
  BY <1>2 DEF JInv, RunsCounted, Accept
<1> HIDE DEF n
<1>4. \A i \in Rows : id # NoId => turns[i].id # id
  BY DEF Accept, RowOf
<1>5. \A k : k # id \/ id = NoId => RowOf(k)' = RowOf(k)
  BY <1>1, <1>2 DEF RowOf
<1>6. id # NoId => RowOf(id)' = {n} /\ RowOf(id) = {}
  BY <1>1, <1>2, <1>4 DEF RowOf
<1>7. Ran' = Ran
  <2> SUFFICES ASSUME NEW k \in Ids
               PROVE  (\E i \in RowOf(k)' : runs'[i] > 0) <=> \E i \in RowOf(k) : runs[i] > 0
    BY DEF Ran
  <2>1. CASE k # id \/ id = NoId
    BY <1>3, <1>5, <2>1
  <2>2. CASE k = id /\ id # NoId
    BY <1>3, <1>6, <2>2
  <2> QED BY <2>1, <2>2
<1>8. Results' = Results
  <2> SUFFICES ASSUME NEW k \in Ids PROVE ResponseOf(k)' = ResponseOf(k)
    BY DEF Results
  <2>1. CASE k # id \/ id = NoId
    <3>1. RowOf(k)' = RowOf(k) /\ \A i \in RowOf(k) : turns'[i] = turns[i]
      BY <1>2, <1>5, <2>1 DEF RowOf
    <3>2. CASE RowOf(k) = {}
      BY <3>1, <3>2 DEF ResponseOf
    <3>3. CASE RowOf(k) # {}
      <4>1. (CHOOSE i \in RowOf(k) : TRUE) \in RowOf(k)
        BY <3>3
      <4> QED BY <3>1, <4>1 DEF ResponseOf
    <3> QED BY <3>2, <3>3
  <2>2. CASE k = id /\ id # NoId
    BY <1>1, <1>2, <1>6, <2>2 DEF ResponseOf
  <2> QED BY <2>1, <2>2
<1>9. Given' = Given
  <2>1. \A g \in given : turns'[g.row] = turns[g.row]
    BY <1>2 DEF JInv, TypeOK
  <2> QED BY <1>3, <2>1 DEF Given
<1> QED BY <1>7, <1>8, <1>9 DEF Promise!vars

\* Executing a numbered turn is the Run of its number.
LEMMA ExecuteRuns ==
  ASSUME JInv, NEW c \in Calls, Execute(c)
  PROVE  [Promise!Next]_(Promise!vars)
<1> DEFINE i == job[c].row
           id == turns[i].id
<1>0. Rows = 1..Len(turns) /\ Len(turns) \in Nat /\ Len(turns) <= MaxTurns
  BY LenProperties DEF JInv, TypeOK, Rows
<1>1. /\ i \in Rows /\ runs[i] = 0 /\ i \in 1..MaxTurns /\ turns[i].response = NoResponse
      /\ runs \in [1..MaxTurns -> Nat] /\ id \in Ids \cup {NoId}
  BY <1>0, Responses, LimitAssumption DEF JInv, TypeOK, CallOK, Execute, Turn
<1>2. /\ UNCHANGED <<turns, given>>
      /\ \A j \in Rows : runs'[j] = IF j = i THEN 1 ELSE runs[j]
  BY <1>0, <1>1 DEF Execute
<1>3. Results' = Results /\ Given' = Given
  BY <1>2 DEF Results, Given, ResponseOf, RowOf, Rows
<1>4. \A k : RowOf(k)' = RowOf(k)
  BY <1>2 DEF RowOf, Rows
<1>5. CASE id = NoId
  <2>1. \A k \in Ids : i \notin RowOf(k) /\ RowOf(k) \subseteq Rows
    BY <1>5, IdsAssumption DEF RowOf
  <2>2. Ran' = Ran
    BY <1>2, <1>4, <2>1 DEF Ran
  <2> QED BY <1>3, <2>2 DEF Promise!vars
<1>6. CASE id \in Ids
  <2>1. RowOf(id) = {i} /\ ResponseOf(id) = NoResponse
    BY <1>1, <1>6, RowResponse, IdsAssumption
  <2>2. id \notin Ran /\ Results[id] = NoResponse
    BY <1>1, <1>6, <2>1 DEF Ran, Results
  <2>3. \A k \in Ids : k # id => i \notin RowOf(k) /\ RowOf(k) \subseteq Rows
    BY DEF RowOf
  <2>4. Ran' = Ran \cup {id}
    BY <1>1, <1>2, <1>4, <1>6, <2>1, <2>3 DEF Ran
  <2> QED BY <1>3, <1>6, <2>2, <2>4 DEF Promise!Next, Promise!Run
<1> QED BY <1>1, <1>5, <1>6

\* Recording a response settles the result of its number.
LEMMA RecordSettles ==
  ASSUME JInv, NEW c \in Calls, Record(c)
  PROVE  [Promise!Next]_(Promise!vars)
<1> DEFINE i == job[c].row
           id == turns[i].id
<1>1. /\ i \in Rows /\ turns[i].response = NoResponse /\ pc[c] = "executed"
      /\ id \in Ids \cup {NoId}
  BY Responses DEF JInv, TypeOK, CallOK, Record, Turn
<1>2. Recorded(c) \in Response \cup {NoResponse} /\ NoResponse \notin Response
  BY <1>1, Responses
<1>3. /\ Rows' = Rows
      /\ \A j \in Rows : /\ turns'[j].id = turns[j].id
                         /\ j # i => turns'[j].response = turns[j].response
                         /\ j = i => turns'[j].response = Recorded(c)
      /\ UNCHANGED <<runs, given>>
  BY <1>1, <1>2, RowUpdated DEF Record, JInv
<1>4. CASE Recorded(c) = NoResponse
  BY <1>1, <1>3, <1>4, Unseen DEF JInv, TypeOK
<1>5. \A k : RowOf(k)' = RowOf(k)
  BY <1>3 DEF RowOf
<1>6. Ran' = Ran
  BY <1>3, <1>5 DEF Ran
<1>7. Given' = Given
  <2>1. \A g \in given : g.row \in Rows
    BY DEF JInv, TypeOK
  <2> QED BY <1>3, <2>1 DEF Given
<1>8. \A k \in Ids : i \notin RowOf(k) => ResponseOf(k)' = ResponseOf(k)
  <2> SUFFICES ASSUME NEW k \in Ids, i \notin RowOf(k) PROVE ResponseOf(k)' = ResponseOf(k)
    OBVIOUS
  <2>1. \A j \in RowOf(k) : turns'[j].response = turns[j].response
    BY <1>3 DEF RowOf
  <2>2. CASE RowOf(k) = {}
    BY <1>5, <2>2 DEF ResponseOf
  <2>3. CASE RowOf(k) # {}
    <3>1. (CHOOSE j \in RowOf(k) : TRUE) \in RowOf(k)
      BY <2>3
    <3> QED BY <1>5, <2>1, <3>1 DEF ResponseOf
  <2> QED BY <2>2, <2>3
<1>9. CASE id = NoId
  <2>1. Results' = Results
    BY <1>8, <1>9, IdsAssumption DEF Results, RowOf
  <2> QED BY <1>6, <1>7, <2>1 DEF Promise!vars
<1>10. CASE id \in Ids /\ Recorded(c) # NoResponse
  <2> PICK k \in Ids : k = id
    BY <1>10
  <2>1. RowOf(k) = {i} /\ Results[k] = NoResponse
    BY <1>1, <1>10, RowResponse, IdsAssumption DEF Results
  <2>2. ResponseOf(k)' = Recorded(c)
    <3>1. RowOf(k)' = {i} /\ turns'[i].response = Recorded(c)
      BY <1>1, <1>3, <1>5, <2>1
    <3>2. ~ \A j \in {i} : turns'[j].response = NoResponse
      BY <1>10, <3>1
    <3>3. (CHOOSE j \in {i} : TRUE) = i
      OBVIOUS
    <3> QED BY <3>1, <3>2, <3>3 DEF ResponseOf
  <2>3. \A l \in Ids : l # k => i \notin RowOf(l)
    BY DEF RowOf
  <2>4. Results' = [Results EXCEPT ![k] = Recorded(c)]
    <3>1. Results' = [l \in Ids |-> ResponseOf(l)']
      BY DEF Results
    <3>2. \A l \in Ids : ResponseOf(l)' = IF l = k THEN Recorded(c) ELSE ResponseOf(l)
      BY <1>8, <2>2, <2>3
    <3>3. Results = [l \in Ids |-> ResponseOf(l)]
      BY DEF Results
    <3> QED BY <3>1, <3>2, <3>3
  <2>5. Promise!Settle(k)
    BY <1>2, <1>6, <1>7, <1>10, <2>1, <2>4 DEF Promise!Settle
  <2> QED BY <2>5 DEF Promise!Next
<1> QED BY <1>1, <1>4, <1>9, <1>10

\* Handing out the response of a numbered turn gives its result.
LEMMA HandingOutGives ==
  ASSUME JInv, NEW i \in Rows, turns[i].response # NoResponse,
         NEW g, g = [row |-> i, asked |-> turns[i].content, response |-> turns[i].response],
         given' = given \cup {g}, UNCHANGED <<turns, runs>>
  PROVE  [Promise!Next]_(Promise!vars)
<1> DEFINE id == turns[i].id
<1>1. g.row = i /\ g.response = turns[i].response /\ id \in Ids \cup {NoId}
  BY Responses DEF Turn
<1>2. Ran' = Ran /\ Results' = Results
  BY DEF Ran, Results, ResponseOf, RowOf, Rows
<1>3. CASE id = NoId
  <2>1. Given' = Given
    BY <1>1, <1>3 DEF Given
  <2> QED BY <1>2, <2>1 DEF Promise!vars
<1>4. CASE id \in Ids
  <2>1. Results[id] = turns[i].response
    BY <1>4, RowResponse, IdsAssumption DEF Results
  <2>2. Given' = Given \cup {[id |-> id, result |-> Results[id]]}
    BY <1>1, <1>4, <2>1, IdsAssumption DEF Given
  <2>3. Promise!Give(id)
    BY <1>2, <2>1, <2>2 DEF Promise!Give
  <2> QED BY <1>4, <2>3 DEF Promise!Next
<1> QED BY <1>1, <1>3, <1>4

\* Every step of the journal is a step of TurnOnce, or none.
LEMMA PromiseStep == JInv /\ [Next]_vars => [Promise!Next]_(Promise!vars)
<1> SUFFICES ASSUME JInv, [Next]_vars PROVE [Promise!Next]_(Promise!vars)
  OBVIOUS
<1>0. given \subseteq [row : Rows, asked : Contents, response : Response]
  BY DEF JInv, TypeOK
<1>1. ASSUME NEW c \in Calls, Arrive(c) PROVE [Promise!Next]_(Promise!vars)
  <2> PICK id \in Ids \cup {NoId}, content \in Contents :
        Accept(c, id, content) \/ Replay(c, id, content) \/ Wait(c, id, content)
    BY <1>1 DEF Arrive
  <2>1. CASE Accept(c, id, content)
    BY <2>1, AcceptUnseen
  <2>2. CASE Replay(c, id, content)
    <3> PICK i \in RowOf(id) :
          /\ turns[i].content = content /\ turns[i].response # NoResponse
          /\ given' = given \cup {[row |-> i, asked |-> content, response |-> turns[i].response]}
      BY <2>2 DEF Replay, SameRequest
    <3>1. i \in Rows /\ UNCHANGED <<turns, runs>>
      BY <2>2 DEF Replay, RowOf
    <3> QED BY <3>1, HandingOutGives
  <2>3. CASE Wait(c, id, content)
    BY <1>0, <2>3, Unseen DEF Wait, vars, Rows
  <2> QED BY <2>1, <2>2, <2>3
<1>2. ASSUME NEW c \in Calls, StartProcessing(c) PROVE [Promise!Next]_(Promise!vars)
  <2>1. job[c].row \in Rows
    BY <1>2 DEF StartProcessing, JInv, TypeOK
  <2>2. /\ Rows' = Rows
        /\ \A j \in Rows : turns'[j].id = turns[j].id /\ turns'[j].response = turns[j].response
    BY <1>2, <2>1, RowUpdated DEF StartProcessing, JInv
  <2> QED BY <1>0, <1>2, <2>2, Unseen DEF StartProcessing
<1>3. ASSUME NEW c \in Calls, Execute(c) \/ Record(c) PROVE [Promise!Next]_(Promise!vars)
  BY <1>3, ExecuteRuns, RecordSettles
<1>4. ASSUME NEW c \in Calls, Reply(c) PROVE [Promise!Next]_(Promise!vars)
  <2>1. job[c].row \in Rows /\ turns[job[c].row].response = Recorded(c)
    BY <1>4 DEF Reply, JInv, TypeOK, CallOK
  <2>2. UNCHANGED <<turns, runs>>
    BY <1>4 DEF Reply
  <2>3. CASE job[c].outcome = "rejected"
    BY <1>0, <1>4, <2>2, <2>3, Unseen DEF Reply, Rows
  <2>4. CASE job[c].outcome # "rejected"
    <3>1. Recorded(c) # NoResponse
      BY <1>4, <2>4, Responses DEF Reply
    <3> QED BY <1>4, <2>1, <2>2, <2>4, <3>1, HandingOutGives DEF Reply
  <2> QED BY <2>3, <2>4
<1>5. ASSUME NEW c \in Calls, UpdateRaises(c) \/ ErrorIsLost(c)
      PROVE  [Promise!Next]_(Promise!vars)
  BY <1>0, <1>5, Unseen DEF UpdateRaises, ErrorIsLost, Rows
<1>6. CASE Crash
  BY <1>0, <1>6, Unseen DEF Crash, Rows
<1>7. CASE UNCHANGED vars
  BY <1>0, <1>7, Unseen DEF vars, Rows
<1> QED BY <1>1, <1>2, <1>3, <1>4, <1>5, <1>6, <1>7 DEF Next, Step

\* The journal implements TurnOnce: a numbered turn is run once, gets one
\* result, and is given no other.
THEOREM JournalKeepsPromise == Spec => KeepsPromise
<1>1. Init => Promise!Init
  <2> SUFFICES ASSUME Init PROVE Promise!Init
    OBVIOUS
  <2>1. Rows = {} /\ given = {}
    BY EmptySeq, LenProperties DEF Init, Rows
  <2>2. \A id : RowOf(id) = {}
    BY <2>1 DEF RowOf
  <2> QED BY <2>1, <2>2 DEF Promise!Init, Ran, Results, Given, ResponseOf
<1> QED BY <1>1, PromiseStep, Invariance, PTL DEF Spec, KeepsPromise, Promise!Spec
=============================================================================
