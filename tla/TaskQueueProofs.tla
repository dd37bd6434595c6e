--------------------------- MODULE TaskQueueProofs ---------------------------
(***************************************************************************)
(* Proofs about TaskQueue: the type invariant, the inductive invariant IInv *)
(* and the safety properties it implies, for every number of threads,      *)
(* users, steps, attempts, revisions, rows and faults.                     *)
(***************************************************************************)
EXTENDS TaskQueue, SequenceTheorems, TLAPS

\* Writing one row of the table keeps its length, its type and the other rows.
LEMMA RowWritten ==
  ASSUME tasks \in Seq(Row), NEW i \in Rows, NEW r \in Row,
         tasks' = [tasks EXCEPT ![i] = r]
  PROVE  /\ tasks' \in Seq(Row)
         /\ Len(tasks') = Len(tasks)
         /\ Rows' = Rows
         /\ \A j \in Rows : tasks'[j] = IF j = i THEN r ELSE tasks[j]
<1>1. /\ tasks \in [1..Len(tasks) -> Row] /\ Rows = 1..Len(tasks) /\ Len(tasks) \in Nat
  BY LenProperties DEF Rows
<1>2. i \in 1..Len(tasks)
  BY <1>1
<1>3. /\ tasks' \in Seq(Row) /\ Len(tasks') = Len(tasks)
      /\ \A j \in 1..Len(tasks) : tasks'[j] = IF j = i THEN r ELSE tasks[j]
  BY <1>2, ExceptSeq
<1>4. DOMAIN tasks' = 1..Len(tasks')
  BY <1>3, LenProperties
<1> QED BY <1>1, <1>3, <1>4 DEF Rows

\* Enqueueing keeps the rows there are; a row it adds is QUEUED and has a key
\* no other row has.
LEMMA RowEnqueued ==
  ASSUME tasks \in Seq(Row), NEW key \in Key, Enqueue(key), NoOne \notin Users,
         Len(tasks) <= MaxTasks
  PROVE  /\ tasks' \in Seq(Row)
         /\ Len(tasks') <= MaxTasks
         /\ Rows \subseteq Rows'
         /\ \A j \in Rows : tasks'[j] = tasks[j]
         /\ \A j \in Rows' \ Rows :
              /\ tasks'[j] = [key |-> key, column |-> "QUEUED", body |-> NewBody]
              /\ \A k \in Rows' : tasks'[k].key = key => k = j
<1>1. CASE UNCHANGED tasks
  BY <1>1 DEF Rows
<1>2. CASE /\ \A i \in Rows : tasks[i].key # key
           /\ Len(tasks) < MaxTasks
           /\ tasks' = Append(tasks, [key |-> key, column |-> "QUEUED", body |-> NewBody])
  <2> DEFINE r == [key |-> key, column |-> "QUEUED", body |-> NewBody]
  <2>1. NewBody \in Body
    BY BoundAssumption DEF NewBody, Body, Status, Pending, Terminal, Retryable
  <2>2. r \in Row
    BY <2>1 DEF Row, Status, Pending
  <2>3. /\ tasks' \in Seq(Row) /\ Len(tasks') = Len(tasks) + 1
        /\ \A j \in 1..Len(tasks) : tasks'[j] = tasks[j]
        /\ tasks'[Len(tasks) + 1] = r
    BY <1>2, <2>2, AppendProperties
  <2>4. /\ Rows = 1..Len(tasks) /\ Len(tasks) \in Nat
        /\ Rows' = 1..(Len(tasks) + 1)
    BY <2>3, LenProperties DEF Rows
  <2>5. Len(tasks') <= MaxTasks
    BY <1>2, <2>3, <2>4, BoundAssumption
  <2>6. Rows' \ Rows = {Len(tasks) + 1}
    BY <2>4
  <2>7. \A k \in Rows' : tasks'[k].key = key => k = Len(tasks) + 1
    BY <1>2, <2>3, <2>4
  <2> QED BY <2>3, <2>4, <2>5, <2>6, <2>7
<1> QED BY <1>1, <1>2 DEF Enqueue

----------------------------------------------------------------------------
(* The type invariant. *)

\* The type invariant holds of the empty table.
LEMMA InitType == Init => TypeOK
<1> SUFFICES ASSUME Init PROVE TypeOK
  OBVIOUS
<1>1. NewBody \in Body
  BY BoundAssumption DEF NewBody, Body, Status, Pending, Terminal, Retryable
<1>2. tasks \in Seq(Row) /\ Len(tasks) = 0
  BY EmptySeq DEF Init
<1> QED BY <1>1, <1>2, StepAssumption, BoundAssumption
        DEF Init, TypeOK, TablesType, SeenType, LeaseType, BeatType, PCs, Working, NothingSeen, NoLease, NoBeat

\* Rows are never removed and keep their keys.
RowsKept == /\ Rows \subseteq Rows'
            /\ \A i \in Rows : tasks'[i].key = tasks[i].key

\* A thread's own copy, written over its row.
LEMMA WriteRowEffect ==
  ASSUME TypeOK, NEW t \in Threads, pc[t] \in Working, WriteRow(t)
  PROVE  /\ tasks' \in Seq(Row) /\ Len(tasks') <= MaxTasks
         /\ Rows' = Rows
         /\ \A j \in Rows :
              tasks'[j] = IF j = lease[t].task
                          THEN [key |-> tasks[j].key, column |-> lease[t].body.status,
                                body |-> lease[t].body]
                          ELSE tasks[j]
<1> DEFINE i == lease[t].task
           r == [key |-> tasks[i].key, column |-> lease[t].body.status,
                 body |-> lease[t].body]
<1>1. i \in Rows /\ tasks \in Seq(Row) /\ Len(tasks) <= MaxTasks /\ lease[t].body \in Body
  BY DEF TypeOK, TablesType, SeenType, LeaseType
<1>2. tasks[i] \in Row
  BY <1>1, ElementOfSeq, LenProperties DEF Rows
<1>3. r \in Row
  BY <1>1, <1>2 DEF Row, Body
<1>4. tasks' = [tasks EXCEPT ![i] = r]
  BY DEF WriteRow
<1>5. /\ tasks' \in Seq(Row) /\ Len(tasks') = Len(tasks) /\ Rows' = Rows
      /\ \A j \in Rows : tasks'[j] = IF j = i THEN r ELSE tasks[j]
  BY <1>1, <1>3, <1>4, RowWritten
<1> QED BY <1>1, <1>5

\* A new body for one row, whose status column stays.
LEMMA BodyEffect ==
  ASSUME TypeOK, NEW i \in Rows, NEW b \in Body, tasks' = [tasks EXCEPT ![i].body = b]
  PROVE  /\ tasks' \in Seq(Row) /\ Len(tasks') <= MaxTasks
         /\ Rows' = Rows
         /\ \A j \in Rows :
              tasks'[j] = IF j = i THEN [tasks[j] EXCEPT !.body = b] ELSE tasks[j]
<1>1. tasks \in Seq(Row) /\ Len(tasks) <= MaxTasks
  BY DEF TypeOK, TablesType, SeenType, LeaseType
<1>2. tasks[i] \in Row
  BY <1>1, ElementOfSeq, LenProperties DEF Rows
<1>3. [tasks[i] EXCEPT !.body = b] \in Row
  BY <1>2 DEF Row
<1>4. tasks' = [tasks EXCEPT ![i] = [tasks[i] EXCEPT !.body = b]]
  BY <1>2 DEF Row
<1> QED BY <1>1, <1>3, <1>4, RowWritten

\* Enqueueing under the key a thread or a retry computes.
LEMMA EnqueueEffect ==
  ASSUME TypeOK, NEW key \in Key, Enqueue(key)
  PROVE  /\ tasks' \in Seq(Row) /\ Len(tasks') <= MaxTasks
         /\ Rows \subseteq Rows'
         /\ \A j \in Rows : tasks'[j] = tasks[j]
         /\ \A j \in Rows' \ Rows :
              /\ tasks'[j] = [key |-> key, column |-> "QUEUED", body |-> NewBody]
              /\ \A k \in Rows' : tasks'[k].key = key => k = j
BY RowEnqueued, OwnerAssumption DEF TypeOK, TablesType, SeenType, LeaseType

\* The facts of TypeOK that a step which writes no task table relies on.
LEMMA KeysTyped ==
  ASSUME TypeOK
  PROVE  /\ \A i \in Rows : tasks[i] \in Row /\ RetryKey(i) \in Key
         /\ \A t \in Threads : pc[t] = "enqueue" => KeyToEnqueue(t) \in Key
<1>1. \A i \in Rows : tasks[i] \in Row
  BY ElementOfSeq, LenProperties DEF TypeOK, TablesType, SeenType, LeaseType, Rows
<1>2. \A i \in Rows : RetryKey(i) \in Key
  BY <1>1 DEF TypeOK, TablesType, SeenType, LeaseType, RetryKey, Row, Key, Hash
<1>3. \A t \in Threads : pc[t] = "enqueue" => KeyToEnqueue(t) \in Key
  <2> SUFFICES ASSUME NEW t \in Threads, pc[t] = "enqueue" PROVE KeyToEnqueue(t) \in Key
    OBVIOUS
  <2>1. seen[t].rev \in 1..MaxRevision /\ seen[t].step \in 1..LastStep
    BY StepAssumption, BoundAssumption DEF TypeOK, TablesType, SeenType, LeaseType
  <2> QED BY <2>1 DEF TypeOK, TablesType, SeenType, LeaseType, KeyToEnqueue, Key, Hash
<1> QED BY <1>1, <1>2, <1>3

\* A claim gives a row a well-formed body: the attempt count saturates.
LEMMA ClaimedTyped ==
  ASSUME TypeOK, NEW i \in Rows, NEW t \in Threads
  PROVE  Claimed(i, t) \in Body
<1>1. tasks[i].body \in Body
  BY KeysTyped DEF Row
<1> QED BY <1>1, OwnerAssumption, BoundAssumption
        DEF Claimed, Body, Status, Pending

\* Time changes two flags of a body.
LEMMA ClockEffect ==
  ASSUME TypeOK, NEW i \in Rows, Clock(i)
  PROVE  \E b \in Body :
           /\ b.status = tasks[i].body.status
           /\ tasks' = [tasks EXCEPT ![i].body = b]
           /\ tasks' \in Seq(Row) /\ Len(tasks') <= MaxTasks
           /\ Rows' = Rows
           /\ \A j \in Rows :
                tasks'[j] = IF j = i THEN [tasks[j] EXCEPT !.body = b] ELSE tasks[j]
<1>1. tasks[i] \in Row /\ tasks[i].body \in Body
  BY KeysTyped DEF Row
<1>2. CASE LeaseExpires(i)
  <2> DEFINE b == [tasks[i].body EXCEPT !.live = FALSE]
  <2>1. b \in Body /\ b.status = tasks[i].body.status
    BY <1>1 DEF Body
  <2>2. tasks' = [tasks EXCEPT ![i].body = b]
    BY <1>2 DEF LeaseExpires
  <2> QED BY <2>1, <2>2, BodyEffect
<1>3. CASE BackoffElapses(i)
  <2> DEFINE b == [tasks[i].body EXCEPT !.backoff = FALSE]
  <2>1. b \in Body /\ b.status = tasks[i].body.status
    BY <1>1 DEF Body
  <2>2. tasks' = [tasks EXCEPT ![i].body = b]
    BY <1>3 DEF BackoffElapses
  <2> QED BY <2>1, <2>2, BodyEffect
<1> QED BY <1>2, <1>3 DEF Clock

\* A renewal writes the body it read.
LEMMA BeatWriteEffect ==
  ASSUME TypeOK, NEW t \in Threads, BeatWrite(t)
  PROVE  /\ tasks' \in Seq(Row) /\ Len(tasks') <= MaxTasks
         /\ Rows' = Rows
         /\ \A j \in Rows :
              tasks'[j] = IF j = beat[t].task
                          THEN [key |-> tasks[j].key, column |-> tasks[j].column,
                                body |-> beat[t].body]
                          ELSE tasks[j]
<1>1. beat[t].task \in Rows /\ beat[t].body \in Body
  BY DEF BeatWrite, TypeOK, BeatType
<1>2. /\ tasks' \in Seq(Row) /\ Len(tasks') <= MaxTasks /\ Rows' = Rows
      /\ \A j \in Rows :
           tasks'[j] = IF j = beat[t].task
                       THEN [tasks[j] EXCEPT !.body = beat[t].body] ELSE tasks[j]
  BY <1>1, BodyEffect DEF BeatWrite
<1> QED BY <1>2, KeysTyped DEF Row

\* Every action preserves the type invariant.
LEMMA TypeStep == TypeOK /\ [Next]_vars => TypeOK'
<1> SUFFICES ASSUME TypeOK, [Next]_vars PROVE TypeOK'
  OBVIOUS
<1> USE StepAssumption, BoundAssumption
<1>0. NewBody \in Body /\ NoLease = [task |-> 0, body |-> NewBody]
  BY DEF NewBody, Body, Status, Pending, Terminal, Retryable, NoLease
<1>1. ASSUME NEW t \in Threads, ChooseAction(t) PROVE TypeOK'
  <2>1. TablesType'
    BY <1>1 DEF TypeOK, TablesType, Rows, ChooseAction
  <2>2. pc' \in [Threads -> PCs]
    BY <1>1 DEF TypeOK, Goto, PCs, ChooseAction
  <2>3. SeenType'
    BY <1>1 DEF TypeOK, SeenType, Goto, TablesType, ChooseAction
  <2>4. LeaseType'
    BY <1>1 DEF TypeOK, LeaseType, Goto, Working, Rows, ChooseAction
  <2>5. BeatType'
    BY <1>1 DEF TypeOK, BeatType, Rows, ChooseAction
  <2> QED BY <2>1, <2>2, <2>3, <2>4, <2>5 DEF TypeOK
<1>2. ASSUME NEW t \in Threads, EnqueueNextAction(t) PROVE TypeOK'
  <2>1. /\ tasks' \in Seq(Row) /\ Len(tasks') <= MaxTasks /\ Rows \subseteq Rows'
    BY <1>2, KeysTyped, EnqueueEffect DEF EnqueueNextAction
  <2>2. TablesType'
    BY <1>2, <2>1 DEF TypeOK, TablesType, EnqueueNextAction
  <2>3. pc' \in [Threads -> PCs]
    BY <1>2, <2>1 DEF TypeOK, Goto, PCs, EnqueueNextAction
  <2>4. SeenType'
    BY <1>2, <2>1 DEF TypeOK, SeenType, Goto, TablesType, EnqueueNextAction
  <2>5. LeaseType'
    BY SMTT(20), <1>2, <2>1 DEF TypeOK, LeaseType, Goto, Working, EnqueueNextAction
  <2>6. BeatType'
    BY <1>2, <2>1 DEF TypeOK, BeatType, EnqueueNextAction
  <2> QED BY <2>2, <2>3, <2>4, <2>5, <2>6 DEF TypeOK
<1>3. ASSUME NEW t \in Threads, Retry(t) PROVE TypeOK'
  <2>1. lease[t].task \in Rows
    BY <1>3 DEF Retry, TypeOK, LeaseType, Working
  <2>2. /\ tasks' \in Seq(Row) /\ Len(tasks') <= MaxTasks /\ Rows \subseteq Rows'
    BY <1>3, <2>1, KeysTyped, EnqueueEffect DEF Retry, TypeOK, TablesType, Rows
  <2>3. \/ pc' = [pc EXCEPT ![t] = "claim"] /\ seen' = seen
        \/ pc' = [pc EXCEPT ![t] = "idle"] /\ seen' = [seen EXCEPT ![t] = NothingSeen]
    BY <1>3 DEF Retry, Goto
  <2>4. TablesType'
    BY <1>3, <2>1, <2>2, <2>3 DEF TypeOK, TablesType, Retry
  <2>5. pc' \in [Threads -> PCs]
    BY <1>3, <2>1, <2>2, <2>3 DEF TypeOK, Goto, PCs, Retry
  <2>6. SeenType'
    BY SMTT(20), <2>3 DEF TypeOK, SeenType, NothingSeen
  <2>7. LeaseType'
    BY <1>3, <2>1, <2>2, <2>3, <1>0 DEF TypeOK, LeaseType, Goto, Working, Retry
  <2>8. BeatType'
    BY <1>3, <2>1, <2>2, <2>3 DEF TypeOK, BeatType, Retry
  <2> QED BY <2>4, <2>5, <2>6, <2>7, <2>8 DEF TypeOK
<1>4. ASSUME NEW i \in Rows, RetryRequest(i) PROVE TypeOK'
  <2>1. /\ tasks' \in Seq(Row) /\ Len(tasks') <= MaxTasks /\ Rows \subseteq Rows'
    BY <1>4, KeysTyped, EnqueueEffect DEF RetryRequest
  <2>2. TablesType'
    BY <1>4, <2>1 DEF TypeOK, TablesType, RetryRequest
  <2>3. pc' \in [Threads -> PCs]
    BY <1>4, <2>1 DEF TypeOK, Goto, PCs, RetryRequest
  <2>4. SeenType'
    BY <1>4, <2>1 DEF TypeOK, SeenType, Goto, TablesType, RetryRequest
  <2>5. LeaseType'
    BY <1>4, <2>1 DEF TypeOK, LeaseType, Goto, Working, RetryRequest
  <2>6. BeatType'
    BY <1>4, <2>1 DEF TypeOK, BeatType, RetryRequest
  <2> QED BY <2>2, <2>3, <2>4, <2>5, <2>6 DEF TypeOK
<1>5. ASSUME NEW t \in Threads, ClaimRead(t) PROVE TypeOK'
  <2>1. \A i \in Rows : Claimed(i, t) \in Body
    BY ClaimedTyped
  <2>2. \/ pc' = [pc EXCEPT ![t] = "claiming"] /\ seen' = seen
        \/ pc' = [pc EXCEPT ![t] = "idle"] /\ seen' = [seen EXCEPT ![t] = NothingSeen]
    BY <1>5 DEF ClaimRead, Goto
  <2>3. TablesType'
    BY <1>5, <2>1, <2>2 DEF TypeOK, TablesType, Rows, ClaimRead
  <2>4. pc' \in [Threads -> PCs]
    BY <1>5, <2>1, <2>2 DEF TypeOK, Goto, PCs, ClaimRead
  <2>5. SeenType'
    BY SMTT(20), <2>2 DEF TypeOK, SeenType, NothingSeen
  <2>6. LeaseType'
    BY SMTT(20), <1>5, <2>1, <2>2 DEF TypeOK, LeaseType, Goto, Working, Rows, ClaimRead
  <2>7. BeatType'
    BY <1>5, <2>1, <2>2 DEF TypeOK, BeatType, Rows, ClaimRead
  <2> QED BY <2>3, <2>4, <2>5, <2>6, <2>7 DEF TypeOK
<1>6. ASSUME NEW t \in Threads, ClaimWrite(t) PROVE TypeOK'
  <2>1. /\ tasks' \in Seq(Row) /\ Len(tasks') <= MaxTasks /\ Rows' = Rows
    BY <1>6, WriteRowEffect DEF ClaimWrite, Working
  <2>2. TablesType'
    BY <1>6, <2>1 DEF TypeOK, TablesType, ClaimWrite
  <2>3. pc' \in [Threads -> PCs]
    BY <1>6, <2>1 DEF TypeOK, Goto, PCs, ClaimWrite
  <2>4. SeenType'
    BY <1>6, <2>1 DEF TypeOK, SeenType, Goto, TablesType, ClaimWrite
  <2>5. LeaseType'
    BY <1>6, <2>1 DEF TypeOK, LeaseType, Goto, Working, ClaimWrite
  <2>6. BeatType'
    BY <1>6, <2>1 DEF TypeOK, BeatType, ClaimWrite
  <2> QED BY <2>2, <2>3, <2>4, <2>5, <2>6 DEF TypeOK
<1>7. ASSUME NEW t \in Threads, Report(t) PROVE TypeOK'
  <2>1. /\ tasks' \in Seq(Row) /\ Len(tasks') <= MaxTasks /\ Rows' = Rows
    BY <1>7, WriteRowEffect DEF Report, Working
  <2>2. TablesType'
    BY <1>7, <2>1 DEF TypeOK, TablesType, Report
  <2>3. pc' \in [Threads -> PCs]
    BY <1>7, <2>1 DEF TypeOK, Goto, PCs, Report
  <2>4. SeenType'
    BY <1>7, <2>1 DEF TypeOK, SeenType, Goto, TablesType, Report
  <2>5. LeaseType'
    BY <1>7, <2>1, <1>0 DEF TypeOK, LeaseType, Goto, Working, Report
  <2>6. BeatType'
    BY <1>7, <2>1 DEF TypeOK, BeatType, Report
  <2> QED BY <2>2, <2>3, <2>4, <2>5, <2>6 DEF TypeOK
<1>8. ASSUME NEW t \in Threads, ReclaimWrite(t) PROVE TypeOK'
  <2>1. /\ tasks' \in Seq(Row) /\ Len(tasks') <= MaxTasks /\ Rows' = Rows
    BY <1>8, WriteRowEffect DEF ReclaimWrite, Working
  <2>2. TablesType'
    BY <1>8, <2>1 DEF TypeOK, TablesType, ReclaimWrite
  <2>3. pc' \in [Threads -> PCs]
    BY <1>8, <2>1 DEF TypeOK, Goto, PCs, ReclaimWrite
  <2>4. SeenType'
    BY <1>8, <2>1 DEF TypeOK, SeenType, Goto, TablesType, ReclaimWrite
  <2>5. LeaseType'
    BY <1>8, <2>1, <1>0 DEF TypeOK, LeaseType, Goto, Working, ReclaimWrite
  <2>6. BeatType'
    BY <1>8, <2>1 DEF TypeOK, BeatType, ReclaimWrite
  <2> QED BY <2>2, <2>3, <2>4, <2>5, <2>6 DEF TypeOK
<1>9. ASSUME NEW t \in Threads, NEW st \in Status, NEW b \in BOOLEAN, Finish(t, st, b),
             pc[t] \in Working, UNCHANGED <<state, commits>>
      PROVE TypeOK'
  <2>1. lease[t].body \in Body
    BY <1>9 DEF TypeOK, LeaseType
  <2>2. [lease[t].body EXCEPT !.status = st, !.live = FALSE, !.backoff = b] \in Body
    BY <1>9, <2>1 DEF Body
  <2>3. TablesType'
    BY <1>9, <2>1, <2>2 DEF TypeOK, TablesType, Rows, Finish
  <2>4. pc' \in [Threads -> PCs]
    BY <1>9, <2>1, <2>2 DEF TypeOK, Goto, PCs, Finish
  <2>5. SeenType'
    BY SMTT(20), <1>9, <2>1, <2>2 DEF TypeOK, SeenType, Goto, TablesType, Finish, NothingSeen
  <2>6. LeaseType'
    BY <1>9, <2>1, <2>2 DEF TypeOK, LeaseType, Goto, Working, Rows, Finish
  <2>7. BeatType'
    BY <1>9, <2>1, <2>2, <1>0 DEF TypeOK, BeatType, Rows, Finish, NoBeat
  <2> QED BY <2>3, <2>4, <2>5, <2>6, <2>7 DEF TypeOK
<1>10. ASSUME NEW t \in Threads, StartHandler(t) PROVE TypeOK'
  <2>1. lease[t].task \in Rows
    BY <1>10 DEF StartHandler, TypeOK, LeaseType, Working
  <2>2. TablesType'
    BY <1>10, <2>1 DEF TypeOK, TablesType, Rows, StartHandler
  <2>3. pc' \in [Threads -> PCs]
    BY <1>10, <2>1 DEF TypeOK, Goto, PCs, StartHandler
  <2>4. SeenType'
    BY <1>10, <2>1 DEF TypeOK, SeenType, Goto, TablesType, StartHandler, NothingSeen
  <2>5. LeaseType'
    BY <1>10, <2>1 DEF TypeOK, LeaseType, Goto, Working, Rows, StartHandler
  <2>6. BeatType'
    BY <1>10, <2>1, <1>0 DEF TypeOK, BeatType, Rows, StartHandler
  <2> QED BY <2>2, <2>3, <2>4, <2>5, <2>6 DEF TypeOK
<1>11. ASSUME NEW t \in Threads, CommitCandidate(t) PROVE TypeOK'
  <2>1. lease[t].task \in Rows
    BY <1>11 DEF CommitCandidate, TypeOK, LeaseType, Working
  <2>2. TaskOf(t).key.action \in 1..LastStep
    BY <2>1, KeysTyped DEF TaskOf, Row, Key
  <2>3. state.rev + 1 \in 1..MaxRevision /\ state.step \in 1..LastStep + 1
    BY SMTT(20), <1>11 DEF CommitCandidate, TypeOK, TablesType
  <2>4. TablesType'
    <3> DEFINE a == TaskOf(t).key.action
    <3>1. StepAfter(state.step) \in 1..LastStep + 1
      BY <2>3, StepAssumption DEF StepAfter
    <3>2. \/ state' = [state EXCEPT !.rev = state.rev + 1, !.gate = TRUE, !.action = a]
          \/ state' = [state EXCEPT !.rev = state.rev + 1, !.gate = FALSE, !.action = 0,
                                    !.step = StepAfter(state.step)]
      BY <1>11 DEF CommitCandidate
    <3>3. a \in 0..LastStep /\ 0 \in 0..LastStep
      BY <2>2, StepAssumption
    <3> HIDE DEF a
    <3>4. state' \in [rev : 1..MaxRevision, step : 1..LastStep + 1, gate : BOOLEAN,
                      active : BOOLEAN, action : 0..LastStep]
      BY <2>3, <3>1, <3>2, <3>3 DEF TypeOK, TablesType
    <3> QED BY SMTT(20), <1>11, <2>1, <2>3, <3>4 DEF TypeOK, TablesType, Rows, CommitCandidate
  <2>5. pc' \in [Threads -> PCs]
    BY <1>11, <2>1, <2>2, <2>3 DEF TypeOK, Goto, PCs, CommitCandidate
  <2>6. SeenType'
    BY <1>11, <2>1, <2>2, <2>3 DEF TypeOK, SeenType, Goto, TablesType, CommitCandidate
  <2>7. LeaseType'
    BY <1>11, <2>1, <2>2, <2>3 DEF TypeOK, LeaseType, Goto, Working, Rows, CommitCandidate
  <2>8. BeatType'
    BY <1>11, <2>1, <2>2, <2>3 DEF TypeOK, BeatType, Rows, CommitCandidate
  <2> QED BY <2>4, <2>5, <2>6, <2>7, <2>8 DEF TypeOK
<1>12. ASSUME NEW t \in Threads, BeatRead(t) PROVE TypeOK'
  <2>1. tasks[beat[t].task].body \in Body
    BY <1>12, KeysTyped DEF BeatRead, TypeOK, BeatType, Row
  <2>2. [tasks[beat[t].task].body EXCEPT !.live = TRUE] \in Body
    BY <2>1 DEF Body
  <2>3. TablesType'
    BY <1>12, <2>1, <2>2 DEF TypeOK, TablesType, Rows, BeatRead
  <2>4. pc' \in [Threads -> PCs]
    BY <1>12, <2>1, <2>2 DEF TypeOK, Goto, PCs, BeatRead
  <2>5. SeenType'
    BY <1>12, <2>1, <2>2 DEF TypeOK, SeenType, Goto, TablesType, BeatRead
  <2>6. LeaseType'
    BY <1>12, <2>1, <2>2 DEF TypeOK, LeaseType, Goto, Working, Rows, BeatRead
  <2>7. BeatType'
    BY ZenonT(40), <1>12, <2>1, <2>2, <1>0 DEF TypeOK, BeatType, Rows, BeatRead, NoBeat
  <2> QED BY <2>3, <2>4, <2>5, <2>6, <2>7 DEF TypeOK
<1>13. ASSUME NEW t \in Threads, BeatWrite(t) PROVE TypeOK'
  <2>1. beat[t].task \in Rows /\ beat[t].body \in Body
    BY <1>13 DEF BeatWrite, TypeOK, BeatType
  <2>2. /\ tasks' \in Seq(Row) /\ Len(tasks') <= MaxTasks /\ Rows' = Rows
    BY <1>13, <2>1, BodyEffect DEF BeatWrite
  <2>3. TablesType'
    BY <1>13, <2>1, <2>2 DEF TypeOK, TablesType, BeatWrite
  <2>4. pc' \in [Threads -> PCs]
    BY <1>13, <2>1, <2>2 DEF TypeOK, Goto, PCs, BeatWrite
  <2>5. SeenType'
    BY <1>13, <2>1, <2>2 DEF TypeOK, SeenType, Goto, TablesType, BeatWrite
  <2>6. LeaseType'
    BY <1>13, <2>1, <2>2 DEF TypeOK, LeaseType, Goto, Working, BeatWrite
  <2>7. BeatType'
    BY <1>13, <2>1, <2>2, <1>0 DEF TypeOK, BeatType, BeatWrite, NoBeat
  <2> QED BY <2>3, <2>4, <2>5, <2>6, <2>7 DEF TypeOK
<1>14. ASSUME NEW t \in Threads, BeatDies(t) PROVE TypeOK'
  <2>1. TablesType'
    BY <1>14 DEF TypeOK, TablesType, Rows, BeatDies
  <2>2. pc' \in [Threads -> PCs]
    BY <1>14 DEF TypeOK, Goto, PCs, BeatDies
  <2>3. SeenType'
    BY <1>14 DEF TypeOK, SeenType, Goto, TablesType, BeatDies
  <2>4. LeaseType'
    BY <1>14 DEF TypeOK, LeaseType, Goto, Working, Rows, BeatDies
  <2>5. BeatType'
    BY <1>14, <1>0 DEF TypeOK, BeatType, Rows, BeatDies, NoBeat
  <2> QED BY <2>1, <2>2, <2>3, <2>4, <2>5 DEF TypeOK
<1>15. ASSUME NEW i \in Rows, Clock(i) PROVE TypeOK'
  <2>1. /\ tasks' \in Seq(Row) /\ Len(tasks') <= MaxTasks /\ Rows' = Rows
    BY <1>15, ClockEffect
  <2>2. TablesType'
    BY <1>15, <2>1 DEF TypeOK, TablesType, Clock, LeaseExpires, BackoffElapses
  <2>3. pc' \in [Threads -> PCs]
    BY <1>15, <2>1 DEF TypeOK, Goto, PCs, Clock, LeaseExpires, BackoffElapses
  <2>4. SeenType'
    BY <1>15, <2>1 DEF TypeOK, SeenType, Goto, TablesType, Clock, LeaseExpires, BackoffElapses
  <2>5. LeaseType'
    BY <1>15, <2>1 DEF TypeOK, LeaseType, Goto, Working, Clock, LeaseExpires, BackoffElapses
  <2>6. BeatType'
    BY <1>15, <2>1 DEF TypeOK, BeatType, Clock, LeaseExpires, BackoffElapses
  <2> QED BY <2>2, <2>3, <2>4, <2>5, <2>6 DEF TypeOK
<1>16. ASSUME DecideGate PROVE TypeOK'
  <2>1. TablesType'
    <3> DEFINE States == [rev : 1..MaxRevision, step : 1..LastStep + 1, gate : BOOLEAN,
                          active : BOOLEAN, action : 0..LastStep]
               decided == [state EXCEPT !.rev = state.rev + 1, !.gate = FALSE]
    <3>1. state \in States /\ state.rev + 1 \in 1..MaxRevision
      BY <1>16 DEF DecideGate, TypeOK, TablesType
    <3>2. decided \in States /\ decided.step = state.step
      BY <3>1
    <3>3. StepAfter(decided.step) \in 1..LastStep + 1 /\ 0 \in 0..LastStep
      <4>1. decided.step \in 1..LastStep + 1
        BY <3>1, <3>2
      <4> QED BY <4>1, StepAssumption DEF StepAfter
    <3>4. \A s \in 1..state.step : s \in 1..LastStep + 1
      BY <3>1, StepAssumption
    <3>5. state' \in States
      <4> HIDE DEF decided
      <4>1. \/ state' = [decided EXCEPT !.step = StepAfter(decided.step), !.action = 0]
            \/ state' = decided \/ state' = [decided EXCEPT !.active = FALSE]
            \/ \E s \in 1..state.step : state' = [decided EXCEPT !.step = s, !.action = 0]
        BY <1>16 DEF DecideGate, Decisions, decided
      <4> QED BY <3>2, <3>3, <3>4, <4>1
    <3> QED BY <1>16, <3>5 DEF TypeOK, TablesType, Rows, DecideGate
  <2>2. pc' \in [Threads -> PCs]
    BY <1>16 DEF TypeOK, Goto, PCs, DecideGate
  <2>3. SeenType'
    BY <1>16 DEF TypeOK, SeenType, Goto, TablesType, DecideGate
  <2>4. LeaseType'
    BY <1>16 DEF TypeOK, LeaseType, Goto, Working, Rows, DecideGate
  <2>5. BeatType'
    BY <1>16 DEF TypeOK, BeatType, Rows, DecideGate
  <2> QED BY <2>1, <2>2, <2>3, <2>4, <2>5 DEF TypeOK
<1>17. ASSUME EditState PROVE TypeOK'
  <2>1. state.rev + 1 \in 1..MaxRevision
    BY <1>17 DEF EditState, TypeOK, TablesType
  <2>2. [state EXCEPT !.rev = state.rev + 1] \in [rev : 1..MaxRevision, step : 1..LastStep + 1,
                                                  gate : BOOLEAN, active : BOOLEAN,
                                                  action : 0..LastStep]
    BY <2>1 DEF TypeOK, TablesType
  <2>3. TablesType'
    BY <1>17, <2>1, <2>2 DEF TypeOK, TablesType, Rows, EditState
  <2>4. pc' \in [Threads -> PCs]
    BY <1>17, <2>1, <2>2 DEF TypeOK, Goto, PCs, EditState
  <2>5. SeenType'
    BY <1>17, <2>1, <2>2 DEF TypeOK, SeenType, Goto, TablesType, EditState
  <2>6. LeaseType'
    BY <1>17, <2>1, <2>2 DEF TypeOK, LeaseType, Goto, Working, Rows, EditState
  <2>7. BeatType'
    BY <1>17, <2>1, <2>2 DEF TypeOK, BeatType, Rows, EditState
  <2> QED BY <2>3, <2>4, <2>5, <2>6, <2>7 DEF TypeOK
<1>18. ASSUME NEW t \in Threads, ReclaimRead(t) PROVE TypeOK'
  <2> DEFINE stale(i) == [tasks[i].body EXCEPT !.status = "STALE", !.live = FALSE]
  <2>1. ASSUME NEW i \in Rows PROVE stale(i) \in Body
    <3>1. tasks[i].body \in Body
      BY KeysTyped DEF Row
    <3> QED BY <3>1 DEF Body, Status, Terminal, Retryable
  <2>2. \/ pc' = [pc EXCEPT ![t] = "idle"] /\ lease' = lease
        \/ /\ pc' = [pc EXCEPT ![t] = "reclaim"]
           /\ \E i \in Rows : lease' = [lease EXCEPT ![t] = [task |-> i, body |-> stale(i)]]
    BY <1>18 DEF ReclaimRead, Goto
  <2> HIDE DEF stale
  <2>3. TablesType'
    BY <1>18 DEF TypeOK, TablesType, Rows, ReclaimRead
  <2>4. pc' \in [Threads -> PCs]
    BY <2>2 DEF TypeOK, PCs
  <2>5. SeenType'
    <3>1. seen' = [seen EXCEPT ![t] = NothingSeen]
      BY <1>18 DEF ReclaimRead
    <3>2. \A u \in Threads : pc'[u] = "enqueue" => pc[u] = "enqueue" /\ u # t
      BY <2>2 DEF TypeOK
    <3>3. NothingSeen \in [rev : 0..MaxRevision, step : 0..LastStep]
      BY StepAssumption, BoundAssumption DEF NothingSeen
    <3> QED BY <3>1, <3>2, <3>3 DEF TypeOK, SeenType
  <2>6. LeaseType'
    <3>1. Rows' = Rows
      BY <1>18 DEF ReclaimRead, Rows
    <3>2. CASE pc' = [pc EXCEPT ![t] = "idle"] /\ lease' = lease
      BY <3>1, <3>2 DEF TypeOK, LeaseType, Working
    <3>3. CASE /\ pc' = [pc EXCEPT ![t] = "reclaim"]
               /\ \E i \in Rows : lease' = [lease EXCEPT ![t] = [task |-> i, body |-> stale(i)]]
      BY <2>1, <3>1, <3>3 DEF TypeOK, LeaseType, Working
    <3> QED BY <2>2, <3>2, <3>3
  <2>7. BeatType'
    BY <1>18 DEF TypeOK, BeatType, Rows, ReclaimRead
  <2> QED BY <2>3, <2>4, <2>5, <2>6, <2>7 DEF TypeOK
<1>19. ASSUME Crash PROVE TypeOK'
  <2>1. TablesType'
    BY <1>19 DEF TypeOK, TablesType, Rows, Crash
  <2>2. pc' \in [Threads -> PCs]
    BY <1>19 DEF TypeOK, Goto, PCs, Crash
  <2>3. SeenType'
    BY <1>19 DEF TypeOK, SeenType, Goto, TablesType, Crash, NothingSeen
  <2>4. LeaseType'
    BY <1>19, <1>0 DEF TypeOK, LeaseType, Goto, Working, Rows, Crash
  <2>5. BeatType'
    BY <1>19, <1>0 DEF TypeOK, BeatType, Rows, Crash, NoBeat
  <2> QED BY <2>1, <2>2, <2>3, <2>4, <2>5 DEF TypeOK
<1>20. CASE UNCHANGED vars
  BY <1>20 DEF vars, TypeOK, TablesType, SeenType, LeaseType, BeatType, Rows
<1>21. ASSUME NEW t \in Threads, HandlerEnds(t) \/ RejectStale(t) \/ RejectAction(t)
       PROVE  TypeOK'
  <2>1. CASE CommitCandidate(t)
    BY <2>1, <1>11
  <2>2. CASE ~CommitCandidate(t)
    BY <1>9, <1>21, <2>2
       DEF HandlerEnds, RejectStale, RejectAction, RejectLateCandidate, HandlerFails,
           HandlerReturns, Working, Status, Pending, Terminal, Retryable
  <2> QED BY <2>1, <2>2
<1>22. ASSUME NEW t \in Threads, StopContinuing(t) PROVE TypeOK'
  <2>1. TablesType' /\ BeatType'
    BY <1>22 DEF TypeOK, TablesType, BeatType, Rows, StopContinuing
  <2>2. pc' \in [Threads -> PCs]
    BY <1>22 DEF TypeOK, Goto, PCs, StopContinuing
  <2>3. SeenType'
    BY <1>22 DEF TypeOK, SeenType, Goto, StopContinuing
  <2>4. LeaseType'
    BY <1>22 DEF TypeOK, LeaseType, Goto, Working, Rows, StopContinuing
  <2> QED BY <2>1, <2>2, <2>3, <2>4 DEF TypeOK
<1>23. ASSUME NEW t \in Threads, ThreadStep(t) PROVE TypeOK'
  BY <1>2, <1>3, <1>5, <1>6, <1>7, <1>8, <1>10, <1>18, <1>21, <1>22, <1>23 DEF ThreadStep
<1>24. ASSUME NEW t \in Threads, ResumeTurn(t) PROVE TypeOK'
  <2>1. TablesType' /\ BeatType'
    BY <1>24 DEF TypeOK, TablesType, BeatType, Rows, ResumeTurn
  <2>2. pc' \in [Threads -> PCs]
    BY <1>24 DEF TypeOK, Goto, PCs, ResumeTurn
  <2>3. SeenType'
    BY <1>24 DEF TypeOK, SeenType, Goto, TablesType, ResumeTurn
  <2>4. LeaseType'
    BY <1>24 DEF TypeOK, LeaseType, Goto, Working, Rows, ResumeTurn
  <2> QED BY <2>1, <2>2, <2>3, <2>4 DEF TypeOK
<1> QED BY <1>24, <1>1, <1>4, <1>12, <1>13, <1>14, <1>15, <1>16, <1>17, <1>19, <1>20, <1>23
        DEF Next, Continue, Recover, BeatStep, Threads

\* States, rows, copies and renewals have their types, and the copies of threads
\* at work refer to rows, in every reachable state.
THEOREM TypeCorrect == Spec => []TypeOK
<1>1. Init => TypeOK
  BY InitType
<1>2. TypeOK /\ [Next]_vars => TypeOK'
  BY TypeStep
<1> QED BY <1>1, <1>2, PTL DEF Spec

----------------------------------------------------------------------------
(* The ways in which a step changes the task table. *)

\* Every step leaves the table alone, enqueues, writes a copy back, renews a
\* lease or lets time pass.
LEMMA TableSteps ==
  ASSUME TypeOK, [Next]_vars
  PROVE  \/ UNCHANGED tasks
         \/ \E key \in Key : Enqueue(key)
         \/ \E t \in Threads : /\ pc[t] \in {"claiming", "report", "reclaim"}
                               /\ WriteRow(t) /\ pc'[t] # "claiming"
         \/ \E t \in Threads : BeatWrite(t)
         \/ \E i \in Rows : Clock(i)
<1> DEFINE Goal == \/ UNCHANGED tasks
                   \/ \E key \in Key : Enqueue(key)
                   \/ \E t \in Threads : /\ pc[t] \in {"claiming", "report", "reclaim"}
                                         /\ WriteRow(t) /\ pc'[t] # "claiming"
                   \/ \E t \in Threads : BeatWrite(t)
                   \/ \E i \in Rows : Clock(i)
<1>1. ASSUME NEW t \in Threads, EnqueueNextAction(t) PROVE Goal
  BY <1>1, KeysTyped DEF EnqueueNextAction
<1>2. ASSUME NEW t \in Threads, Retry(t) PROVE Goal
  <2>1. lease[t].task \in Rows
    BY <1>2 DEF Retry, TypeOK, LeaseType, Working
  <2> QED BY <1>2, <2>1, KeysTyped DEF Retry
<1>3. ASSUME NEW i \in Rows, RetryRequest(i) PROVE Goal
  BY <1>3, KeysTyped DEF RetryRequest
<1>4. ASSUME NEW t \in Threads, ClaimWrite(t) \/ Report(t) \/ ReclaimWrite(t) PROVE Goal
  BY <1>4 DEF ClaimWrite, Report, ReclaimWrite, Goto, TypeOK
<1>5. ASSUME NEW t \in Threads,
             \/ ClaimRead(t) \/ StartHandler(t) \/ RejectStale(t) \/ RejectAction(t)
             \/ HandlerEnds(t) \/ StopContinuing(t) \/ ReclaimRead(t)
      PROVE  Goal
  BY <1>5 DEF StopContinuing, ReclaimRead, ClaimRead, StartHandler, RejectStale, RejectAction, HandlerEnds,
     CommitCandidate, RejectLateCandidate, HandlerFails, HandlerReturns, Finish
<1>6. ASSUME NEW t \in Threads, ThreadStep(t) PROVE Goal
  BY <1>1, <1>2, <1>4, <1>5, <1>6 DEF ThreadStep
<1>7. ASSUME NEW t \in Threads,
             Continue(t) \/ ResumeTurn(t) \/ BeatStep(t) \/ BeatDies(t)
      PROVE  Goal
  BY <1>7 DEF Continue, ChooseAction, ResumeTurn, BeatStep, BeatRead, BeatDies
<1>8. ASSUME Recover \/ DecideGate \/ EditState \/ Crash PROVE Goal
  BY <1>8 DEF Recover, ChooseAction, DecideGate, EditState, Crash
<1>9. CASE UNCHANGED vars
  BY <1>9 DEF vars
<1> QED BY <1>3, <1>6, <1>7, <1>8, <1>9 DEF Next

\* What becomes of the columns of each row.
LEMMA WriteRowColumns ==
  ASSUME TypeOK, NEW t \in Threads, pc[t] \in {"claiming", "report", "reclaim"}, WriteRow(t)
  PROVE  /\ Rows' = Rows /\ lease[t].task \in Rows
         /\ \A j \in Rows :
              /\ tasks'[j].key = tasks[j].key
              /\ j # lease[t].task => tasks'[j] = tasks[j]
              /\ j = lease[t].task => /\ tasks'[j].column = lease[t].body.status
                                      /\ tasks'[j].body = lease[t].body
<1> DEFINE written(k) == [key |-> k, column |-> lease[t].body.status, body |-> lease[t].body]
<1>1. pc[t] \in Working /\ lease[t].task \in Rows
  BY DEF Working, TypeOK, LeaseType
<1>2. \A k : /\ written(k).key = k /\ written(k).column = lease[t].body.status
             /\ written(k).body = lease[t].body
  OBVIOUS
<1>3. /\ Rows' = Rows
      /\ \A j \in Rows : tasks'[j] = IF j = lease[t].task THEN written(tasks[j].key)
                                                         ELSE tasks[j]
  BY <1>1, WriteRowEffect
<1> HIDE DEF written
<1> QED BY <1>1, <1>2, <1>3

\* A renewal gives one row a new body and no other column.
LEMMA BeatWriteColumns ==
  ASSUME TypeOK, NEW t \in Threads, BeatWrite(t)
  PROVE  /\ Rows' = Rows
         /\ \A j \in Rows :
              /\ tasks'[j].key = tasks[j].key /\ tasks'[j].column = tasks[j].column
              /\ j # beat[t].task => tasks'[j] = tasks[j]
              /\ j = beat[t].task => tasks'[j].body = beat[t].body
<1> DEFINE written(k, c) == [key |-> k, column |-> c, body |-> beat[t].body]
<1>1. \A k, c : /\ written(k, c).key = k /\ written(k, c).column = c
                /\ written(k, c).body = beat[t].body
  OBVIOUS
<1>2. /\ Rows' = Rows
      /\ \A j \in Rows : tasks'[j] = IF j = beat[t].task
                                     THEN written(tasks[j].key, tasks[j].column) ELSE tasks[j]
  BY BeatWriteEffect
<1> HIDE DEF written
<1> QED BY <1>1, <1>2

\* Enqueueing keeps the rows; a new row is QUEUED and the only one of its key.
LEMMA EnqueueColumns ==
  ASSUME TypeOK, NEW key \in Key, Enqueue(key)
  PROVE  /\ Rows \subseteq Rows'
         /\ \A j \in Rows : tasks'[j] = tasks[j]
         /\ \A j \in Rows' \ Rows :
              /\ tasks'[j].key = key
              /\ tasks'[j].column = "QUEUED" /\ tasks'[j].body.status = "QUEUED"
              /\ \A k \in Rows' : tasks'[k].key = key => k = j
<1> DEFINE new == [key |-> key, column |-> "QUEUED", body |-> NewBody]
<1>1. new.key = key /\ new.column = "QUEUED" /\ new.body.status = "QUEUED"
  BY DEF NewBody
<1>2. /\ Rows \subseteq Rows'
      /\ \A j \in Rows : tasks'[j] = tasks[j]
      /\ \A j \in Rows' \ Rows :
           /\ tasks'[j] = new
           /\ \A k \in Rows' : tasks'[k].key = key => k = j
  BY EnqueueEffect
<1> HIDE DEF new
<1> QED BY <1>1, <1>2

\* Time neither starts nor ends a task, and never gives one a lease.
LEMMA ClockColumns ==
  ASSUME TypeOK, NEW i \in Rows, Clock(i)
  PROVE  /\ Rows' = Rows
         /\ \A j \in Rows : /\ tasks'[j].key = tasks[j].key
                            /\ tasks'[j].column = tasks[j].column
                            /\ tasks'[j].body.status = tasks[j].body.status
                            /\ tasks'[j].body.live => tasks[j].body.live
<1>1. \A j \in Rows : tasks[j] \in Row /\ tasks[j].body \in Body
  BY KeysTyped DEF Row
<1>2. PICK b \in Body :
         /\ b.status = tasks[i].body.status
         /\ tasks' = [tasks EXCEPT ![i].body = b]
         /\ Rows' = Rows
         /\ \A j \in Rows :
              tasks'[j] = IF j = i THEN [tasks[j] EXCEPT !.body = b] ELSE tasks[j]
  BY ClockEffect
<1>3. \A j \in Rows : /\ tasks'[j].key = tasks[j].key
                      /\ tasks'[j].column = tasks[j].column
                      /\ tasks'[j].body.status = tasks[j].body.status
  BY <1>1, <1>2 DEF Row
<1>4. \A j \in Rows : tasks'[j].body.live => tasks[j].body.live
  <2>1. CASE LeaseExpires(i)
    <3>1. tasks' = [tasks EXCEPT ![i].body = [tasks[i].body EXCEPT !.live = FALSE]]
      BY <2>1 DEF LeaseExpires
    <3>2. [tasks[i].body EXCEPT !.live = FALSE] \in Body
          /\ [tasks[i].body EXCEPT !.live = FALSE].live = FALSE
      BY <1>1 DEF Body
    <3>3. \A j \in Rows :
            tasks'[j] = IF j = i
                        THEN [tasks[j] EXCEPT !.body = [tasks[i].body EXCEPT !.live = FALSE]]
                        ELSE tasks[j]
      BY <3>1, <3>2, BodyEffect
    <3> QED BY <1>1, <3>2, <3>3 DEF Row
  <2>2. CASE BackoffElapses(i)
    <3> DEFINE c == [tasks[i].body EXCEPT !.backoff = FALSE]
    <3>1. tasks' = [tasks EXCEPT ![i].body = c]
      BY <2>2 DEF BackoffElapses
    <3>2. c \in Body /\ c.live = tasks[i].body.live
      BY <1>1 DEF Body
    <3> HIDE DEF c
    <3>3. \A j \in Rows : tasks'[j] = IF j = i THEN [tasks[j] EXCEPT !.body = c] ELSE tasks[j]
      BY <3>1, <3>2, BodyEffect
    <3> QED BY <1>1, <3>2, <3>3 DEF Row
  <2> QED BY <2>1, <2>2 DEF Clock
<1> QED BY <1>2, <1>3, <1>4

\* No step removes a row or changes its key, and no two rows get one key.
LEMMA KeysStep ==
  ASSUME TypeOK, OneTaskPerKey, [Next]_vars
  PROVE  RowsKept /\ OneTaskPerKey'
<1>1. CASE UNCHANGED tasks
  BY <1>1 DEF RowsKept, OneTaskPerKey, Rows
<1>2. CASE \E key \in Key : Enqueue(key)
  BY <1>2, EnqueueColumns DEF RowsKept, OneTaskPerKey
<1>3. CASE \/ \E t \in Threads : /\ pc[t] \in {"claiming", "report", "reclaim"}
                                 /\ WriteRow(t)
           \/ \E t \in Threads : BeatWrite(t)
           \/ \E i \in Rows : Clock(i)
  <2>1. Rows' = Rows /\ \A j \in Rows : tasks'[j].key = tasks[j].key
    BY <1>3, WriteRowColumns, BeatWriteColumns, ClockColumns
  <2> QED BY <2>1 DEF RowsKept, OneTaskPerKey
<1> QED BY <1>1, <1>2, <1>3, TableSteps

\* Commits are only added, at the current revision and for a task queued for
\* it, by a step that moves the revision on; no step takes the revision back.
LEMMA CommitSteps ==
  ASSUME TypeOK, [Next]_vars
  PROVE  \/ commits' = commits /\ state'.rev >= state.rev
         \/ \E t \in Threads :
              /\ CommitCandidate(t)
              /\ lease[t].task \in Rows
              /\ tasks[lease[t].task].key.expected = state.rev
              /\ commits' = commits \cup {[task |-> lease[t].task, base |-> state.rev]}
              /\ state'.rev = state.rev + 1
<1> DEFINE Keeps == commits' = commits /\ state'.rev >= state.rev
<1>0. state.rev \in Nat
  BY DEF TypeOK, TablesType
<1>1. ASSUME NEW t \in Threads, CommitCandidate(t)
      PROVE  /\ lease[t].task \in Rows
             /\ tasks[lease[t].task].key.expected = state.rev
             /\ commits' = commits \cup {[task |-> lease[t].task, base |-> state.rev]}
             /\ state'.rev = state.rev + 1
  BY <1>1 DEF CommitCandidate, RevisionHolds, TaskOf, TypeOK, LeaseType, Working
<1>2. ASSUME NEW t \in Threads, ThreadStep(t), ~CommitCandidate(t) PROVE Keeps
  <2>1. UNCHANGED <<state, commits>>
    BY <1>2 DEF ThreadStep, HandlerEnds, EnqueueNextAction, Retry, ClaimRead, ClaimWrite,
       RejectStale, RejectAction, StartHandler, RejectLateCandidate, HandlerFails,
       HandlerReturns, Report, StopContinuing, ReclaimRead, ReclaimWrite
  <2> QED BY <1>0, <2>1
<1>3. ASSUME NEW t \in Threads, Continue(t) \/ ResumeTurn(t) \/ BeatStep(t) \/ BeatDies(t)
      PROVE  Keeps
  BY <1>0, <1>3 DEF Continue, ChooseAction, ResumeTurn, BeatStep, BeatRead, BeatWrite, BeatDies
<1>4. ASSUME Recover \/ DecideGate \/ EditState \/ Crash PROVE Keeps
  <2>1. ASSUME DecideGate PROVE commits' = commits /\ state'.rev = state.rev + 1
    <3> DEFINE decided == [state EXCEPT !.rev = state.rev + 1, !.gate = FALSE]
    <3>0. state \in [rev : 1..MaxRevision, step : 1..LastStep + 1, gate : BOOLEAN,
                    active : BOOLEAN, action : 0..LastStep]
      BY DEF TypeOK, TablesType
    <3>1. /\ decided.rev = state.rev + 1
          /\ decided \in [rev : 1..MaxRevision, step : 1..LastStep + 1, gate : BOOLEAN,
                         active : BOOLEAN, action : 0..LastStep]
      <4>1. state.rev + 1 \in 1..MaxRevision
        BY <2>1, <3>0, BoundAssumption DEF DecideGate
      <4> QED BY <3>0, <4>1
    <3>2. \/ state' = [decided EXCEPT !.step = StepAfter(decided.step), !.action = 0]
          \/ state' = decided \/ state' = [decided EXCEPT !.active = FALSE]
          \/ \E s \in 1..state.step : state' = [decided EXCEPT !.step = s, !.action = 0]
      BY <2>1 DEF DecideGate, Decisions
    <3> HIDE DEF decided
    <3>3. state'.rev = decided.rev
      BY <3>1, <3>2
    <3> QED BY <2>1, <3>1, <3>3 DEF DecideGate
  <2> QED BY <1>0, <1>4, <2>1 DEF Recover, ChooseAction, EditState, Crash, TypeOK, TablesType
<1>5. ASSUME NEW i \in Rows, Clock(i) \/ RetryRequest(i) PROVE Keeps
  BY <1>0, <1>5 DEF Clock, LeaseExpires, BackoffElapses, RetryRequest
<1>6. CASE UNCHANGED vars
  BY <1>0, <1>6 DEF vars
<1> QED BY <1>1, <1>2, <1>3, <1>4, <1>5, <1>6 DEF Next, ThreadStep, HandlerEnds

\* Commits keep following the revisions.
LEMMA CommitsStep ==
  ASSUME TypeOK, OneTaskPerKey, CommitsFollowRevisions, [Next]_vars
  PROVE  CommitsFollowRevisions'
<1>1. RowsKept /\ TypeOK'
  BY KeysStep, TypeStep
<1>2. \A c \in commits : c.task \in Rows /\ c.base \in Nat
  BY DEF TypeOK, TablesType
<1>3. state.rev \in Nat /\ state'.rev \in Nat
  BY <1>1 DEF TypeOK, TablesType
<1>4. CASE commits' = commits /\ state'.rev >= state.rev
  BY <1>1, <1>2, <1>3, <1>4 DEF RowsKept, CommitsFollowRevisions
<1>5. CASE \E t \in Threads :
              /\ CommitCandidate(t)
              /\ lease[t].task \in Rows
              /\ tasks[lease[t].task].key.expected = state.rev
              /\ commits' = commits \cup {[task |-> lease[t].task, base |-> state.rev]}
              /\ state'.rev = state.rev + 1
  BY <1>1, <1>2, <1>3, <1>5 DEF RowsKept, CommitsFollowRevisions
<1> QED BY <1>4, <1>5, CommitSteps

----------------------------------------------------------------------------
(* The copies threads and renewals hold, and the lock. *)

\* What a step may do to the place and the copy of a thread u ...
Stays(u) == pc'[u] = pc[u] /\ lease'[u] = lease[u]
Leaves(u) == pc'[u] \in {"idle", "again", "enqueue", "claim", "retry", "resume"}
ReadsRow(u) ==
  /\ pc[u] = "claim" /\ RepositoryFree /\ UNCHANGED <<tasks, beat>>
  /\ pc' = [pc EXCEPT ![u] = "claiming"]
  /\ \E i \in Rows : /\ Claimable(i)
                     /\ lease'[u].task = i /\ lease'[u].body.status = "RUNNING"
Proceeds(u) ==
  /\ lease'[u] = lease[u]
  /\ \/ pc[u] = "claiming" /\ pc'[u] = "claimed"
     \/ pc[u] = "claimed" /\ pc'[u] = "executing"
     \/ /\ pc[u] = "executing" /\ pc'[u] = "committed"
        /\ \E c \in commits' : c.task = lease[u].task
Ends(u) ==
  /\ pc[u] \in {"claimed", "executing", "committed"} /\ pc'[u] = "report"
  /\ lease'[u].task = lease[u].task
  /\ lease'[u].body.status \in {"QUEUED", "FAILED", "STALE", "COMPLETED"}
  /\ lease'[u].body.status = "COMPLETED" => pc[u] = "committed"
Reclaims(u) == pc'[u] = "reclaim" /\ lease'[u].body.status = "STALE"
CopyMove(u) == Stays(u) \/ Leaves(u) \/ ReadsRow(u) \/ Proceeds(u) \/ Ends(u) \/ Reclaims(u)

\* ... and to its renewal.
BeatMove(u) ==
  \/ beat'[u] = beat[u]
  \/ beat'[u].pc # "renewing"
  \/ /\ RepositoryFree /\ UNCHANGED <<tasks, pc>>
     /\ beat' = [beat EXCEPT ![u] = beat'[u]]
     /\ beat'[u].body.status = "RUNNING"

\* Every step moves every thread in one of these ways.
LEMMA CopySteps ==
  ASSUME TypeOK, [Next]_vars, NEW u \in Threads
  PROVE  CopyMove(u) /\ BeatMove(u)
<1> DEFINE Moves == CopyMove(u) /\ BeatMove(u)
<1>0. /\ pc \in [Threads -> PCs] /\ lease \in [Threads -> [task : Rows \cup {0}, body : Body]]
      /\ beat \in [Threads -> [pc : {"off", "on", "renewing"}, task : Rows \cup {0}, body : Body]]
  BY DEF TypeOK, LeaseType, BeatType
<1>a. beat' = beat => BeatMove(u)
  BY DEF BeatMove
<1>b. pc' = pc /\ lease' = lease => CopyMove(u)
  BY DEF CopyMove, Stays
<1>1. ASSUME NEW t \in Threads, ChooseAction(t) \/ ResumeTurn(t) \/ StopContinuing(t)
      PROVE  Moves
  BY <1>0, <1>1, <1>a DEF ChooseAction, ResumeTurn, StopContinuing, Goto, CopyMove, Stays, Leaves
<1>2. ASSUME NEW t \in Threads, EnqueueNextAction(t) \/ Retry(t) PROVE Moves
  BY <1>0, <1>2, <1>a DEF EnqueueNextAction, Retry, Goto, CopyMove, Stays, Leaves
<1>3. ASSUME NEW t \in Threads, ClaimRead(t) PROVE Moves
  <2>1. CASE pc' = [pc EXCEPT ![t] = "idle"] /\ lease' = lease
    BY <1>0, <1>3, <1>a, <2>1 DEF ClaimRead, CopyMove, Stays, Leaves
  <2>2. CASE \E i \in Rows : Claimable(i) /\ lease' = [lease EXCEPT ![t] = [task |-> i, body |-> Claimed(i, t)]]
    <3> PICK i \in Rows : Claimable(i) /\ lease' = [lease EXCEPT ![t] = [task |-> i, body |-> Claimed(i, t)]]
      BY <2>2
    <3>1. Claimed(i, t).status = "RUNNING"
      BY DEF Claimed
    <3>2. lease'[t].task = i /\ lease'[t].body = Claimed(i, t)
      BY <1>0
    <3>3. CASE pc' = [pc EXCEPT ![t] = "claiming"]
      BY <1>0, <1>3, <1>a, <3>1, <3>2, <3>3 DEF ClaimRead, CopyMove, Stays, ReadsRow
    <3>4. CASE pc' = [pc EXCEPT ![t] = "idle"]
      BY <1>0, <1>3, <1>a, <3>4 DEF ClaimRead, CopyMove, Stays, Leaves
    <3> QED BY <1>3, <3>3, <3>4 DEF ClaimRead, Goto
  <2> QED BY <1>3, <2>1, <2>2 DEF ClaimRead, Goto
<1>4. ASSUME NEW t \in Threads, ClaimWrite(t) \/ Report(t) \/ ReclaimWrite(t) PROVE Moves
  BY <1>0, <1>4, <1>a
     DEF ClaimWrite, Report, ReclaimWrite, Goto, CopyMove, Stays, Leaves, Proceeds
<1>5. ASSUME NEW t \in Threads, StartHandler(t) PROVE Moves
  BY <1>0, <1>5 DEF StartHandler, Goto, CopyMove, Stays, Proceeds, BeatMove
<1>6. ASSUME NEW t \in Threads, CommitCandidate(t) PROVE Moves
  <2>1. [task |-> lease[t].task, base |-> state.rev] \in commits'
    BY <1>6 DEF CommitCandidate
  <2> QED BY <1>0, <1>6, <1>a, <2>1 DEF CommitCandidate, Goto, CopyMove, Stays, Proceeds
<1>7. ASSUME NEW t \in Threads, NEW st \in {"QUEUED", "FAILED", "STALE", "COMPLETED"},
             NEW b \in BOOLEAN, Finish(t, st, b),
             pc[t] \in {"claimed", "executing", "committed"},
             st = "COMPLETED" => pc[t] = "committed"
      PROVE  Moves
  <2>1. /\ lease' = [lease EXCEPT ![t] = lease'[t]]
        /\ lease'[t].task = lease[t].task /\ lease'[t].body.status = st
    BY <1>0, <1>7 DEF Finish, Body
  <2>2. CopyMove(u)
    BY <1>0, <1>7, <2>1 DEF Finish, Goto, CopyMove, Stays, Ends
  <2>3. BeatMove(u)
    BY <1>0, <1>7 DEF Finish, NoBeat, BeatMove
  <2> QED BY <2>2, <2>3
<1>8. ASSUME NEW t \in Threads, \/ RejectStale(t) \/ RejectAction(t) \/ RejectLateCandidate(t)
                                \/ HandlerFails(t) \/ HandlerReturns(t)
      PROVE  Moves
  <2>1. PICK st \in {"QUEUED", "FAILED", "STALE", "COMPLETED"}, b \in BOOLEAN :
          /\ Finish(t, st, b)
          /\ pc[t] \in {"claimed", "executing", "committed"}
          /\ st = "COMPLETED" => pc[t] = "committed"
    BY <1>8 DEF RejectStale, RejectAction, RejectLateCandidate, HandlerFails, HandlerReturns
  <2> QED BY <1>7, <2>1
<1>9. ASSUME NEW t \in Threads, BeatRead(t) PROVE Moves
  <2> DEFINE b == tasks[beat[t].task].body
             copy == [beat[t] EXCEPT !.pc = "renewing", !.body = [b EXCEPT !.live = TRUE]]
  <2>1. b \in Body
    BY <1>9, KeysTyped DEF BeatRead, TypeOK, BeatType, Row
  <2>2. CASE beat' = [beat EXCEPT ![t] = copy] /\ b.status = "RUNNING"
    <3>1. copy.body.status = "RUNNING"
      BY <1>0, <2>1, <2>2 DEF Body
    <3> HIDE DEF copy
    <3>2. beat'[t] = copy /\ beat' = [beat EXCEPT ![t] = beat'[t]]
      BY <1>0, <2>2
    <3> QED BY <1>0, <1>9, <1>b, <2>2, <3>1, <3>2 DEF BeatRead, BeatMove
  <2>3. CASE beat' = [beat EXCEPT ![t] = NoBeat]
    <3>1. NoBeat.pc # "renewing"
      BY DEF NoBeat
    <3>2. BeatMove(u)
      BY <1>0, <2>3, <3>1 DEF BeatMove
    <3> QED BY <1>9, <1>b, <3>2 DEF BeatRead
  <2> QED BY <1>9, <2>2, <2>3 DEF BeatRead
<1>10. ASSUME NEW t \in Threads, BeatWrite(t) \/ BeatDies(t) PROVE Moves
  <2>1. CopyMove(u)
    BY <1>10, <1>b DEF BeatWrite, BeatDies
  <2>2. PICK b : beat' = [beat EXCEPT ![t] = b] /\ b.pc # "renewing"
    <3>1. CASE BeatWrite(t) /\ pc[t] \in {"executing", "committed"}
      <4>1. beat' = [beat EXCEPT ![t] = [beat[t] EXCEPT !.pc = "on", !.body = NewBody]]
        BY <3>1 DEF BeatWrite
      <4>2. [beat[t] EXCEPT !.pc = "on", !.body = NewBody].pc = "on"
        BY <1>0
      <4> QED BY <4>1, <4>2
    <3>2. CASE BeatDies(t) \/ pc[t] \notin {"executing", "committed"}
      <4>1. beat' = [beat EXCEPT ![t] = NoBeat] /\ NoBeat.pc = "off"
        BY <1>10, <3>2 DEF BeatWrite, BeatDies, NoBeat
      <4> QED BY <4>1
    <3> QED BY <1>10, <3>1, <3>2
  <2> QED BY <1>0, <2>1, <2>2 DEF BeatMove
<1>11. ASSUME NEW i \in Rows, Clock(i) \/ RetryRequest(i) PROVE Moves
  BY <1>11, <1>a, <1>b DEF Clock, LeaseExpires, BackoffElapses, RetryRequest
<1>12. ASSUME NEW t \in Threads, ReclaimRead(t) PROVE Moves
  <2> DEFINE stale(i) == [tasks[i].body EXCEPT !.status = "STALE", !.live = FALSE]
  <2>1. \A i \in Rows : stale(i).status = "STALE"
    BY KeysTyped DEF Row, Body
  <2>2. \/ pc' = [pc EXCEPT ![t] = "idle"] /\ lease' = lease
        \/ /\ pc' = [pc EXCEPT ![t] = "reclaim"]
           /\ \E i \in Rows : lease' = [lease EXCEPT ![t] = [task |-> i, body |-> stale(i)]]
    BY <1>12 DEF ReclaimRead, Goto
  <2> HIDE DEF stale
  <2>3. CopyMove(u)
    BY <1>0, <2>1, <2>2 DEF CopyMove, Stays, Leaves, Reclaims
  <2> QED BY <1>12, <1>a, <2>3 DEF ReclaimRead
<1>13. ASSUME DecideGate \/ EditState PROVE Moves
  BY <1>13, <1>a, <1>b DEF DecideGate, EditState
<1>14. ASSUME Crash PROVE Moves
  BY <1>14 DEF Crash, NoBeat, CopyMove, Leaves, BeatMove
<1>15. CASE UNCHANGED vars
  BY <1>15, <1>a, <1>b DEF vars
<1>16. Moves
  BY <1>1, <1>2, <1>3, <1>4, <1>5, <1>6, <1>8, <1>9, <1>10, <1>11, <1>12, <1>13, <1>14, <1>15
     DEF Next, Continue, Recover, ThreadStep, HandlerEnds, BeatStep, Threads
<1> QED BY <1>16

\* Copies keep the status that belongs to their place.
LEMMA CopiesStep ==
  ASSUME TypeOK, CopiesOK, [Next]_vars
  PROVE  CopiesOK'
<1> SUFFICES ASSUME NEW u \in Threads
             PROVE  /\ pc'[u] \in {"claiming", "claimed", "executing", "committed"}
                         => lease'[u].body.status = "RUNNING"
                    /\ pc'[u] \in {"report", "reclaim"} => lease'[u].body.status # "RUNNING"
                    /\ pc'[u] = "reclaim" => lease'[u].body.status = "STALE"
                    /\ beat'[u].pc = "renewing" => beat'[u].body.status = "RUNNING"
  BY DEF CopiesOK
<1>1. CopyMove(u) /\ BeatMove(u)
  BY CopySteps
<1>2. beat'[u].pc = "renewing" => beat'[u].body.status = "RUNNING"
  BY <1>1 DEF BeatMove, CopiesOK
<1>3. pc \in [Threads -> PCs]
  BY DEF TypeOK
<1>4. CASE Stays(u)
  BY <1>2, <1>4 DEF Stays, CopiesOK
<1>5. CASE Leaves(u)
  BY <1>2, <1>5 DEF Leaves
<1>6. CASE ReadsRow(u)
  BY <1>2, <1>3, <1>6 DEF ReadsRow
<1>7. CASE Proceeds(u)
  BY <1>2, <1>7 DEF Proceeds, CopiesOK
<1>8. CASE Ends(u)
  BY <1>2, <1>8 DEF Ends
<1>9. CASE Reclaims(u)
  BY <1>2, <1>9 DEF Reclaims
<1> QED BY <1>1, <1>4, <1>5, <1>6, <1>7, <1>8, <1>9 DEF CopyMove

\* The lock keeps one holder.
LEMMA LockStep ==
  ASSUME TypeOK, LockOK, [Next]_vars
  PROVE  LockOK'
<1> SUFFICES ASSUME NEW t \in Threads, NEW u \in Threads, pc'[t] = "claiming"
             PROVE  beat'[u].pc # "renewing" /\ (pc'[u] = "claiming" => t = u)
  BY DEF LockOK
<1>0. pc \in [Threads -> PCs]
  BY DEF TypeOK
<1>1. \A v \in Threads : pc'[v] = "claiming" => pc[v] = "claiming" \/ ReadsRow(v)
  BY CopySteps DEF CopyMove, Stays, Leaves, Proceeds, Ends, Reclaims
<1>2. beat'[u].pc # "renewing"
  BY <1>1, CopySteps DEF BeatMove, LockOK, RepositoryFree, ReadsRow
<1>3. ASSUME pc'[u] = "claiming" PROVE t = u
  BY <1>0, <1>1, <1>3 DEF LockOK, RepositoryFree, ReadsRow
<1> QED BY <1>2, <1>3

----------------------------------------------------------------------------
(* The rows a claim has read, the outcomes and the rows themselves. *)

\* A row that a claim has read gets no lease before the claim writes it.
LEMMA SnapshotStep ==
  ASSUME TypeOK, LockOK, CopiesOK, SnapshotOK, [Next]_vars
  PROVE  SnapshotOK'
<1> SUFFICES ASSUME NEW u \in Threads, pc'[u] = "claiming"
             PROVE  ~(/\ tasks'[lease'[u].task].body.status = "RUNNING"
                      /\ tasks'[lease'[u].task].body.live)
  BY DEF SnapshotOK, Leased
<1>1. Stays(u) \/ ReadsRow(u)
  BY CopySteps DEF CopyMove, Leaves, Proceeds, Ends, Reclaims
<1>2. CASE ReadsRow(u)
  BY <1>2 DEF ReadsRow, Claimable
<1>3. CASE Stays(u)
  <2> DEFINE i == lease[u].task
  <2>1. pc[u] = "claiming" /\ lease'[u].task = i /\ i \in Rows /\ ~Leased(i)
    BY <1>3 DEF Stays, SnapshotOK, TypeOK, LeaseType, Working
  <2>2. CASE UNCHANGED tasks
    BY <2>1, <2>2 DEF Leased
  <2>3. CASE \E key \in Key : Enqueue(key)
    BY <2>1, <2>3, EnqueueColumns DEF Leased
  <2>4. CASE \E t \in Threads : /\ pc[t] \in {"claiming", "report", "reclaim"}
                                /\ WriteRow(t) /\ pc'[t] # "claiming"
    <3> PICK t \in Threads : /\ pc[t] \in {"claiming", "report", "reclaim"}
                             /\ WriteRow(t) /\ pc'[t] # "claiming"
      BY <2>4
    <3>1. pc[t] \in {"report", "reclaim"} /\ lease[t].body.status # "RUNNING"
      BY <2>1 DEF LockOK, CopiesOK
    <3> QED BY <2>1, <3>1, WriteRowColumns DEF Leased
  <2>5. CASE \E t \in Threads : BeatWrite(t)
    BY <2>1, <2>5 DEF LockOK, BeatWrite
  <2>6. CASE \E j \in Rows : Clock(j)
    BY <2>1, <2>6, ClockColumns DEF Leased
  <2> QED BY <2>2, <2>3, <2>4, <2>5, <2>6, TableSteps
<1> QED BY <1>1, <1>2, <1>3

\* Candidates stay committed.
LEMMA CommitsKept ==
  ASSUME TypeOK, [Next]_vars
  PROVE  commits \subseteq commits'
BY CommitSteps

\* A thread reports a completion only of what it has committed.
LEMMA OutcomeStep ==
  ASSUME TypeOK, OutcomeOK, [Next]_vars
  PROVE  OutcomeOK'
<1> SUFFICES ASSUME NEW u \in Threads,
                    \/ pc'[u] = "committed"
                    \/ pc'[u] = "report" /\ lease'[u].body.status = "COMPLETED"
             PROVE  \E c \in commits' : c.task = lease'[u].task
  BY DEF OutcomeOK
<1>1. Stays(u) \/ Proceeds(u) \/ Ends(u)
  BY CopySteps DEF CopyMove, Leaves, ReadsRow, Reclaims, TypeOK
<1>2. CASE Stays(u)
  BY <1>2, CommitsKept DEF Stays, OutcomeOK
<1>3. CASE Proceeds(u)
  BY <1>3 DEF Proceeds
<1>4. CASE Ends(u)
  BY <1>4, CommitsKept DEF Ends, OutcomeOK
<1> QED BY <1>1, <1>2, <1>3, <1>4

\* A row shows a completion only once its candidate is committed.
LEMMA CompletedStep ==
  ASSUME TypeOK, CopiesOK, OutcomeOK, CompletedWasCommitted, [Next]_vars
  PROVE  CompletedWasCommitted'
<1> SUFFICES ASSUME NEW i \in Rows',
                    tasks'[i].column = "COMPLETED" \/ tasks'[i].body.status = "COMPLETED"
             PROVE  \E c \in commits' : c.task = i
  BY DEF CompletedWasCommitted
<1>1. \A c \in commits : c \in commits'
  BY CommitsKept
<1>2. ASSUME i \in Rows, tasks[i].column = "COMPLETED" \/ tasks[i].body.status = "COMPLETED"
      PROVE  \E c \in commits' : c.task = i
  BY <1>1, <1>2 DEF CompletedWasCommitted
<1>3. CASE UNCHANGED tasks
  BY <1>2, <1>3 DEF Rows
<1>4. CASE \E key \in Key : Enqueue(key)
  BY <1>2, <1>4, EnqueueColumns
<1>5. CASE \E t \in Threads : /\ pc[t] \in {"claiming", "report", "reclaim"}
                              /\ WriteRow(t) /\ pc'[t] # "claiming"
  <2> PICK t \in Threads : pc[t] \in {"claiming", "report", "reclaim"} /\ WriteRow(t)
    BY <1>5
  <2>1. CASE i # lease[t].task
    BY <1>2, <2>1, WriteRowColumns
  <2>2. CASE i = lease[t].task
    <3>1. lease[t].body.status = "COMPLETED"
      BY <2>2, WriteRowColumns
    <3>2. pc[t] = "report"
      BY <3>1 DEF CopiesOK
    <3> QED BY <1>1, <2>2, <3>1, <3>2 DEF OutcomeOK
  <2> QED BY <2>1, <2>2
<1>6. CASE \E t \in Threads : BeatWrite(t)
  <2> PICK t \in Threads : BeatWrite(t)
    BY <1>6
  <2>1. beat[t].body.status = "RUNNING"
    BY DEF BeatWrite, CopiesOK
  <2> QED BY <1>2, <2>1, BeatWriteColumns
<1>7. CASE \E j \in Rows : Clock(j)
  BY <1>2, <1>7, ClockColumns
<1> QED BY <1>3, <1>4, <1>5, <1>6, <1>7, TableSteps

\* A row that its column makes claimable keeps a pending body.
LEMMA ClaimableStep ==
  ASSUME TypeOK, CopiesOK, ClaimableIsPending, [Next]_vars
  PROVE  ClaimableIsPending'
<1> SUFFICES ASSUME NEW i \in Rows', tasks'[i].column \in Pending
             PROVE  tasks'[i].body.status \in Pending
  BY DEF ClaimableIsPending
<1>1. CASE UNCHANGED tasks
  BY <1>1 DEF Rows, ClaimableIsPending
<1>2. CASE \E key \in Key : Enqueue(key)
  BY <1>2, EnqueueColumns DEF ClaimableIsPending, Pending
<1>3. CASE \E t \in Threads : /\ pc[t] \in {"claiming", "report", "reclaim"}
                              /\ WriteRow(t) /\ pc'[t] # "claiming"
  BY <1>3, WriteRowColumns DEF ClaimableIsPending
<1>4. CASE \E t \in Threads : BeatWrite(t)
  <2> PICK t \in Threads : BeatWrite(t)
    BY <1>4
  <2>1. beat[t].body.status = "RUNNING"
    BY DEF BeatWrite, CopiesOK
  <2> QED BY <2>1, BeatWriteColumns DEF ClaimableIsPending, Pending
<1>5. CASE \E j \in Rows : Clock(j)
  BY <1>5, ClockColumns DEF ClaimableIsPending
<1> QED BY <1>1, <1>2, <1>3, <1>4, <1>5, TableSteps

----------------------------------------------------------------------------
(* The inductive invariant, and what it implies. *)

\* The inductive invariant holds at the start: there are no rows.
LEMMA InitInv == Init => IInv
<1> SUFFICES ASSUME Init PROVE IInv
  OBVIOUS
<1>1. TypeOK
  BY InitType
<1>2. Rows = {}
  BY LenProperties, EmptySeq DEF Init, Rows
<1>3. \A t \in Threads : pc[t] = "idle" /\ beat[t].pc = "off"
  BY DEF Init, NoBeat
<1>4. CommitsFollowRevisions /\ CopiesOK /\ LockOK /\ SnapshotOK /\ OutcomeOK
  BY <1>3 DEF Init, CommitsFollowRevisions, CopiesOK, LockOK, SnapshotOK, OutcomeOK
<1> QED BY <1>1, <1>2, <1>4
        DEF IInv, OneTaskPerKey, CompletedWasCommitted, ClaimableIsPending

\* Every step preserves the inductive invariant.
LEMMA InvStep == IInv /\ [Next]_vars => IInv'
<1> SUFFICES ASSUME IInv, [Next]_vars PROVE IInv'
  OBVIOUS
<1> USE DEF IInv
<1>1. TypeOK'
  BY TypeStep
<1>2. OneTaskPerKey' /\ CommitsFollowRevisions'
  BY KeysStep, CommitsStep
<1>3. CopiesOK' /\ LockOK' /\ SnapshotOK' /\ OutcomeOK'
  BY CopiesStep, LockStep, SnapshotStep, OutcomeStep
<1>4. CompletedWasCommitted' /\ ClaimableIsPending'
  BY CompletedStep, ClaimableStep
<1> QED BY <1>1, <1>2, <1>3, <1>4

\* The inductive invariant holds in every reachable state.
THEOREM Safety == Spec => []IInv
<1> QED BY InitInv, InvStep, PTL DEF Spec

\* Two rows never share an idempotency key.
THEOREM KeysUnique == Spec => []OneTaskPerKey
<1>1. IInv => OneTaskPerKey
  BY DEF IInv
<1> QED BY <1>1, Safety, PTL

\* At most one candidate is committed per revision and per task, and only on
\* the revision the task was queued for.
THEOREM CommitsCorrect == Spec => []CommitsFollowRevisions
<1>1. IInv => CommitsFollowRevisions
  BY DEF IInv
<1> QED BY <1>1, Safety, PTL

\* A task recorded COMPLETED has committed its candidate.
THEOREM CompletionsCorrect == Spec => []CompletedWasCommitted
<1>1. IInv => CompletedWasCommitted
  BY DEF IInv
<1> QED BY <1>1, Safety, PTL

\* A finished task is never claimable.
THEOREM ClaimsCorrect == Spec => []ClaimableIsPending
<1>1. IInv => ClaimableIsPending
  BY DEF IInv
<1> QED BY <1>1, Safety, PTL

\* A claim never takes a task away under a live lease.
THEOREM LeasesRespected == Spec => ClaimRespectsLease
<1>1. IInv /\ [Next]_vars
        => [\A t \in Threads : pc[t] = "claiming" /\ pc'[t] = "claimed"
                                => ~Leased(lease[t].task)]_vars
  BY DEF IInv, SnapshotOK
<1> QED BY <1>1, Safety, PTL DEF Spec, ClaimRespectsLease
=============================================================================
