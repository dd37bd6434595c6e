--------------------------- MODULE CommandJournal ---------------------------
(***************************************************************************)
(* The durable journal of conversation commands of one project and the     *)
(* HTTP calls that go through it (project_conversation_command): a call    *)
(* registers its turn, executes the orchestration only if the turn is new, *)
(* records the response and returns it; a repeated call is answered from   *)
(* the journal.                                                            *)
(*                                                                         *)
(* Granularity: one action per journal transaction; executing the          *)
(* orchestration and handing the response to the client are steps of       *)
(* their own.  What the orchestration does is only its kind of outcome.    *)
(***************************************************************************)
EXTENDS Naturals, Sequences

CONSTANTS
  Calls,         \* threads that serve the HTTP calls
  Ids, NoId,     \* client_turn_id values; NoId: the client sent none
  Contents,      \* actor and request hash of a call
  MaxTurns,      \* bound: rows of the journal
  MaxFaults      \* bound: restarts and failed journal writes

ASSUME IdsAssumption == NoId \notin Ids
ASSUME LimitAssumption == MaxTurns \in Nat /\ MaxFaults \in Nat

VARIABLES
  turns,   \* orchestration_conversation_turns, in ordinal order
  runs,    \* how often the orchestration was executed for each row
  pc,      \* where each call is
  job,     \* the row a call created and the outcome it has for it
  given,   \* the responses clients were given
  faults

vars == <<turns, runs, pc, job, given, faults>>

NoResponse == [kind |-> "none", to |-> "none"]
Kinds == {"answer", "error"}
Response == [kind : Kinds, to : Contents]
Rows == DOMAIN turns
NoJob == [row |-> 0, outcome |-> "none"]

Goto(c, l) == pc' = [pc EXCEPT ![c] = l]

Init == /\ turns = <<>>
        /\ runs = [i \in 1..MaxTurns |-> 0]
        /\ pc = [c \in Calls |-> "idle"]
        /\ job = [c \in Calls |-> NoJob]
        /\ given = {}
        /\ faults = 0

\* The row of a client's turn number (insert or ignore under the unique index).
RowOf(id) == {i \in Rows : id # NoId /\ turns[i].id = id}

NewTurn(id, content) ==
  [id |-> id, content |-> content, status |-> "received", response |-> NoResponse]

\* Mutant of SameRequest: the hash is not compared.
AnyRequest(i, content) == TRUE
SameRequest(i, content) == turns[i].content = content

\* journal.begin creates the row: this call executes the turn.
Accept(c, id, content) ==
  /\ pc[c] = "idle" /\ RowOf(id) = {} /\ Len(turns) < MaxTurns
  /\ turns' = Append(turns, NewTurn(id, content))
  /\ job' = [job EXCEPT ![c] = [row |-> Len(turns) + 1, outcome |-> "none"]]
  /\ Goto(c, "received")
  /\ UNCHANGED <<runs, given, faults>>

\* journal.begin finds the row with a response: the call returns it.
Replay(c, id, content) ==
  /\ pc[c] = "idle"
  /\ \E i \in RowOf(id) :
       /\ SameRequest(i, content)
       /\ turns[i].response # NoResponse
       /\ given' = given \cup {[row |-> i, asked |-> content, response |-> turns[i].response]}
  /\ UNCHANGED <<turns, runs, pc, job, faults>>

\* Mutant of Wait: a call that finds no response executes the turn again.
RunAgain(c, id, content) ==
  /\ pc[c] = "idle"
  /\ \E i \in RowOf(id) :
       /\ SameRequest(i, content) /\ turns[i].response = NoResponse
       /\ job' = [job EXCEPT ![c] = [row |-> i, outcome |-> "none"]]
  /\ Goto(c, "received")
  /\ UNCHANGED <<turns, runs, given, faults>>

\* journal.begin finds the row without a response: "being processed".  (Found
\* with another content, the call is refused; that changes nothing either.)
Wait(c, id, content) ==
  /\ pc[c] = "idle"
  /\ \E i \in RowOf(id) : SameRequest(i, content) /\ turns[i].response = NoResponse
  /\ UNCHANGED vars

\* journal.update: the status, and the response if there is one.
Update(i, status, response) ==
  turns' = [turns EXCEPT ![i] =
              [id |-> @.id, content |-> @.content, status |-> status,
               response |-> IF response = NoResponse THEN @.response ELSE response]]

StartProcessing(c) ==
  /\ pc[c] = "received"
  /\ Update(job[c].row, "processing", NoResponse)
  /\ Goto(c, "processing")
  /\ UNCHANGED <<runs, job, given, faults>>

\* _project_conversation_command_impl answers, returns an error response
\* (a Gate decision that is blocked or not permitted), or raises.
Execute(c) ==
  /\ pc[c] = "processing"
  /\ runs' = [runs EXCEPT ![job[c].row] = @ + 1]
  /\ \E o \in {"answer", "rejected", "error"} : job' = [job EXCEPT ![c].outcome = o]
  /\ Goto(c, "executed")
  /\ UNCHANGED <<turns, given, faults>>

\* The response that is recorded for an outcome: none for an error response.
Recorded(c) ==
  IF job[c].outcome = "rejected" THEN NoResponse
  ELSE [kind |-> job[c].outcome, to |-> turns[job[c].row].content]

\* Mutant of Record: an exception leaves the journal alone.
RecordUnlessRaised(c) ==
  /\ pc[c] = "executed"
  /\ IF job[c].outcome = "error" THEN UNCHANGED turns
     ELSE Update(job[c].row, IF job[c].outcome = "answer" THEN "completed" ELSE "failed", Recorded(c))
  /\ Goto(c, "recorded")
  /\ UNCHANGED <<runs, job, given, faults>>

\* journal.update at the end of the call.
Record(c) ==
  /\ pc[c] = "executed"
  /\ Update(job[c].row, IF job[c].outcome = "answer" THEN "completed" ELSE "failed", Recorded(c))
  /\ Goto(c, "recorded")
  /\ UNCHANGED <<runs, job, given, faults>>

\* The client gets what was recorded (an error as a failed call), or the
\* error response.
Reply(c) ==
  /\ pc[c] = "recorded"
  /\ given' = given \cup
       IF job[c].outcome = "rejected" THEN {}
       ELSE {[row |-> job[c].row, asked |-> turns[job[c].row].content, response |-> Recorded(c)]}
  /\ job' = [job EXCEPT ![c] = NoJob]
  /\ Goto(c, "idle")
  /\ UNCHANGED <<turns, runs, faults>>

\* A journal write raises (database locked, a response that JSON cannot
\* encode): the handler records an error, whatever the outcome was.
UpdateRaises(c) ==
  /\ pc[c] \in {"received", "executed"} /\ job[c].outcome # "error"
  /\ faults < MaxFaults
  /\ faults' = faults + 1
  /\ job' = [job EXCEPT ![c].outcome = "error"]
  /\ Goto(c, "executed")
  /\ UNCHANGED <<turns, runs, given>>

\* ... and when that write raises too, the call ends with nothing recorded.
ErrorIsLost(c) ==
  /\ pc[c] = "executed" /\ job[c].outcome = "error"
  /\ faults < MaxFaults
  /\ faults' = faults + 1
  /\ job' = [job EXCEPT ![c] = NoJob]
  /\ Goto(c, "idle")
  /\ UNCHANGED <<turns, runs, given>>

\* The process dies and restarts.
Crash ==
  /\ faults < MaxFaults
  /\ faults' = faults + 1
  /\ pc' = [c \in Calls |-> "idle"]
  /\ job' = [c \in Calls |-> NoJob]
  /\ UNCHANGED <<turns, runs, given>>

Step(c) == StartProcessing(c) \/ Execute(c) \/ Record(c) \/ Reply(c)

Arrive(c) == \E id \in Ids \cup {NoId}, content \in Contents :
               Accept(c, id, content) \/ Replay(c, id, content) \/ Wait(c, id, content)

Next == \/ \E c \in Calls : Arrive(c) \/ Step(c) \/ UpdateRaises(c) \/ ErrorIsLost(c)
        \/ Crash

Spec == Init /\ [][Next]_vars

\* A call that has begun goes on.
LiveSpec == Spec /\ \A c \in Calls : WF_vars(Step(c))

----------------------------------------------------------------------------
(* Properties. *)

PCs == {"idle", "received", "processing", "executed", "recorded"}
Turn == [id : Ids \cup {NoId}, content : Contents,
         status : {"received", "processing", "completed", "failed"},
         response : Response \cup {NoResponse}]

TypeOK ==
  /\ turns \in Seq(Turn) /\ Len(turns) <= MaxTurns
  /\ runs \in [1..MaxTurns -> Nat]
  /\ pc \in [Calls -> PCs]
  /\ job \in [Calls -> [row : Rows \cup {0}, outcome : Kinds \cup {"none", "rejected"}]]
  /\ \A c \in Calls : pc[c] # "idle" => job[c].row \in Rows
  /\ given \subseteq [row : Rows, asked : Contents, response : Response]
  /\ faults \in 0..MaxFaults

\* A numbered turn is executed at most once, however often and however
\* concurrently the client repeats it, and whatever fails or restarts.
RunsOnce ==
  /\ \A i \in Rows : runs[i] <= 1
  /\ \A i, j \in Rows : i # j /\ turns[i].id = turns[j].id
                         => turns[i].id = NoId \/ runs[i] = 0 \/ runs[j] = 0

\* All callers of a turn are given one and the same response, and it is the
\* response to what each of them asked.
AnswersAgree ==
  \A g \in given : /\ g.response.to = g.asked
                   /\ \A h \in given : g.row = h.row => g.response = h.response

\* A call executes or records the turn.
Working(i) == \E c \in Calls : pc[c] # "idle" /\ job[c].row = i

\* A turn that a call is working on comes to its end, unless a restart or a
\* failed journal write intervenes.
TurnEnds ==
  \A i \in 1..MaxTurns, f \in 0..MaxFaults :
    (i \in Rows /\ Working(i) /\ faults = f)
      ~> (faults > f \/ (i \in Rows /\ ~Working(i) /\ turns[i].status \in {"completed", "failed"}))

(* The inductive strengthening: a turn number names one row, a row belongs to *)
(* the one call that created it, and only that call executes and records it. *)
IdsUnique == \A i, j \in Rows : turns[i].id = turns[j].id /\ turns[i].id # NoId => i = j

OneCallPerRow ==
  \A c, d \in Calls : /\ pc[c] # "idle" /\ pc[d] # "idle"
                      /\ job[c].row = job[d].row
                      => c = d

RunsCounted == \A i \in 1..MaxTurns : runs[i] <= 1 /\ (i \notin Rows => runs[i] = 0)

CallOK ==
  \A c \in Calls :
    /\ pc[c] \in {"received", "processing"} => runs[job[c].row] = 0
    /\ pc[c] \in {"received", "processing", "executed"}
         => turns[job[c].row].response = NoResponse
    /\ pc[c] \in {"executed", "recorded"} => job[c].outcome # "none"
    /\ pc[c] = "recorded" => turns[job[c].row].response = Recorded(c)

GivenOK ==
  /\ \A i \in Rows : turns[i].response \in {NoResponse} \cup [kind : Kinds, to : {turns[i].content}]
  /\ \A g \in given : /\ g.response = turns[g.row].response
                      /\ g.asked = turns[g.row].content

JInv == TypeOK /\ IdsUnique /\ OneCallPerRow /\ RunsCounted /\ CallOK /\ GivenOK

\* The journal keeps the promise of TurnOnce for the numbered turns.
ResponseOf(id) == IF \A i \in RowOf(id) : turns[i].response = NoResponse THEN NoResponse
                  ELSE turns[CHOOSE i \in RowOf(id) : TRUE].response
Ran == {id \in Ids : \E i \in RowOf(id) : runs[i] > 0}
Results == [id \in Ids |-> ResponseOf(id)]
Given == {[id |-> turns[g.row].id, result |-> g.response] :
            g \in {h \in given : turns[h.row].id # NoId}}
Promise == INSTANCE TurnOnce WITH
             Results <- Response, None <- NoResponse, ran <- Ran, result <- Results, given <- Given
KeepsPromise == Promise!Spec

----------------------------------------------------------------------------
(* What comments and messages of the repository say and the code does not do. *)

\* api.py:7793: a repeated call that finds no response arrives "while the
\* original request is still running"; api.py:7805 tells it so
\* (这条研究请求正在处理中, this request is being processed).
PendingIsRunning ==
  \A id \in Ids : \A i \in RowOf(id) : turns[i].response = NoResponse => Working(i)
=============================================================================
