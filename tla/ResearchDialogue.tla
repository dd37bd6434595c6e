-------------------------- MODULE ResearchDialogue --------------------------
(***************************************************************************)
(* What the conversation remembers of one project: the facts the           *)
(* researcher has told, and the graph of claims and evidence with their    *)
(* standing.  Requests read, work (also with a language model) and write   *)
(* back; the graph is written only if its version has not moved, but the   *)
(* version is compared in a statement of its own.                          *)
(***************************************************************************)
EXTENDS Naturals, FiniteSets

CONSTANTS
  Calls,       \* request threads
  Evidence,    \* sources that answers and packages cite
  Claims,      \* assertions a message may make: assumption nodes
  Scope,       \* the question a package is filed under without any claim
  NumKeys,     \* the questions of the guided brief, in their order
  MaxVersion,  \* bound: saves of the graph
  MaxLinks,    \* bound: relations that one answer or package brings
  None

Keys == 1 .. NumKeys
Targets == Claims \cup {Scope}
Nodes == Evidence \cup Targets

ASSUME ConstantsAssumption ==
  /\ NumKeys \in Nat /\ MaxVersion \in Nat /\ MaxLinks \in Nat
  /\ None \notin (0 .. NumKeys) \cup Nodes
  /\ Evidence \cap Targets = {} /\ Scope \notin Claims

VARIABLES
  graph,     \* the row of research_belief_graphs
  memory,    \* the questions of the brief that are answered
  shown,     \* the question of the brief that the last answer displayed, 0
             \* if another or none, None if there was no answer
  misfiled,  \* history: an answer was filed under a question not displayed
  pc, job,   \* what each request does, and its local data
  raced      \* history: requests that compared versions while another wrote

vars == <<graph, memory, shown, misfiled, pc, job, raced>>

Standings == {"none", "tentative", "established", "disputed"}
Relations == {"supports", "contradicts"}
Edges == Evidence \X Targets \X Relations

EmptyGraph == [version |-> 0, node |-> [n \in Nodes |-> "none"], edges |-> {}, guided |-> None]

NoJob == [base |-> 0, graph |-> EmptyGraph, next |-> "idle", question |-> None]

Init ==
  /\ graph = EmptyGraph
  /\ memory = {}
  /\ shown = None
  /\ misfiled = FALSE
  /\ pc = [c \in Calls |-> "idle"]
  /\ job = [c \in Calls |-> NoJob]
  /\ raced = {}

\* A request goes on with the question it will display, or ends.
Proceeds(c, from, to, question) ==
  /\ pc[c] = from
  /\ pc' = [pc EXCEPT ![c] = to]
  /\ job' = [job EXCEPT ![c] = [NoJob EXCEPT !.question = question]]

\* The patched graph goes on to be saved; a patch that changes nothing is
\* not saved.  Contents of nodes are not modelled: they may have changed.
Proposes(c, from, new, next, question) ==
  \/ /\ pc[c] = from /\ graph.version < MaxVersion
     /\ pc' = [pc EXCEPT ![c] = "checking"]
     /\ job' = [job EXCEPT ![c] = [base |-> graph.version, graph |-> new,
                                   next |-> next, question |-> question]]
  \/ /\ new = [graph EXCEPT !.version = @ + 1]
     /\ Proceeds(c, from, next, question)

Patched(node, edges, guided) ==
  [version |-> graph.version + 1, node |-> node, edges |-> edges, guided |-> guided]

----------------------------------------------------------------------------
(* A turn: project_conversation and prepare_turn.                           *)

\* A message tells facts under their labels, and may be taken as the answer
\* to the question that is stored.
BeginTurn(c) ==
  \E told \in SUBSET Keys, slot \in BOOLEAN :
    LET filed == IF slot /\ graph.guided \notin told THEN graph.guided ELSE None
    IN  /\ Proceeds(c, "idle", "observing", None)
        /\ memory' = memory \cup told \cup ({filed} \ {None})
        /\ misfiled' = (misfiled \/ (filed # None /\ shown \notin {filed, None}))
        /\ UNCHANGED <<graph, shown, raced>>

\* The stored question as long as it is open, then the first open one.
NextQuestion ==
  LET open == Keys \ memory
  IN  IF graph.guided \in open THEN graph.guided
      ELSE IF open = {} THEN None
      ELSE CHOOSE k \in open : \A j \in open : k <= j

\* The message makes a claim or none; a claim made, also one made again, is
\* tentative.  The brief stores its next question unless another takes
\* precedence, but the one about measurement is displayed in its place.
Observe(c) ==
  \E claim \in Claims \cup {None}, asks \in {"brief", "measurement", "other"} :
    LET question == IF asks = "other" THEN None ELSE NextQuestion
    IN  /\ Proposes(c, "observing",
                    Patched([n \in Nodes |-> IF n = claim THEN "tentative" ELSE graph.node[n]],
                            graph.edges, IF question = None THEN graph.guided ELSE question),
                    "answering",
                    IF asks = "brief" /\ question # None THEN question ELSE 0)
        /\ UNCHANGED <<graph, memory, shown, misfiled, raced>>

\* The answer, which may cite nothing, goes out with its question.
Reply(c) ==
  /\ pc[c] \in {"answering", "replying"}
  /\ shown' = job[c].question
  /\ Proceeds(c, pc[c], "idle", None)
  /\ UNCHANGED <<graph, memory, misfiled, raced>>

----------------------------------------------------------------------------
(* SQLiteResearchGraphStore.save.                                           *)

\* Mutant: the version is not compared.
AnyVersion(base) == TRUE

SameVersion(base) == graph.version = base

AtWork == {c \in Calls : pc[c] = "writing"}

\* The version is compared ...
CheckVersion(c) ==
  /\ pc[c] = "checking" /\ SameVersion(job[c].base)
  /\ pc' = [pc EXCEPT ![c] = "writing"]
  /\ raced' = IF AtWork = {} THEN raced ELSE raced \cup AtWork \cup {c}
  /\ UNCHANGED <<graph, memory, shown, misfiled, job>>

\* ... and a turn or projection that is too old raises.
Conflict(c) ==
  /\ ~SameVersion(job[c].base)
  /\ Proceeds(c, "checking", "idle", None)
  /\ UNCHANGED <<graph, memory, shown, misfiled, raced>>

WriteGraph(c) ==
  /\ Proceeds(c, "writing", job[c].next, job[c].question)
  /\ graph' = job[c].graph
  /\ raced' = raced \ {c}
  /\ UNCHANGED <<memory, shown, misfiled>>

----------------------------------------------------------------------------
(* Evidence: integrate_evidence and integrate_evidence_package.             *)

\* Evidence is cited as located and verified, or not.
Citations == UNION {[S -> {"established", "tentative"}] : S \in SUBSET Evidence}

Cited(cited) == [n \in Nodes |-> IF n \in DOMAIN cited THEN cited[n] ELSE graph.node[n]]

Links(S) == {T \in SUBSET S : Cardinality(T) <= MaxLinks}

Present == {t \in Targets : graph.node[t] # "none"}

Trusted(node, edges, t, relation) ==
  {e \in Evidence : node[e] = "established" /\ <<e, t, relation>> \in edges}

\* Mutant: one source establishes a claim.
RevisedByOne(node, edges, t) ==
  IF Trusted(node, edges, t, "contradicts") # {} THEN "disputed"
  ELSE IF node[t] = "tentative" /\ Trusted(node, edges, t, "supports") # {} THEN "established"
  ELSE node[t]

\* What the established evidence for and against a target makes of it.
Revised(node, edges, t) ==
  IF Trusted(node, edges, t, "contradicts") # {} THEN "disputed"
  ELSE IF node[t] = "tentative" /\ \E d, e \in Trusted(node, edges, t, "supports") : d # e
       THEN "established"
  ELSE node[t]

Revision(node, edges, revisable) ==
  [n \in Nodes |-> IF n \in revisable THEN Revised(node, edges, n) ELSE node[n]]

\* Mutant: a relation may name a source that the answer does not cite.
IntegrateAnyLink(c) ==
  \E cited \in Citations : \E new \in Links(Evidence \X Present \X Relations) :
    LET node == Cited(cited)
        edges == graph.edges \cup new
    IN  /\ Proposes(c, "answering",
                    Patched(Revision(node, edges, Present), edges, graph.guided),
                    "replying", job[c].question)
        /\ UNCHANGED <<graph, memory, shown, misfiled, raced>>

\* The answer cites evidence, and the model says what of it supports or
\* contradicts what is in the graph.
IntegrateEvidence(c) ==
  \E cited \in Citations : \E new \in Links((DOMAIN cited) \X Present \X Relations) :
    LET node == Cited(cited)
        edges == graph.edges \cup new
    IN  /\ Proposes(c, "answering",
                    Patched(Revision(node, edges, Present), edges, graph.guided),
                    "replying", job[c].question)
        /\ UNCHANGED <<graph, memory, shown, misfiled, raced>>

\* A review package has its own relations; all of them are filed under one
\* claim, or under the question of its scope as long as there is no claim.
ProjectPackage(c) ==
  \E cited \in Citations : \E rows \in Links((DOMAIN cited) \X Relations) :
    LET claims == Present \cap Claims
        node == [Cited(cited) EXCEPT ![Scope] = IF claims = {} /\ @ = "none" THEN "tentative" ELSE @]
    IN  \E target \in (IF claims = {} THEN {Scope} ELSE claims) :
          LET edges == graph.edges \cup {<<r[1], target, r[2]>> : r \in rows}
          IN  /\ Proposes(c, "idle",
                          Patched(Revision(node, edges, claims), edges, graph.guided), "idle", None)
              /\ UNCHANGED <<graph, memory, shown, misfiled, raced>>

----------------------------------------------------------------------------
\* A request ends without more: a model call raises, or the process dies.
Stop(c) ==
  /\ pc[c] # "idle"
  /\ Proceeds(c, pc[c], "idle", None)
  /\ shown' = None
  /\ raced' = raced \ {c}
  /\ UNCHANGED <<graph, memory, misfiled>>

CallNext(c) ==
  \/ BeginTurn(c) \/ Observe(c) \/ Reply(c)
  \/ CheckVersion(c) \/ Conflict(c) \/ WriteGraph(c)
  \/ IntegrateEvidence(c) \/ ProjectPackage(c) \/ Stop(c)

Next == \E c \in Calls : CallNext(c)

Spec == Init /\ [][Next]_vars

----------------------------------------------------------------------------
Graphs == [version : 0 .. MaxVersion, node : [Nodes -> Standings], edges : SUBSET Edges,
           guided : Keys \cup {None}]
Jobs == [base : 0 .. MaxVersion, graph : Graphs, next : {"idle", "answering", "replying"},
         question : (0 .. NumKeys) \cup {None}]

\* Types.
TypeOK ==
  /\ graph \in Graphs
  /\ memory \subseteq Keys
  /\ shown \in (0 .. NumKeys) \cup {None}
  /\ misfiled \in BOOLEAN
  /\ pc \in [Calls -> {"idle", "observing", "answering", "checking", "writing", "replying"}]
  /\ job \in [Calls -> Jobs]
  /\ raced \subseteq Calls

\* Relations between nodes that are there.
Resolved(node, edges) == \A x \in edges : node[x[1]] # "none" /\ node[x[2]] # "none"

Supported(k, edges) ==
  \E d, e \in Evidence : d # e /\ <<d, k, "supports">> \in edges /\ <<e, k, "supports">> \in edges

Founded(node, edges, k) ==
  /\ node[k] = "established" =>
       Supported(k, edges) /\ Trusted(node, edges, k, "contradicts") = {}
  /\ node[k] = "disputed" => \E e \in Evidence : <<e, k, "contradicts">> \in edges

\* What supports or contradicts is in the graph, and so is what it is about. (One
\* request at a time in the run, any overlap in theorem Resolves.)
EdgesResolve == Resolved(graph.node, graph.edges)

\* A claim stands as established only on two sources, and never against an
\* established source that contradicts it; it is disputed only because a
\* source does: in whatever order sources are told, verified, contradicted and
\* cited again. (One request at a time in the run; that graphs which overwrite
\* each other keep it is theorem Beliefs.)
BeliefsAreFounded == \A k \in Claims : Founded(graph.node, graph.edges, k)

\* What is written is made from the graph that it replaces, except where
\* two requests compared their versions before either wrote.
StaleOnlyInRace ==
  \A c \in Calls : pc[c] = "writing" /\ c \notin raced => job[c].base = graph.version

\* "The planner displayed this question on the previous turn. Keep the
\* researcher's free-form answer under that exact slot."
AnswersTheQuestion == ~misfiled
=============================================================================
