----------------------- MODULE ResearchDialogueProofs -----------------------
(***************************************************************************)
(* The graph of a project keeps its relations resolved and its beliefs     *)
(* founded, whatever requests overlap: each proposed graph is sound by     *)
(* itself, and the stored graph is always one that was proposed.           *)
(***************************************************************************)
EXTENDS ResearchDialogue, WellFoundedInduction, TLAPS

Sound(g) ==
  Resolved(g.node, g.edges) /\ \A k \in Claims : Founded(g.node, g.edges, k)

Places == {"idle", "observing", "answering", "checking", "writing", "replying"}

\* Two requests that write at once are both marked.
WritersRaced ==
  \A c, d \in Calls : c # d /\ pc[c] = "writing" /\ pc[d] = "writing" => c \in raced

\* The inductive invariant: types, soundness of the stored graph and of
\* every graph that a request carries, and what a writer knows of versions.
DialogueInv ==
  /\ TypeOK
  /\ Sound(graph)
  /\ \A c \in Calls : Sound(job[c].graph)
  /\ WritersRaced
  /\ StaleOnlyInRace

----------------------------------------------------------------------------
(* Operators.                                                               *)

\* The empty graph and the local data of an idle request are of their types
\* and sound.
LEMMA EmptyIsSound ==
  /\ EmptyGraph \in Graphs /\ NoJob \in Jobs
  /\ Sound(EmptyGraph)
<1>1. EmptyGraph \in Graphs
  BY ConstantsAssumption DEF EmptyGraph, Graphs, Standings, Keys
<1>2. NoJob \in Jobs
  BY <1>1, ConstantsAssumption DEF NoJob, Jobs
<1>3. Claims \subseteq Nodes
  BY DEF Nodes, Targets
<1>4. Sound(EmptyGraph)
  BY <1>3 DEF Sound, EmptyGraph, Resolved, Founded
<1> QED BY <1>1, <1>2, <1>4

\* A revision keeps standings and takes no node away.
LEMMA RevisionKeeps ==
  ASSUME NEW node \in [Nodes -> Standings], NEW edges, NEW revisable
  PROVE  /\ Revision(node, edges, revisable) \in [Nodes -> Standings]
         /\ \A n \in Nodes : node[n] # "none" => Revision(node, edges, revisable)[n] # "none"
         /\ \A n \in Nodes : n \notin revisable => Revision(node, edges, revisable)[n] = node[n]
<1>1. \A n \in Nodes : Revised(node, edges, n) \in Standings
  BY DEF Revised, Standings
<1>2. \A n \in Nodes : node[n] # "none" => Revised(node, edges, n) # "none"
  BY DEF Revised
<1> QED BY <1>1, <1>2 DEF Revision

\* Revising all claims there are, after relations were added and sources
\* were cited, leaves every claim founded.
LEMMA RevisionIsSound ==
  ASSUME NEW node \in [Nodes -> Standings], NEW edges \in SUBSET Edges, NEW revisable,
         NEW old \in Graphs, Sound(old),
         old.edges \subseteq edges,
         \A k \in Claims : node[k] = old.node[k],
         \A k \in Claims : node[k] # "none" => k \in revisable,
         revisable \cap Evidence = {},
         Resolved(node, edges)
  PROVE  /\ Resolved(Revision(node, edges, revisable), edges)
         /\ \A k \in Claims : Founded(Revision(node, edges, revisable), edges, k)
<1> DEFINE rn == Revision(node, edges, revisable)
<1>1. Resolved(rn, edges)
  <2>1. \A x \in edges : x[1] \in Nodes /\ x[2] \in Nodes
    BY DEF Edges, Nodes
  <2> QED BY <2>1, RevisionKeeps DEF Resolved
<1>2. ASSUME NEW k \in Claims
      PROVE  Founded(rn, edges, k)
  <2>1. k \in Nodes /\ Evidence \subseteq Nodes
    BY DEF Nodes, Targets
  <2>2. \A e \in Evidence : rn[e] = node[e]
    BY <2>1, RevisionKeeps
  <2>3. Trusted(rn, edges, k, "contradicts") = Trusted(node, edges, k, "contradicts")
    BY <2>2 DEF Trusted
  <2>4. Founded(old.node, old.edges, k)
    BY DEF Sound
  <2>5. Supported(k, old.edges) => Supported(k, edges)
    BY DEF Supported
  <2>6. CASE k \notin revisable
    <3>1. rn[k] = "none"
      BY <2>1, <2>6, RevisionKeeps
    <3> QED BY <3>1 DEF Founded
  <2>7. CASE k \in revisable
    <3>1. rn[k] = Revised(node, edges, k)
      BY <2>1, <2>7 DEF Revision
    <3>2. ASSUME rn[k] = "established"
          PROVE  Supported(k, edges) /\ Trusted(node, edges, k, "contradicts") = {}
      <4>1. Trusted(node, edges, k, "contradicts") = {}
        BY <3>1, <3>2 DEF Revised
      <4>2. CASE node[k] = "established"
        BY <4>1, <4>2, <2>4, <2>5 DEF Founded
      <4>3. CASE node[k] # "established"
        <5>1. PICK d, e \in Trusted(node, edges, k, "supports") : d # e
          BY <3>1, <3>2, <4>1, <4>3 DEF Revised
        <5> QED BY <4>1, <5>1 DEF Trusted, Supported
      <4> QED BY <4>2, <4>3
    <3>3. ASSUME rn[k] = "disputed"
          PROVE  \E e \in Evidence : <<e, k, "contradicts">> \in edges
      <4>1. CASE Trusted(node, edges, k, "contradicts") # {}
        BY <4>1 DEF Trusted
      <4>2. CASE Trusted(node, edges, k, "contradicts") = {}
        <5>1. node[k] = "disputed"
          BY <3>1, <3>3, <4>2 DEF Revised
        <5> QED BY <5>1, <2>4 DEF Founded
      <4> QED BY <4>1, <4>2
    <3> QED BY <2>3, <3>2, <3>3 DEF Founded
  <2> QED BY <2>6, <2>7
<1> QED BY <1>1, <1>2

\* A patch is a graph of the next version.
LEMMA PatchedIsGraph ==
  ASSUME TypeOK, graph.version < MaxVersion,
         NEW node \in [Nodes -> Standings], NEW edges \in SUBSET Edges,
         NEW guided \in Keys \cup {None}
  PROVE  Patched(node, edges, guided) \in Graphs
BY ConstantsAssumption DEF TypeOK, Graphs, Patched

----------------------------------------------------------------------------
(* What the parts of an action do.                                          *)

\* Going on without a graph keeps everything that is about requests.
LEMMA ProceedsKeeps ==
  ASSUME DialogueInv, NEW c \in Calls, NEW from \in Places, NEW to \in Places \ {"writing"},
         NEW question \in (0 .. NumKeys) \cup {None},
         Proceeds(c, from, to, question),
         graph' = graph, raced' \in {raced, raced \ {c}},
         memory' \in SUBSET Keys, shown' \in (0 .. NumKeys) \cup {None}, misfiled' \in BOOLEAN
  PROVE  DialogueInv'
<1> USE DEF DialogueInv
<1>1. pc' = [pc EXCEPT ![c] = to] /\ pc \in [Calls -> Places]
  BY DEF Proceeds, TypeOK, Places
<1>2. job' = [job EXCEPT ![c] = [NoJob EXCEPT !.question = question]] /\ job \in [Calls -> Jobs]
  BY DEF Proceeds, TypeOK
<1>3. [NoJob EXCEPT !.question = question] \in Jobs
  BY EmptyIsSound DEF Jobs
<1>4. [NoJob EXCEPT !.question = question].graph = EmptyGraph
  BY DEF NoJob
<1>5. TypeOK'
  <2>1. pc' \in [Calls -> Places]
    BY <1>1
  <2>2. job' \in [Calls -> Jobs]
    BY <1>2, <1>3
  <2>3. raced' \subseteq Calls
    BY DEF TypeOK
  <2> QED BY <2>1, <2>2, <2>3 DEF TypeOK, Places
<1>6. \A d \in Calls : Sound(job[d].graph)'
  BY <1>2, <1>4, EmptyIsSound DEF Sound
<1>7. \A d \in Calls : pc'[d] = "writing" => d # c /\ pc[d] = "writing" /\ job'[d] = job[d]
                                           /\ (d \in raced' <=> d \in raced)
  BY <1>1, <1>2
<1>8. WritersRaced'
  BY <1>7 DEF WritersRaced
<1>9. StaleOnlyInRace'
  BY <1>7 DEF StaleOnlyInRace
<1> QED BY <1>5, <1>6, <1>8, <1>9 DEF Sound

\* So does a proposal, if what it proposes is sound.
LEMMA ProposesKeeps ==
  ASSUME DialogueInv, NEW c \in Calls, NEW from \in Places,
         NEW node \in [Nodes -> Standings], NEW edges \in SUBSET Edges,
         NEW guided \in Keys \cup {None},
         NEW next \in {"idle", "answering", "replying"},
         NEW question \in (0 .. NumKeys) \cup {None},
         Resolved(node, edges), \A k \in Claims : Founded(node, edges, k),
         Proposes(c, from, Patched(node, edges, guided), next, question),
         UNCHANGED <<graph, memory, shown, misfiled, raced>>
  PROVE  DialogueInv'
<1>1. CASE Proceeds(c, from, next, question)
  <2>1. memory' \in SUBSET Keys /\ shown' \in (0 .. NumKeys) \cup {None} /\ misfiled' \in BOOLEAN
    BY DEF DialogueInv, TypeOK
  <2>2. next \in Places \ {"writing"}
    BY DEF Places
  <2> QED BY <1>1, <2>1, <2>2, ProceedsKeeps
<1>2. CASE ~Proceeds(c, from, next, question)
  <2> DEFINE new == Patched(node, edges, guided)
  <2>1. /\ graph.version < MaxVersion
        /\ pc' = [pc EXCEPT ![c] = "checking"]
        /\ job' = [job EXCEPT ![c] = [base |-> graph.version, graph |-> new,
                                      next |-> next, question |-> question]]
    BY <1>2 DEF Proposes
  <2>2. pc \in [Calls -> Places] /\ job \in [Calls -> Jobs] /\ graph \in Graphs
    BY DEF DialogueInv, TypeOK, Places
  <2>3. new \in Graphs
    BY <2>1, PatchedIsGraph DEF DialogueInv
  <2>4. Sound(new)
    BY DEF Sound, Patched
  <2> HIDE DEF new
  <2>5. [base |-> graph.version, graph |-> new, next |-> next, question |-> question] \in Jobs
    BY <2>2, <2>3 DEF Jobs, Graphs
  <2>6. TypeOK'
    <3>1. pc' \in [Calls -> Places]
      BY <2>1, <2>2 DEF Places
    <3>2. job' \in [Calls -> Jobs]
      BY <2>1, <2>2, <2>5
    <3> QED BY <3>1, <3>2 DEF DialogueInv, TypeOK, Places
  <2>7. \A d \in Calls : job'[d].graph = new \/ job'[d] = job[d]
    BY <2>1, <2>2
  <2>8. \A d \in Calls : Sound(job[d].graph)'
    BY <2>4, <2>7 DEF DialogueInv, Sound
  <2>9. \A d \in Calls : pc'[d] = "writing" => pc[d] = "writing" /\ job'[d] = job[d]
    BY <2>1, <2>2
  <2>10. WritersRaced' /\ StaleOnlyInRace'
    BY <2>9 DEF DialogueInv, WritersRaced, StaleOnlyInRace
  <2> QED BY <2>6, <2>8, <2>10 DEF DialogueInv, Sound
<1> QED BY <1>1, <1>2

----------------------------------------------------------------------------
(* The actions.                                                             *)

LEMMA BeginTurnKeeps == ASSUME DialogueInv, NEW c \in Calls, BeginTurn(c) PROVE DialogueInv'
<1>1. PICK told \in SUBSET Keys, slot \in BOOLEAN :
        LET filed == IF slot /\ graph.guided \notin told THEN graph.guided ELSE None
        IN  /\ Proceeds(c, "idle", "observing", None)
            /\ memory' = memory \cup told \cup ({filed} \ {None})
            /\ misfiled' = (misfiled \/ (filed # None /\ shown \notin {filed, None}))
            /\ UNCHANGED <<graph, shown, raced>>
  BY DEF BeginTurn
<1>2. graph.guided \in Keys \cup {None} /\ memory \in SUBSET Keys
  BY DEF DialogueInv, TypeOK, Graphs
<1>3. memory' \in SUBSET Keys
  BY <1>1, <1>2
<1>4. shown' \in (0 .. NumKeys) \cup {None} /\ misfiled' \in BOOLEAN
  BY <1>1 DEF DialogueInv, TypeOK
<1>5. "idle" \in Places /\ "observing" \in Places \ {"writing"}
  BY DEF Places
<1> QED BY <1>1, <1>3, <1>4, <1>5, ProceedsKeeps

\* There is a first open question.
LEMMA LeastNat ==
  ASSUME NEW S \in SUBSET Nat, S # {}
  PROVE  \E t \in S : \A u \in S : t <= u
<1> DEFINE R == {p \in Nat \X Nat : p[1] < p[2]}
<1>1. IsWellFoundedOn(R, Nat)  BY NatLessThanWellFounded DEF OpToRel
<1> HIDE DEF R
<1>2. \E t \in S : \A u \in S : <<u, t>> \notin R  BY <1>1, WFMin
<1>3. PICK t \in S : \A u \in S : <<u, t>> \notin R  BY <1>2
<1>4. \A u \in S : t <= u
  <2> SUFFICES ASSUME NEW u \in S  PROVE t <= u
    OBVIOUS
  <2>1. u \in Nat /\ t \in Nat /\ <<u, t>> \in Nat \X Nat  OBVIOUS
  <2>2. ~(u < t)  BY <1>3, <2>1 DEF R
  <2> QED BY <2>1, <2>2
<1> QED BY <1>4

LEMMA NextQuestionType == ASSUME DialogueInv PROVE NextQuestion \in Keys \cup {None}
<1>1. ASSUME Keys \ memory # {}
      PROVE  \E k \in Keys \ memory : \A j \in Keys \ memory : k <= j
  <2>1. Keys \ memory \in SUBSET Nat
    BY ConstantsAssumption DEF Keys
  <2> QED BY <1>1, <2>1, LeastNat
<1> QED BY <1>1 DEF NextQuestion

LEMMA ObserveKeeps == ASSUME DialogueInv, NEW c \in Calls, Observe(c) PROVE DialogueInv'
<1>1. PICK claim \in Claims \cup {None}, asks \in {"brief", "measurement", "other"} :
        LET question == IF asks = "other" THEN None ELSE NextQuestion
        IN  /\ Proposes(c, "observing",
                        Patched([n \in Nodes |-> IF n = claim THEN "tentative" ELSE graph.node[n]],
                                graph.edges, IF question = None THEN graph.guided ELSE question),
                        "answering",
                        IF asks = "brief" /\ question # None THEN question ELSE 0)
            /\ UNCHANGED <<graph, memory, shown, misfiled, raced>>
  BY DEF Observe
<1> DEFINE question == IF asks = "other" THEN None ELSE NextQuestion
           node == [n \in Nodes |-> IF n = claim THEN "tentative" ELSE graph.node[n]]
           guided == IF question = None THEN graph.guided ELSE question
           displays == IF asks = "brief" /\ question # None THEN question ELSE 0
<1>2. graph \in Graphs /\ Sound(graph)
  BY DEF DialogueInv, TypeOK
<1>3. question \in Keys \cup {None} /\ guided \in Keys \cup {None}
  BY <1>2, NextQuestionType DEF Graphs
<1>4. displays \in (0 .. NumKeys) \cup {None}
  BY <1>3, ConstantsAssumption DEF Keys
<1>5. node \in [Nodes -> Standings] /\ graph.edges \in SUBSET Edges
  BY <1>2 DEF Graphs, Standings
<1>6. Resolved(node, graph.edges)
  <2>1. \A x \in graph.edges : x[1] \in Nodes /\ x[2] \in Nodes
    BY <1>5 DEF Edges, Nodes
  <2> QED BY <1>2, <2>1 DEF Sound, Resolved
<1>7. ASSUME NEW k \in Claims
      PROVE  Founded(node, graph.edges, k)
  <2>1. k \in Nodes /\ Evidence \subseteq Nodes /\ claim \notin Evidence
    BY ConstantsAssumption DEF Nodes, Targets
  <2>2. Founded(graph.node, graph.edges, k)
    BY <1>2 DEF Sound
  <2>3. Trusted(node, graph.edges, k, "contradicts") = Trusted(graph.node, graph.edges, k, "contradicts")
    BY <2>1 DEF Trusted
  <2>4. node[k] = "tentative" \/ node[k] = graph.node[k]
    BY <2>1
  <2> QED BY <2>2, <2>3, <2>4 DEF Founded
<1>8. "observing" \in Places
  BY DEF Places
<1>9. /\ Proposes(c, "observing", Patched(node, graph.edges, guided), "answering", displays)
      /\ UNCHANGED <<graph, memory, shown, misfiled, raced>>
  BY <1>1
<1> HIDE DEF node, guided, displays
<1> QED BY <1>3, <1>4, <1>5, <1>6, <1>7, <1>8, <1>9, ProposesKeeps

LEMMA ReplyKeeps == ASSUME DialogueInv, NEW c \in Calls, Reply(c) PROVE DialogueInv'
<1>1. job[c].question \in (0 .. NumKeys) \cup {None}
  BY DEF DialogueInv, TypeOK, Jobs
<1>2. memory' \in SUBSET Keys /\ shown' \in (0 .. NumKeys) \cup {None} /\ misfiled' \in BOOLEAN
  BY <1>1 DEF Reply, DialogueInv, TypeOK
<1>3. pc[c] \in Places /\ "idle" \in Places \ {"writing"}
  BY DEF DialogueInv, TypeOK, Places
<1>4. Proceeds(c, pc[c], "idle", None) /\ graph' = graph /\ raced' = raced
  BY DEF Reply
<1> QED BY <1>2, <1>3, <1>4, ProceedsKeeps

LEMMA CheckVersionKeeps == ASSUME DialogueInv, NEW c \in Calls, CheckVersion(c) PROVE DialogueInv'
<1>1. /\ pc' = [pc EXCEPT ![c] = "writing"] /\ pc \in [Calls -> Places]
      /\ job[c].base = graph.version
      /\ UNCHANGED <<graph, memory, shown, misfiled, job>>
  BY DEF CheckVersion, SameVersion, DialogueInv, TypeOK, Places
<1>2. raced' = IF AtWork = {} THEN raced ELSE raced \cup AtWork \cup {c}
  BY DEF CheckVersion
<1>3. AtWork = {d \in Calls : pc[d] = "writing"}
  BY DEF AtWork
<1>4. TypeOK'
  <2>1. pc' \in [Calls -> Places]
    BY <1>1 DEF Places
  <2>2. raced' \subseteq Calls
    BY <1>2, <1>3 DEF DialogueInv, TypeOK
  <2> QED BY <1>1, <2>1, <2>2 DEF DialogueInv, TypeOK, Places
<1>5. WritersRaced'
  BY <1>1, <1>2, <1>3 DEF DialogueInv, WritersRaced
<1>6. StaleOnlyInRace'
  BY <1>1, <1>2, <1>3 DEF DialogueInv, StaleOnlyInRace
<1> QED BY <1>1, <1>4, <1>5, <1>6 DEF DialogueInv, Sound

LEMMA ConflictKeeps == ASSUME DialogueInv, NEW c \in Calls, Conflict(c) PROVE DialogueInv'
<1>1. memory' \in SUBSET Keys /\ shown' \in (0 .. NumKeys) \cup {None} /\ misfiled' \in BOOLEAN
  BY DEF Conflict, DialogueInv, TypeOK
<1>2. "checking" \in Places /\ "idle" \in Places \ {"writing"}
  BY DEF Places
<1>3. Proceeds(c, "checking", "idle", None) /\ graph' = graph /\ raced' = raced
  BY DEF Conflict
<1> QED BY <1>1, <1>2, <1>3, ProceedsKeeps

LEMMA WriteGraphKeeps == ASSUME DialogueInv, NEW c \in Calls, WriteGraph(c) PROVE DialogueInv'
<1> DEFINE after == [NoJob EXCEPT !.question = job[c].question]
<1>1. /\ pc[c] = "writing" /\ pc' = [pc EXCEPT ![c] = job[c].next]
      /\ job' = [job EXCEPT ![c] = after]
      /\ graph' = job[c].graph /\ raced' = raced \ {c}
      /\ UNCHANGED <<memory, shown, misfiled>>
  BY DEF WriteGraph, Proceeds
<1>2. pc \in [Calls -> Places] /\ job \in [Calls -> Jobs]
  BY DEF DialogueInv, TypeOK, Places
<1>3. /\ job[c].graph \in Graphs /\ job[c].next \in Places \ {"writing"}
      /\ after \in Jobs /\ after.graph = EmptyGraph
  BY <1>2, EmptyIsSound DEF Jobs, Places, NoJob
<1> HIDE DEF after
<1>4. TypeOK'
  <2>1. pc' \in [Calls -> Places]
    BY <1>1, <1>2, <1>3
  <2>2. job' \in [Calls -> Jobs]
    BY <1>1, <1>2, <1>3
  <2> QED BY <1>1, <1>3, <2>1, <2>2 DEF DialogueInv, TypeOK, Places
<1>5. \A d \in Calls : Sound(job[d].graph)'
  BY <1>1, <1>2, <1>3, EmptyIsSound DEF DialogueInv, Sound
<1>6. Sound(graph)'
  BY <1>1 DEF DialogueInv, Sound
<1>7. \A d \in Calls : pc'[d] = "writing" => d # c /\ pc[d] = "writing" /\ d \in raced /\ d \in raced'
  BY <1>1, <1>2, <1>3 DEF DialogueInv, WritersRaced
<1>8. WritersRaced' /\ StaleOnlyInRace'
  BY <1>7 DEF WritersRaced, StaleOnlyInRace
<1> QED BY <1>4, <1>5, <1>6, <1>8 DEF DialogueInv

\* Citing sources changes what is known of sources only.
LEMMA CitedKeeps ==
  ASSUME DialogueInv, NEW cited \in Citations
  PROVE  /\ DOMAIN cited \subseteq Evidence
         /\ Cited(cited) \in [Nodes -> Standings]
         /\ \A n \in Nodes : graph.node[n] # "none" => Cited(cited)[n] # "none"
         /\ \A e \in DOMAIN cited : Cited(cited)[e] # "none"
         /\ \A t \in Targets : Cited(cited)[t] = graph.node[t]
<1>1. PICK S \in SUBSET Evidence : cited \in [S -> {"established", "tentative"}]
  BY DEF Citations
<1>2. graph.node \in [Nodes -> Standings]
  BY DEF DialogueInv, TypeOK, Graphs
<1>3. DOMAIN cited = S /\ S \subseteq Nodes /\ \A t \in Targets : t \in Nodes /\ t \notin S
  BY <1>1, ConstantsAssumption DEF Nodes
<1>4. \A e \in S : cited[e] \in Standings /\ cited[e] # "none"
  BY <1>1 DEF Standings
<1> QED BY <1>1, <1>2, <1>3, <1>4 DEF Cited

LEMMA IntegrateEvidenceKeeps ==
  ASSUME DialogueInv, NEW c \in Calls, IntegrateEvidence(c) PROVE DialogueInv'
<1>1. PICK cited \in Citations : \E new \in Links((DOMAIN cited) \X Present \X Relations) :
        /\ Proposes(c, "answering",
                    Patched(Revision(Cited(cited), graph.edges \cup new, Present),
                            graph.edges \cup new, graph.guided), "replying", job[c].question)
        /\ UNCHANGED <<graph, memory, shown, misfiled, raced>>
  BY DEF IntegrateEvidence
<1>2. PICK new \in Links((DOMAIN cited) \X Present \X Relations) :
        /\ Proposes(c, "answering",
                    Patched(Revision(Cited(cited), graph.edges \cup new, Present),
                            graph.edges \cup new, graph.guided), "replying", job[c].question)
        /\ UNCHANGED <<graph, memory, shown, misfiled, raced>>
  BY <1>1
<1> DEFINE node == Cited(cited)
           edges == graph.edges \cup new
<1>3. graph \in Graphs /\ Sound(graph) /\ job[c].question \in (0 .. NumKeys) \cup {None}
  BY DEF DialogueInv, TypeOK, Jobs
<1>4. graph.edges \in SUBSET Edges /\ graph.guided \in Keys \cup {None}
  BY <1>3 DEF Graphs
<1>5. new \subseteq (DOMAIN cited) \X Present \X Relations
  BY DEF Links
<1>6. node \in [Nodes -> Standings] /\ edges \in SUBSET Edges
  <2>1. new \subseteq Edges
    BY <1>5, CitedKeeps DEF Edges, Present
  <2> QED BY <1>4, <2>1, CitedKeeps
<1>7. Resolved(node, edges)
  <2>1. \A x \in graph.edges : x[1] \in Nodes /\ x[2] \in Nodes
    BY <1>4 DEF Edges, Nodes
  <2>2. \A x \in graph.edges : node[x[1]] # "none" /\ node[x[2]] # "none"
    BY <1>3, <2>1, CitedKeeps DEF Sound, Resolved
  <2>3. \A x \in new : x[1] \in DOMAIN cited /\ x[2] \in Present
    BY <1>5
  <2>4. \A x \in new : node[x[1]] # "none" /\ node[x[2]] # "none"
    BY <2>3, CitedKeeps DEF Present
  <2> QED BY <2>2, <2>4 DEF Resolved
<1>8. \A k \in Claims : node[k] = graph.node[k]
  BY CitedKeeps DEF Targets
<1>9. Present \cap Evidence = {} /\ \A k \in Claims : node[k] # "none" => k \in Present
  BY <1>8, ConstantsAssumption DEF Present, Targets
<1> HIDE DEF node, edges
<1>10. graph.edges \subseteq edges
  BY DEF edges
<1>11. /\ Resolved(Revision(node, edges, Present), edges)
       /\ \A k \in Claims : Founded(Revision(node, edges, Present), edges, k)
  BY <1>3, <1>6, <1>7, <1>8, <1>9, <1>10, RevisionIsSound
<1>12. Revision(node, edges, Present) \in [Nodes -> Standings]
  BY <1>6, RevisionKeeps
<1>13. /\ Proposes(c, "answering", Patched(Revision(node, edges, Present), edges, graph.guided),
                  "replying", job[c].question)
       /\ UNCHANGED <<graph, memory, shown, misfiled, raced>>
  BY <1>2 DEF node, edges
<1>14. "answering" \in Places
  BY DEF Places
<1> QED BY <1>3, <1>4, <1>6, <1>11, <1>12, <1>13, <1>14, ProposesKeeps

LEMMA ProjectPackageKeeps ==
  ASSUME DialogueInv, NEW c \in Calls, ProjectPackage(c) PROVE DialogueInv'
<1> DEFINE claims == Present \cap Claims
           noded(cited) == [Cited(cited) EXCEPT ![Scope] =
                              IF claims = {} /\ @ = "none" THEN "tentative" ELSE @]
           edged(rows, target) == graph.edges \cup {<<r[1], target, r[2]>> : r \in rows}
<1>1. PICK cited \in Citations : \E rows \in Links((DOMAIN cited) \X Relations),
             target \in (IF claims = {} THEN {Scope} ELSE claims) :
        /\ Proposes(c, "idle",
                    Patched(Revision(noded(cited), edged(rows, target), claims),
                            edged(rows, target), graph.guided), "idle", None)
        /\ UNCHANGED <<graph, memory, shown, misfiled, raced>>
  BY DEF ProjectPackage
<1>2. PICK rows \in Links((DOMAIN cited) \X Relations),
           target \in (IF claims = {} THEN {Scope} ELSE claims) :
        /\ Proposes(c, "idle",
                    Patched(Revision(noded(cited), edged(rows, target), claims),
                            edged(rows, target), graph.guided), "idle", None)
        /\ UNCHANGED <<graph, memory, shown, misfiled, raced>>
  BY <1>1
<1> DEFINE node == noded(cited)
           edges == edged(rows, target)
<1>3. graph \in Graphs /\ Sound(graph)
  BY DEF DialogueInv, TypeOK
<1>4. graph.edges \in SUBSET Edges /\ graph.guided \in Keys \cup {None}
  BY <1>3 DEF Graphs
<1>5. /\ Scope \in Targets /\ Targets \subseteq Nodes /\ Claims \subseteq Targets
      /\ Targets \cap Evidence = {} /\ Scope \notin Claims /\ target \in Targets
  BY ConstantsAssumption DEF Targets, Nodes, Present
<1>6. /\ node \in [Nodes -> Standings]
      /\ \A n \in Nodes : node[n] = Cited(cited)[n] \/ (n = Scope /\ node[n] = "tentative")
  BY <1>5, CitedKeeps DEF Standings
<1>7. node[target] # "none"
  <2>1. CASE claims = {}
    <3>1. target = Scope
      BY <2>1
    <3> QED BY <1>5, <2>1, <3>1, CitedKeeps
  <2>2. CASE claims # {}
    <3>1. target \in claims
      BY <2>2
    <3> QED BY <1>5, <1>6, <3>1, CitedKeeps DEF Present
  <2> QED BY <2>1, <2>2
<1>8. \A r \in rows : r[1] \in DOMAIN cited /\ r[2] \in Relations
  BY DEF Links
<1>9. edges \in SUBSET Edges
  BY <1>4, <1>5, <1>8, CitedKeeps DEF Edges
<1> HIDE DEF node
<1>10. Resolved(node, edges)
  <2>1. \A x \in graph.edges : x[1] \in Nodes /\ x[2] \in Nodes
    BY <1>4 DEF Edges, Nodes
  <2>2. \A x \in graph.edges : node[x[1]] # "none" /\ node[x[2]] # "none"
    BY <1>3, <1>6, <2>1, CitedKeeps DEF Sound, Resolved
  <2>3. \A r \in rows : r[1] \in Nodes /\ node[r[1]] # "none"
    BY <1>6, <1>8, CitedKeeps DEF Nodes
  <2> QED BY <1>7, <2>2, <2>3 DEF Resolved
<1>11. \A k \in Claims : node[k] = graph.node[k]
  BY <1>5, <1>6, CitedKeeps
<1>12. claims \cap Evidence = {} /\ \A k \in Claims : node[k] # "none" => k \in claims
  BY <1>5, <1>11 DEF Present
<1>13. graph.edges \subseteq edges
  OBVIOUS
<1>14. /\ Proposes(c, "idle", Patched(Revision(node, edges, claims), edges, graph.guided),
                  "idle", None)
       /\ UNCHANGED <<graph, memory, shown, misfiled, raced>>
  BY <1>2 DEF node
<1> HIDE DEF edges, claims
<1>15. /\ Resolved(Revision(node, edges, claims), edges)
       /\ \A k \in Claims : Founded(Revision(node, edges, claims), edges, k)
  BY <1>3, <1>6, <1>9, <1>10, <1>11, <1>12, <1>13, RevisionIsSound
<1>16. Revision(node, edges, claims) \in [Nodes -> Standings]
  BY <1>6, RevisionKeeps
<1>17. "idle" \in Places
  BY DEF Places
<1> QED BY <1>4, <1>9, <1>14, <1>15, <1>16, <1>17, ProposesKeeps

LEMMA StopKeeps == ASSUME DialogueInv, NEW c \in Calls, Stop(c) PROVE DialogueInv'
<1>1. memory' \in SUBSET Keys /\ shown' \in (0 .. NumKeys) \cup {None} /\ misfiled' \in BOOLEAN
  BY DEF Stop, DialogueInv, TypeOK
<1>2. pc[c] \in Places /\ "idle" \in Places \ {"writing"}
  BY DEF DialogueInv, TypeOK, Places
<1>3. Proceeds(c, pc[c], "idle", None) /\ graph' = graph /\ raced' = raced \ {c}
  BY DEF Stop
<1> QED BY <1>1, <1>2, <1>3, ProceedsKeeps

----------------------------------------------------------------------------
(* The theorems.                                                            *)

\* Every step keeps the inductive invariant: however requests of one project
\* overlap, are refused or stop, the graph and all proposals stay sound.
THEOREM Invariance == Spec => []DialogueInv
<1>1. Init => DialogueInv
  <2> SUFFICES ASSUME Init PROVE DialogueInv
    OBVIOUS
  <2>1. TypeOK
    BY EmptyIsSound, ConstantsAssumption DEF Init, TypeOK
  <2>2. Sound(graph) /\ \A c \in Calls : Sound(job[c].graph)
    BY EmptyIsSound DEF Init, NoJob
  <2> QED BY <2>1, <2>2 DEF Init, DialogueInv, WritersRaced, StaleOnlyInRace
<1>2. DialogueInv /\ [Next]_vars => DialogueInv'
  <2> SUFFICES ASSUME DialogueInv, [Next]_vars PROVE DialogueInv'
    OBVIOUS
  <2>1. CASE UNCHANGED vars
    BY <2>1 DEF vars, DialogueInv, TypeOK, Sound, WritersRaced, StaleOnlyInRace
  <2>2. ASSUME NEW c \in Calls, CallNext(c) PROVE DialogueInv'
    BY <2>2, BeginTurnKeeps, ObserveKeeps, ReplyKeeps, CheckVersionKeeps, ConflictKeeps,
       WriteGraphKeeps, IntegrateEvidenceKeeps, ProjectPackageKeeps, StopKeeps DEF CallNext
  <2> QED BY <2>1, <2>2 DEF Next
<1> QED BY <1>1, <1>2, PTL DEF Spec

\* Types are kept.
THEOREM Typed == Spec => []TypeOK
<1>1. DialogueInv => TypeOK
  BY DEF DialogueInv
<1> QED BY <1>1, Invariance, PTL

\* No relation of the stored graph dangles.
THEOREM Resolves == Spec => []EdgesResolve
<1>1. DialogueInv => EdgesResolve
  BY DEF DialogueInv, Sound, EdgesResolve
<1> QED BY <1>1, Invariance, PTL

\* No claim is established without two sources or against a trusted one,
\* and none is disputed without a source.
THEOREM Beliefs == Spec => []BeliefsAreFounded
<1>1. DialogueInv => BeliefsAreFounded
  BY DEF DialogueInv, Sound, BeliefsAreFounded
<1> QED BY <1>1, Invariance, PTL

\* Only requests that compared versions before either wrote overwrite what
\* they have not read.
THEOREM Races == Spec => []StaleOnlyInRace
<1>1. DialogueInv => StaleOnlyInRace
  BY DEF DialogueInv
<1> QED BY <1>1, Invariance, PTL
=============================================================================
