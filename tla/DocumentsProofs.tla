-------------------------- MODULE DocumentsProofs --------------------------
(***************************************************************************)
(* Proofs about Documents, for any number of requests, documents and       *)
(* versions: the rows are an append-only history whatever requests race    *)
(* and whenever the process restarts, and nobody reads anything else.      *)
(***************************************************************************)
EXTENDS Documents, SequenceTheorems, TLAPS

\* A request writes the version after one that was current when it looked.
JobIsNext ==
  \A t \in Threads :
    /\ pc[t] # "idle" => job[t].doc \in Docs /\ job[t].content \in Contents
    /\ pc[t] \in {"opening", "writing", "committing"} =>
         job[t].version <= docs[job[t].doc].current + 1

\* What has been read is what the rows say.
ServedIsStored == \A s \in served : rows[s[1]][s[2]] = s[3]

DInv == TypeOK /\ HistoryIsWhole /\ JobIsNext /\ ServedIsStored

----------------------------------------------------------------------------
LEMMA InitIsWhole == Init => DInv
BY ConstantsAssumption DEF Init, DInv, TypeOK, HistoryIsWhole, JobIsNext, ServedIsStored,
   NoDocument, NoJob, Stored, Versions

LEMMA BeginKeeps ==
  ASSUME DInv, NEW t \in Threads, NEW d \in Docs, NEW v \in Versions,
         v <= docs[d].current + 1, Begin(t, d, v)
  PROVE  DInv'
<1>1. PICK c \in Contents : job' = [job EXCEPT ![t] = [doc |-> d, version |-> v, content |-> c]]
  BY DEF Begin
<1>2. TypeOK'  BY <1>1 DEF DInv, TypeOK, Begin, Stored
<1>3. JobIsNext'
  BY <1>1 DEF DInv, TypeOK, JobIsNext, Begin
<1> QED BY <1>2, <1>3 DEF DInv, HistoryIsWhole, ServedIsStored, Begin

LEMMA WriteBytesKeeps ==
  ASSUME DInv, NEW t \in Threads, NEW from \in {"opening", "writing"},
         NEW to \in {"writing", "committing"}, NEW content \in Stored \cup {Partial},
         WriteBytes(t, from, to, content)
  PROVE  DInv'
<1>1. job[t].doc \in Docs /\ job[t].version \in Versions
  BY DEF DInv, TypeOK, JobIsNext, WriteBytes
<1>2. TypeOK'
  <2>1. files' \in [Docs -> [Versions -> Stored \cup {Partial}]]
    BY <1>1 DEF DInv, TypeOK, WriteBytes
  <2> QED BY <2>1 DEF DInv, TypeOK, WriteBytes
<1>3. JobIsNext'  BY DEF DInv, TypeOK, JobIsNext, WriteBytes
<1> QED BY <1>2, <1>3 DEF DInv, HistoryIsWhole, ServedIsStored, WriteBytes

\* The version that is committed is the one after the current one.
LEMMA CommitsNext ==
  ASSUME DInv, NEW t \in Threads, Commit(t)
  PROVE  /\ job[t].doc \in Docs /\ job[t].content \in Contents /\ job[t].version \in Versions
         /\ job[t].version = docs[job[t].doc].current + 1
<1>1. job[t].doc \in Docs /\ job[t].content \in Contents /\ job[t].version \in Versions
      /\ job[t].version <= docs[job[t].doc].current + 1 /\ docs[job[t].doc].current \in 0 .. MaxVersions
  BY DEF DInv, TypeOK, JobIsNext, Commit
<1>2. ~(job[t].version <= docs[job[t].doc].current)
  BY <1>1 DEF DInv, HistoryIsWhole, Commit
<1> QED BY <1>1, <1>2, ConstantsAssumption DEF Versions

LEMMA CommitKeeps ==
  ASSUME DInv, NEW t \in Threads, Commit(t)
  PROVE  DInv'
<1> DEFINE d == job[t].doc
           v == job[t].version
           c == job[t].content
<1>1. d \in Docs /\ c \in Contents /\ v \in Versions /\ v = docs[d].current + 1 /\ c # None
  BY CommitsNext, ConstantsAssumption
<1>2. rows' = [rows EXCEPT ![d][v] = c] /\ docs' = [docs EXCEPT ![d].current = v, ![d].sha = c]
      /\ rows[d][v] = None
  BY DEF Commit, Advanced
<1>3. \A e \in Docs, w \in Versions : rows'[e][w] = IF e = d /\ w = v THEN c ELSE rows[e][w]
  BY <1>1, <1>2 DEF DInv, TypeOK
<1>4. /\ docs'[d].current = v /\ docs'[d].sha = c
      /\ \A e \in Docs : e # d => docs'[e] = docs[e]
  BY <1>1, <1>2 DEF DInv, TypeOK
<1>5. TypeOK'
  <2>1. docs' \in [Docs -> [current : 0 .. MaxVersions, sha : Stored, deleted : BOOLEAN]]
    <3>1. docs \in [Docs -> [current : 0 .. MaxVersions, sha : Stored, deleted : BOOLEAN]]
      BY DEF DInv, TypeOK
    <3>2. v \in 0 .. MaxVersions /\ c \in Stored
      BY <1>1, ConstantsAssumption DEF Versions, Stored
    <3> HIDE DEF d, v, c
    <3> QED BY <1>2, <3>1, <3>2
  <2>2. rows' \in [Docs -> [Versions -> Stored]]
    BY <1>1, <1>2 DEF DInv, TypeOK, Stored
  <2> QED BY <2>1, <2>2 DEF DInv, TypeOK, Commit
<1>6. HistoryIsWhole'
  <2> SUFFICES ASSUME NEW e \in Docs
               PROVE  /\ \A w \in Versions : rows'[e][w] # None <=> w <= docs'[e].current
                      /\ docs'[e].current > 0 => docs'[e].sha = rows'[e][docs'[e].current]
    BY DEF HistoryIsWhole
  <2>1. /\ \A w \in Versions : rows[e][w] # None <=> w <= docs[e].current
        /\ docs[e].current > 0 => docs[e].sha = rows[e][docs[e].current]
        /\ docs[e].current \in 0 .. MaxVersions
    BY DEF DInv, HistoryIsWhole, TypeOK
  <2>2. CASE e = d
    BY <1>1, <1>3, <1>4, <2>1, <2>2, ConstantsAssumption DEF Versions
  <2>3. CASE e # d
    BY <1>3, <1>4, <2>1, <2>3, ConstantsAssumption DEF Versions
  <2> QED BY <2>2, <2>3
<1>7. JobIsNext'
  <2> SUFFICES ASSUME NEW u \in Threads
               PROVE  /\ pc'[u] # "idle" => job[u].doc \in Docs /\ job[u].content \in Contents
                      /\ pc'[u] \in {"opening", "writing", "committing"} =>
                           job[u].version <= docs'[job[u].doc].current + 1
    BY DEF JobIsNext, Commit
  <2>1. CASE u = t  BY <1>1, <2>1 DEF Commit, DInv, TypeOK
  <2>2. CASE u # t
    <3>1. pc'[u] = pc[u] /\ (pc[u] # "idle" => job[u].doc \in Docs /\ job[u].content \in Contents)
          /\ (pc[u] \in {"opening", "writing", "committing"} =>
                           job[u].version <= docs[job[u].doc].current + 1)
      BY <2>2 DEF Commit, DInv, TypeOK, JobIsNext
    <3>2. job[u].version \in Versions /\ \A e \in Docs : docs[e].current \in 0 .. MaxVersions
      BY DEF DInv, TypeOK
    <3> QED BY <1>1, <1>4, <3>1, <3>2, ConstantsAssumption DEF Versions
  <2> QED BY <2>1, <2>2
<1>8. ServedIsStored'
  <2> SUFFICES ASSUME NEW s \in served  PROVE rows'[s[1]][s[2]] = s[3]
    BY DEF ServedIsStored, Commit
  <2>1. s[1] \in Docs /\ s[2] \in Versions /\ s[3] \in Contents /\ rows[s[1]][s[2]] = s[3]
    BY DEF DInv, TypeOK, ServedIsStored
  <2> QED BY <1>2, <1>3, <2>1, ConstantsAssumption
<1> QED BY <1>5, <1>6, <1>7, <1>8 DEF DInv

\* A request that ends, or is ended.
LEMMA EndsKeeps ==
  ASSUME DInv, NEW t \in Threads, Ends(t), UNCHANGED <<docs, rows, files, contested>>,
         served' \subseteq Docs \X Versions \X Contents, ServedIsStored'
  PROVE  DInv'
<1>1. TypeOK'  BY ConstantsAssumption DEF DInv, TypeOK, Ends, NoJob, Stored, Versions
<1>2. JobIsNext'  BY DEF DInv, TypeOK, JobIsNext, Ends
<1> QED BY <1>1, <1>2 DEF DInv, HistoryIsWhole

LEMMA ReturnsStored ==
  ASSUME DInv, NEW d \in Docs, NEW v \in Versions, Returns(d, v), UNCHANGED rows
  PROVE  served' \subseteq Docs \X Versions \X Contents /\ ServedIsStored'
<1>1. CASE Readable(d, v)
  <2>1. files[d][v] = rows[d][v] /\ rows[d][v] \in Contents
    BY <1>1 DEF Readable, DInv, TypeOK, Stored
  <2> QED BY <1>1, <2>1 DEF Returns, DInv, TypeOK, ServedIsStored
<1>2. CASE ~Readable(d, v)
  BY <1>2 DEF Returns, DInv, TypeOK, ServedIsStored
<1> QED BY <1>1, <1>2

LEMMA NextKeeps == DInv /\ [Next]_vars => DInv'
<1> SUFFICES ASSUME DInv, [Next]_vars  PROVE DInv'
  OBVIOUS
<1>1. CASE Crash
  <2>1. TypeOK'  BY <1>1, ConstantsAssumption DEF DInv, TypeOK, Crash, NoJob, Stored, Versions
  <2>2. JobIsNext'  BY <1>1 DEF JobIsNext, Crash
  <2> QED BY <1>1, <2>1, <2>2 DEF DInv, HistoryIsWhole, ServedIsStored, Crash
<1>2. ASSUME NEW t \in Threads, ThreadNext(t)  PROVE DInv'
  <2>1. ASSUME NEW d \in Docs, Create(t, d)  PROVE DInv'
    <3>1. 1 \in Versions /\ 1 <= docs[d].current + 1
      BY ConstantsAssumption DEF Versions, DInv, TypeOK
    <3> QED BY <2>1, <3>1, BeginKeeps DEF Create
  <2>2. ASSUME NEW d \in Docs, CreateVersion(t, d)  PROVE DInv'
    <3>1. docs[d].current + 1 \in Versions
      BY <2>2, ConstantsAssumption DEF CreateVersion, Versions, DInv, TypeOK
    <3> QED BY <2>2, <3>1, BeginKeeps DEF CreateVersion, Versions
  <2>3. ASSUME NEW d \in Docs, Delete(t, d)  PROVE DInv'
    <3>1. TypeOK'  BY <2>3 DEF DInv, TypeOK, Delete
    <3>2. \A e \in Docs : docs'[e].current = docs[e].current /\ docs'[e].sha = docs[e].sha
      BY <2>3 DEF DInv, TypeOK, Delete
    <3>3. HistoryIsWhole'  BY <2>3, <3>2 DEF DInv, HistoryIsWhole, Delete
    <3>4. JobIsNext'  BY <2>3, <3>2 DEF DInv, JobIsNext, Delete
    <3> QED BY <2>3, <3>1, <3>3, <3>4 DEF DInv, ServedIsStored, Delete
  <2>4. ASSUME NEW d \in Docs, NEW v \in Versions, GetVersion(t, d, v)  PROVE DInv'
    <3>1. served' \subseteq Docs \X Versions \X Contents /\ ServedIsStored'
      BY <2>4, ReturnsStored DEF GetVersion
    <3> QED BY <2>4, <3>1 DEF DInv, TypeOK, HistoryIsWhole, JobIsNext, GetVersion
  <2>5. CASE OpenFile(t)  BY <2>5, WriteBytesKeeps DEF OpenFile
  <2>6. CASE WriteFile(t)
    <3>1. job[t].content \in Stored \cup {Partial}  BY DEF DInv, TypeOK
    <3> QED BY <2>6, <3>1, WriteBytesKeeps DEF WriteFile
  <2>7. CASE Commit(t)  BY <2>7, CommitKeeps
  <2>8. CASE CommitRefused(t)
    <3>1. served' \subseteq Docs \X Versions \X Contents /\ ServedIsStored'
      BY <2>8 DEF CommitRefused, DInv, TypeOK, ServedIsStored
    <3> QED BY <2>8, <3>1, EndsKeeps DEF CommitRefused
  <2>9. CASE Return(t)
    <3>1. job[t].doc \in Docs /\ job[t].version \in Versions
      BY <2>9 DEF Return, DInv, TypeOK, JobIsNext
    <3>2. served' \subseteq Docs \X Versions \X Contents /\ ServedIsStored'
      <4>1. CASE served' = served  BY <2>9, <4>1 DEF Return, DInv, TypeOK, ServedIsStored
      <4>2. CASE Returns(job[t].doc, job[t].version)
        BY <2>9, <3>1, <4>2, ReturnsStored DEF Return
      <4> QED BY <2>9, <4>1, <4>2 DEF Return
    <3> QED BY <2>9, <3>2, EndsKeeps DEF Return
  <2> QED BY <1>2, <2>1, <2>2, <2>3, <2>4, <2>5, <2>6, <2>7, <2>8, <2>9 DEF ThreadNext
<1>3. CASE UNCHANGED vars
  BY <1>3 DEF vars, DInv, TypeOK, HistoryIsWhole, JobIsNext, ServedIsStored
<1> QED BY <1>1, <1>2, <1>3 DEF Next

THEOREM Invariance == Spec => []DInv
BY InitIsWhole, NextKeeps, PTL DEF Spec

\* The types.
THEOREM Typed == Spec => []TypeOK
<1>1. DInv => TypeOK  BY DEF DInv
<1> QED BY <1>1, Invariance, PTL

\* However requests race and the process restarts, a document has a row for
\* each version up to its current one and none beyond.
THEOREM Whole == Spec => []HistoryIsWhole
<1>1. DInv => HistoryIsWhole  BY DEF DInv
<1> QED BY <1>1, Invariance, PTL

\* A version that has been read is never read with another content.
THEOREM NoTwoReadings == Spec => []ReadsAgree
<1>1. DInv => ReadsAgree  BY DEF DInv, ServedIsStored, ReadsAgree
<1> QED BY <1>1, Invariance, PTL

----------------------------------------------------------------------------
(* Who writes which file.                                                   *)

Contested(t) == <<job[t].doc, job[t].version>> \in contested

\* A request that shares its version with nobody finds its file as it left it,
\* and no row of the version.
OwnVersion(t) == ~Contested(t) =>
  /\ pc[t] = "writing" => files[job[t].doc][job[t].version] = Partial
  /\ pc[t] = "committing" => files[job[t].doc][job[t].version] = job[t].content
  /\ pc[t] \in {"opening", "writing", "committing"} => rows[job[t].doc][job[t].version] = None

Same(t, u) == job[t].doc \in Docs /\ job[t].doc = job[u].doc /\ job[t].version = job[u].version

WritersKnown == /\ \A t, u \in Threads : t # u /\ Same(t, u) => Contested(t)
                /\ \A t \in Threads : OwnVersion(t)

WInv == WritersKnown /\ DamageIsContested

\* A step of t that begins no job: the others keep theirs.
LEMMA OthersOwn ==
  ASSUME DInv, WritersKnown, NEW t \in Threads,
         \A u \in Threads \ {t} : pc'[u] = pc[u] /\ job'[u] = job[u],
         job'[t] = job[t] \/ job'[t].doc \notin Docs,
         contested' = contested, OwnVersion(t)',
         \A d \in Docs, v \in Versions :
           \/ files'[d][v] = files[d][v] /\ rows'[d][v] = rows[d][v]
           \/ pc[t] # "idle" /\ d = job[t].doc /\ v = job[t].version
  PROVE  WritersKnown'
<1>1. ASSUME NEW u \in Threads, NEW w \in Threads, u # w, Same(u, w)'
      PROVE  Contested(u)'
  <2>1. job'[u] = job[u] /\ job'[w] = job[w]  BY <1>1 DEF Same
  <2> QED BY <1>1, <2>1 DEF WritersKnown, Same, Contested
<1>2. ASSUME NEW u \in Threads, u # t  PROVE OwnVersion(u)'
  <2>1. pc'[u] = pc[u] /\ job'[u] = job[u]  BY <1>2
  <2>2. CASE Contested(u)  BY <2>1, <2>2 DEF OwnVersion, Contested
  <2>3. CASE pc[u] = "idle"  BY <2>1, <2>3 DEF OwnVersion
  <2>4. CASE ~Contested(u) /\ pc[u] # "idle"
    <3>1. job[u].doc \in Docs /\ job[u].version \in Versions
      BY <2>4 DEF DInv, TypeOK, JobIsNext
    <3>2. ~Same(u, t)  BY <1>2, <2>4 DEF WritersKnown
    <3>3. /\ files'[job[u].doc][job[u].version] = files[job[u].doc][job[u].version]
          /\ rows'[job[u].doc][job[u].version] = rows[job[u].doc][job[u].version]
      BY <3>1, <3>2 DEF Same
    <3> QED BY <2>1, <2>4, <3>3 DEF WritersKnown, OwnVersion, Contested
  <2> QED BY <2>2, <2>3, <2>4
<1> QED BY <1>1, <1>2 DEF WritersKnown

LEMMA BeginOwns ==
  ASSUME DInv, WInv, NEW t \in Threads, NEW d \in Docs, NEW v \in Versions,
         rows[d][v] = None, Begin(t, d, v)
  PROVE  WInv'
<1>1. PICK c \in Contents : job' = [job EXCEPT ![t] = [doc |-> d, version |-> v, content |-> c]]
  BY DEF Begin
<1>2. /\ job'[t].doc = d /\ job'[t].version = v /\ pc'[t] = "opening"
      /\ \A u \in Threads \ {t} : pc'[u] = pc[u] /\ job'[u] = job[u]
      /\ UNCHANGED <<rows, files>> /\ contested \subseteq contested'
  BY <1>1 DEF DInv, TypeOK, Begin
<1>3. ASSUME NEW u \in Threads, u # t, job[u].doc = d, job[u].version = v
      PROVE  <<d, v>> \in contested'
  <2>1. u \in Writing(d, v)  BY <1>3 DEF Writing
  <2> QED BY <2>1 DEF Begin
<1>4. ASSUME NEW u \in Threads, NEW w \in Threads, u # w, Same(u, w)'
      PROVE  Contested(u)'
  <2>1. CASE u = t
    <3>1. job[w].doc = d /\ job[w].version = v  BY <1>2, <1>4, <2>1 DEF Same
    <3> QED BY <1>2, <1>3, <1>4, <2>1, <3>1 DEF Contested
  <2>2. CASE w = t
    <3>1. job[u].doc = d /\ job[u].version = v /\ job'[u] = job[u]  BY <1>2, <1>4, <2>2 DEF Same
    <3> QED BY <1>3, <1>4, <2>2, <3>1 DEF Contested
  <2>3. CASE u # t /\ w # t
    <3>1. job'[u] = job[u] /\ job'[w] = job[w]  BY <1>2, <2>3
    <3> QED BY <1>2, <1>4, <3>1 DEF WInv, WritersKnown, Same, Contested
  <2> QED BY <2>1, <2>2, <2>3
<1>5. ASSUME NEW u \in Threads  PROVE OwnVersion(u)'
  <2>1. CASE u = t  BY <1>2, <2>1 DEF OwnVersion
  <2>2. CASE u # t
    <3>1. pc'[u] = pc[u] /\ job'[u] = job[u]  BY <1>2, <2>2
    <3> QED BY <1>2, <3>1 DEF WInv, WritersKnown, OwnVersion, Contested
  <2> QED BY <2>1, <2>2
<1>6. DamageIsContested'  BY <1>2 DEF WInv, DamageIsContested
<1> QED BY <1>4, <1>5, <1>6 DEF WInv, WritersKnown

\* Only requests that share their version mix their bytes.
LEMMA SharedIsContested ==
  ASSUME DInv, WInv, NEW t \in Threads, pc[t] = "writing", Shared(t)
  PROVE  Contested(t)
<1>1. CASE files[job[t].doc][job[t].version] # Partial
  BY <1>1 DEF WInv, WritersKnown, OwnVersion
<1>2. CASE \E u \in Writing(job[t].doc, job[t].version) \ {t} : pc[u] = "writing"
  <2>1. PICK u \in Threads : u # t /\ job[u].doc = job[t].doc /\ job[u].version = job[t].version
    BY <1>2 DEF Writing
  <2>2. Same(t, u)  BY <2>1 DEF Same, DInv, JobIsNext
  <2> QED BY <2>1, <2>2 DEF WInv, WritersKnown
<1> QED BY <1>1, <1>2 DEF Shared

LEMMA WriteBytesOwns ==
  ASSUME DInv, WInv, NEW t \in Threads, OpenFile(t) \/ WriteFile(t)
  PROVE  WInv'
<1> DEFINE d == job[t].doc
           v == job[t].version
<1>1. PICK from \in {"opening", "writing"}, to \in {"writing", "committing"},
                content \in Stored \cup {Partial} :
        /\ WriteBytes(t, from, to, content)
        /\ to = "writing" => content = Partial
        /\ to = "committing" /\ ~Contested(t) => content = job[t].content
  <2>1. CASE OpenFile(t)  BY <2>1 DEF OpenFile
  <2>2. CASE WriteBytes(t, "writing", "committing", job[t].content)
    BY <2>2 DEF DInv, TypeOK
  <2>3. CASE Shared(t) /\ WriteBytes(t, "writing", "committing", Partial)
    <3>1. Contested(t)  BY <2>3, SharedIsContested DEF WriteBytes
    <3> QED BY <2>3, <3>1
  <2> QED BY <2>1, <2>2, <2>3 DEF WriteFile
<1>2. /\ pc[t] = from /\ pc'[t] = to /\ \A u \in Threads \ {t} : pc'[u] = pc[u]
      /\ files' = [files EXCEPT ![d][v] = content] /\ UNCHANGED <<docs, rows, job, served, contested>>
  BY <1>1 DEF DInv, TypeOK, WriteBytes
<1>3. d \in Docs /\ v \in Versions  BY <1>2 DEF DInv, TypeOK, JobIsNext
<1>4. \A e \in Docs, w \in Versions :
        files'[e][w] = IF e = d /\ w = v THEN content ELSE files[e][w]
  BY <1>2, <1>3 DEF DInv, TypeOK
<1>5. ~Contested(t) => rows[d][v] = None
  BY <1>2 DEF WInv, WritersKnown, OwnVersion
<1>6. OwnVersion(t)'
  BY <1>1, <1>2, <1>3, <1>4, <1>5 DEF OwnVersion, Contested
<1>7. WritersKnown'
  BY <1>2, <1>4, <1>6, OthersOwn DEF WInv
<1>8. DamageIsContested'
  BY <1>2, <1>3, <1>4, <1>5 DEF WInv, DamageIsContested, Contested
<1> QED BY <1>7, <1>8 DEF WInv

LEMMA CommitOwns ==
  ASSUME DInv, WInv, NEW t \in Threads, Commit(t)
  PROVE  WInv'
<1> DEFINE d == job[t].doc
           v == job[t].version
           c == job[t].content
<1>1. d \in Docs /\ c \in Contents /\ v \in Versions  BY CommitsNext
<1>2. /\ pc[t] = "committing" /\ pc'[t] = "returning" /\ \A u \in Threads \ {t} : pc'[u] = pc[u]
      /\ rows' = [rows EXCEPT ![d][v] = c] /\ UNCHANGED <<files, job, served, contested>>
  BY DEF DInv, TypeOK, Commit
<1>3. \A e \in Docs, w \in Versions : rows'[e][w] = IF e = d /\ w = v THEN c ELSE rows[e][w]
  BY <1>1, <1>2 DEF DInv, TypeOK
<1>4. ~Contested(t) => files[d][v] = c
  BY <1>2 DEF WInv, WritersKnown, OwnVersion
<1>5. OwnVersion(t)'  BY <1>2 DEF OwnVersion
<1>6. WritersKnown'
  BY <1>2, <1>3, <1>5, OthersOwn DEF WInv
<1>7. DamageIsContested'
  BY <1>1, <1>2, <1>3, <1>4 DEF WInv, DamageIsContested, Contested
<1> QED BY <1>6, <1>7 DEF WInv

LEMMA EndOwns ==
  ASSUME DInv, WInv, NEW t \in Threads, Ends(t), UNCHANGED <<rows, files, contested>>
  PROVE  WInv'
<1>1. /\ pc'[t] = "idle" /\ job'[t] = NoJob
      /\ \A u \in Threads \ {t} : pc'[u] = pc[u] /\ job'[u] = job[u]
  BY DEF DInv, TypeOK, Ends
<1>2. job'[t].doc \notin Docs  BY <1>1, ConstantsAssumption DEF NoJob
<1>3. OwnVersion(t)'  BY <1>1 DEF OwnVersion
<1>4. WritersKnown'  BY <1>1, <1>2, <1>3, OthersOwn DEF WInv
<1>5. DamageIsContested'  BY DEF WInv, DamageIsContested
<1> QED BY <1>4, <1>5 DEF WInv

LEMMA WritersStayKnown == DInv /\ WInv /\ [Next]_vars => WInv'
<1> SUFFICES ASSUME DInv, WInv, [Next]_vars  PROVE WInv'
  OBVIOUS
<1>1. CASE Crash
  <2>1. \A t \in Threads : pc'[t] = "idle" /\ job'[t] = NoJob  BY <1>1 DEF Crash
  <2>2. WritersKnown'
    BY <2>1, ConstantsAssumption DEF WritersKnown, Same, OwnVersion, NoJob
  <2> QED BY <1>1, <2>2 DEF Crash, WInv, DamageIsContested
<1>2. ASSUME NEW t \in Threads, ThreadNext(t)  PROVE WInv'
  <2>1. ASSUME NEW d \in Docs, Create(t, d) \/ CreateVersion(t, d)  PROVE WInv'
    <3>1. PICK v \in Versions : v = docs[d].current + 1 /\ Begin(t, d, v)
      <4>1. docs[d].current \in 0 .. MaxVersions  BY DEF DInv, TypeOK
      <4> QED BY <2>1, <4>1, ConstantsAssumption DEF Create, CreateVersion, NoDocument, Versions
    <3>2. rows[d][v] = None
      BY <3>1, ConstantsAssumption DEF DInv, TypeOK, HistoryIsWhole
    <3> QED BY <3>1, <3>2, BeginOwns
  <2>2. ASSUME NEW d \in Docs, \/ Delete(t, d)
                               \/ \E v \in Versions : GetVersion(t, d, v)
        PROVE  WInv'
    BY <2>2 DEF Delete, GetVersion, WInv, WritersKnown, OwnVersion, Same, Contested, DamageIsContested
  <2>3. CASE OpenFile(t) \/ WriteFile(t)  BY <2>3, WriteBytesOwns
  <2>4. CASE Commit(t)  BY <2>4, CommitOwns
  <2>5. CASE CommitRefused(t) \/ Return(t)  BY <2>5, EndOwns DEF CommitRefused, Return
  <2> QED BY <1>2, <2>1, <2>2, <2>3, <2>4, <2>5 DEF ThreadNext
<1>3. CASE UNCHANGED vars
  BY <1>3 DEF vars, WInv, WritersKnown, OwnVersion, Same, Contested, DamageIsContested
<1> QED BY <1>1, <1>2, <1>3 DEF Next

\* A version is damaged only where two requests wrote it at once: what a
\* restart left of an unfinished version harms nobody.
THEOREM OnlyContestedDamage == Spec => []DamageIsContested
<1>1. Init => WInv
  BY ConstantsAssumption DEF Init, WInv, WritersKnown, OwnVersion, Same, DamageIsContested, NoJob
<1>2. DInv /\ WInv /\ [Next]_vars => WInv'  BY WritersStayKnown
<1>3. WInv => DamageIsContested  BY DEF WInv
<1> QED BY <1>1, <1>2, <1>3, Invariance, PTL DEF Spec

----------------------------------------------------------------------------
(* The store implements the append-only history.                            *)

Log(d) == [v \in 1 .. docs[d].current |-> rows[d][v]]

LEMMA LogsAreSequences ==
  ASSUME DInv, NEW d \in Docs
  PROVE  /\ Log(d) \in Seq(Contents) /\ Len(Log(d)) = docs[d].current
         /\ \A v \in 1 .. docs[d].current : v \in Versions /\ Log(d)[v] = rows[d][v]
<1>1. docs[d].current \in 0 .. MaxVersions  BY DEF DInv, TypeOK
<1>2. \A v \in 1 .. docs[d].current : v \in Versions /\ rows[d][v] \in Contents
  BY <1>1, ConstantsAssumption DEF DInv, TypeOK, HistoryIsWhole, Versions, Stored
<1>3. docs[d].current \in Nat  BY <1>1, ConstantsAssumption
<1>4. Log(d) \in [1 .. docs[d].current -> Contents]  BY <1>2 DEF Log
<1> QED BY <1>2, <1>3, <1>4 DEF Log

LEMMA OtherLogsStay ==
  ASSUME DInv, UNCHANGED rows, \A e \in Docs : docs'[e].current = docs[e].current
  PROVE  [e \in Docs |-> Log(e)]' = [e \in Docs |-> Log(e)]
BY DEF Log

LEMMA AddsOne ==
  ASSUME DInv, NEW d \in Docs, NEW c \in Contents, NEW v \in Versions, v = docs[d].current + 1,
         rows' = [rows EXCEPT ![d][v] = c], served' = served,
         docs' = [docs EXCEPT ![d].current = v, ![d].sha = c]
  PROVE  H!Add(d, c)
<1>3. \A e \in Docs, w \in Versions : rows'[e][w] = IF e = d /\ w = v THEN c ELSE rows[e][w]
  BY DEF DInv, TypeOK
<1>4. docs'[d].current = v /\ \A e \in Docs : e # d => docs'[e] = docs[e]
  BY DEF DInv, TypeOK
<1>5. Log(d)' = Append(Log(d), c)
  <2>1. /\ Log(d) \in Seq(Contents) /\ Len(Log(d)) = docs[d].current
        /\ \A w \in 1 .. docs[d].current : w \in Versions /\ Log(d)[w] = rows[d][w]
    BY LogsAreSequences
  <2>2. docs[d].current \in Nat /\ v = docs[d].current + 1
    BY ConstantsAssumption DEF DInv, TypeOK
  <2>3. Log(d)' = [w \in 1 .. v |-> rows'[d][w]]  BY <1>4 DEF Log
  <2>4. \A w \in 1 .. v : rows'[d][w] = IF w = v THEN c ELSE Log(d)[w]
    BY <1>3, <2>1, <2>2
  <2>5. \A w \in 1 .. v : Append(Log(d), c)[w] = IF w = v THEN c ELSE Log(d)[w]
    BY <2>1, <2>2
  <2>6. Append(Log(d), c) \in Seq(Contents) /\ Len(Append(Log(d), c)) = v
    BY <2>1, <2>2
  <2>7. Append(Log(d), c) = [w \in 1 .. v |-> Append(Log(d), c)[w]]
    <3> DEFINE a == Append(Log(d), c)
    <3> HIDE DEF a
    <3>1. a \in Seq(Contents) /\ Len(a) = v  BY <2>6 DEF a
    <3>2. a \in [1 .. v -> Contents]  BY <3>1, LenProperties
    <3>3. a = [w \in 1 .. v |-> a[w]]  BY <3>2
    <3> QED BY <3>3 DEF a
  <2> QED BY ZenonT(40), <2>3, <2>4, <2>5, <2>7
<1>6. \A e \in Docs : e # d => Log(e)' = Log(e)
  <2> SUFFICES ASSUME NEW e \in Docs, e # d  PROVE Log(e)' = Log(e)
    OBVIOUS
  <2>1. docs'[e] = docs[e] /\ \A w \in 1 .. docs[e].current : w \in Versions
    BY <1>4, LogsAreSequences
  <2>2. \A w \in 1 .. docs[e].current : rows'[e][w] = rows[e][w]  BY <1>3, <2>1
  <2> QED BY <2>1, <2>2 DEF Log
<1>7. [e \in Docs |-> Log(e)]' = [[e \in Docs |-> Log(e)] EXCEPT ![d] = Append(@, c)]
  <2>1. \A e \in Docs : Log(e)' = IF e = d THEN Append(Log(d), c) ELSE Log(e)
    BY <1>5, <1>6
  <2> QED BY <2>1
<1> QED BY <1>7 DEF H!Add, Log

LEMMA CommitAppends ==
  ASSUME DInv, NEW t \in Threads, Commit(t)
  PROVE  \E d \in Docs, c \in Contents : H!Add(d, c)
<1>1. PICK d \in Docs, c \in Contents, v \in Versions :
        d = job[t].doc /\ c = job[t].content /\ v = job[t].version /\ v = docs[d].current + 1
  BY CommitsNext
<1>2. rows' = [rows EXCEPT ![d][v] = c] /\ docs' = [docs EXCEPT ![d].current = v, ![d].sha = c]
      /\ served' = served
  BY <1>1 DEF Commit, Advanced
<1> QED BY <1>1, <1>2, AddsOne

LEMMA ReturnsServes ==
  ASSUME DInv, NEW d \in Docs, NEW v \in Versions, Returns(d, v), UNCHANGED rows,
         \A e \in Docs : docs'[e].current = docs[e].current
  PROVE  UNCHANGED <<[e \in Docs |-> Log(e)], served>>
         \/ \E e \in Docs : \E w \in 1 .. Len([f \in Docs |-> Log(f)][e]) : H!Serve(e, w)
<1>1. [e \in Docs |-> Log(e)]' = [e \in Docs |-> Log(e)]  BY OtherLogsStay
<1>2. CASE ~Readable(d, v)  BY <1>1, <1>2 DEF Returns
<1>3. CASE Readable(d, v)
  <2>1. v \in 1 .. docs[d].current /\ files[d][v] = rows[d][v]
    BY <1>3, ConstantsAssumption DEF Readable, DInv, HistoryIsWhole, Versions
  <2>2. v \in 1 .. Len(Log(d)) /\ Log(d)[v] = files[d][v]
    BY <2>1, LogsAreSequences
  <2>3. H!Serve(d, v)
    BY <1>1, <1>3, <2>2 DEF H!Serve, Returns, Log
  <2> QED BY <2>2, <2>3
<1> QED BY <1>2, <1>3

LEMMA StepAppends ==
  ASSUME DInv, [Next]_vars
  PROVE  [H!Next]_<<[d \in Docs |-> Log(d)], served>>
<1> USE DEF H!Next
<1>1. CASE Crash  BY <1>1 DEF Crash, Log
<1>2. ASSUME NEW t \in Threads, ThreadNext(t)
      PROVE  [H!Next]_<<[d \in Docs |-> Log(d)], served>>
  <2>1. ASSUME NEW d \in Docs, Create(t, d) \/ CreateVersion(t, d)
        PROVE  UNCHANGED <<[e \in Docs |-> Log(e)], served>>
    BY <2>1 DEF Create, CreateVersion, Begin, Log
  <2>2. ASSUME NEW d \in Docs, Delete(t, d)
        PROVE  UNCHANGED <<[e \in Docs |-> Log(e)], served>>
    <3>1. \A e \in Docs : docs'[e].current = docs[e].current
      BY <2>2 DEF DInv, TypeOK, Delete
    <3> QED BY <2>2, <3>1, OtherLogsStay DEF Delete
  <2>3. ASSUME NEW d \in Docs, NEW v \in Versions, GetVersion(t, d, v)
        PROVE  [H!Next]_<<[e \in Docs |-> Log(e)], served>>
    BY <2>3, ReturnsServes DEF GetVersion, Log
  <2>4. CASE OpenFile(t) \/ WriteFile(t)  BY <2>4 DEF OpenFile, WriteFile, WriteBytes, Log
  <2>5. CASE Commit(t)  BY <2>5, CommitAppends
  <2>6. CASE CommitRefused(t)  BY <2>6 DEF CommitRefused, Log
  <2>7. CASE Return(t)
    <3>1. job[t].doc \in Docs /\ job[t].version \in Versions
      BY <2>7 DEF Return, DInv, TypeOK, JobIsNext
    <3>2. CASE Returns(job[t].doc, job[t].version)
      BY <2>7, <3>1, <3>2, ReturnsServes DEF Return, Log
    <3>3. CASE served' = served  BY <2>7, <3>3 DEF Return, Log
    <3> QED BY <2>7, <3>2, <3>3 DEF Return
  <2> QED BY <1>2, <2>1, <2>2, <2>3, <2>4, <2>5, <2>6, <2>7 DEF ThreadNext
<1>3. CASE UNCHANGED vars  BY <1>3 DEF vars, Log
<1> QED BY <1>1, <1>2, <1>3 DEF Next

LEMMA StartsEmpty == Init => H!Init
<1> SUFFICES ASSUME Init  PROVE [d \in Docs |-> Log(d)] = [d \in Docs |-> <<>>] /\ served = {}
  BY DEF H!Init, Log
<1>1. \A d \in Docs : docs[d].current = 0  BY DEF Init, NoDocument
<1>2. \A d \in Docs : Log(d) = <<>>  BY <1>1 DEF Log
<1> QED BY <1>2 DEF Init

\* The rows are an append-only history of contents, and get_version serves
\* nothing else, whatever requests race and whenever the process restarts.
THEOREM Implements == Spec => Appends
<1>1. DInv /\ [Next]_vars => [H!Next]_<<[d \in Docs |-> [v \in 1 .. docs[d].current |-> rows[d][v]]], served>>
  BY StepAppends DEF Log
<1> QED BY StartsEmpty, <1>1, Invariance, PTL DEF Spec, Appends, H!Spec
=============================================================================
