----------------------------- MODULE Documents -----------------------------
(***************************************************************************)
(* DocumentService: the rows of documents and of their versions are in     *)
(* SQLite, the contents in one file per version.  A new version reads the  *)
(* number of the current one, writes the file of the next, and then adds   *)
(* the row and advances the document in one transaction; nothing is held   *)
(* from the first to the last.  A hash stands for its content.             *)
(***************************************************************************)
EXTENDS Naturals

CONSTANTS
  Threads,      \* request threads
  Docs,         \* document ids: uuids, never drawn twice
  Contents,
  None,         \* no such row, file or document
  Partial,      \* bytes of no content: truncated and not yet written, or mixed
  MaxVersions   \* bound: versions of a document

ASSUME ConstantsAssumption ==
  /\ None \notin Docs \cup Contents /\ Partial \notin Contents \cup {None}
  /\ MaxVersions \in Nat \ {0}

Versions == 1 .. MaxVersions

VARIABLES
  docs,       \* project_documents: current_version, current_sha256, deleted_at
  rows,       \* project_document_versions: the sha256 of each version
  files,      \* the files of the storage root
  pc,         \* what each request does next
  job,        \* the document, version and content it writes
  served,     \* history: what get_version has returned
  contested   \* history: versions that two requests were writing at once

vars == <<docs, rows, files, pc, job, served, contested>>

NoDocument == [current |-> 0, sha |-> None, deleted |-> FALSE]
NoJob == [doc |-> None, version |-> 1, content |-> None]

Init ==
  /\ docs = [d \in Docs |-> NoDocument]
  /\ rows = [d \in Docs |-> [v \in Versions |-> None]]
  /\ files = [d \in Docs |-> [v \in Versions |-> None]]
  /\ pc = [t \in Threads |-> "idle"]
  /\ job = [t \in Threads |-> NoJob]
  /\ served = {} /\ contested = {}

Alive(d) == docs[d].current > 0 /\ ~docs[d].deleted

Writing(d, v) == {t \in Threads : job[t].doc = d /\ job[t].version = v}

Begin(t, d, v) ==
  /\ pc[t] = "idle"
  /\ pc' = [pc EXCEPT ![t] = "opening"]
  /\ \E c \in Contents : job' = [job EXCEPT ![t] = [doc |-> d, version |-> v, content |-> c]]
  /\ contested' = IF Writing(d, v) = {} THEN contested ELSE contested \cup {<<d, v>>}
  /\ UNCHANGED <<docs, rows, files, served>>

Ends(t) == pc' = [pc EXCEPT ![t] = "idle"] /\ job' = [job EXCEPT ![t] = NoJob]

\* A document id is new: nobody has written under it.
Create(t, d) ==
  /\ docs[d] = NoDocument /\ files[d][1] = None /\ Writing(d, 1) = {}
  /\ Begin(t, d, 1)

\* Mutant: the number of the version that is current.
CreateVersionAgain(t, d) == Alive(d) /\ Begin(t, d, docs[d].current)

CreateVersion(t, d) ==
  /\ Alive(d) /\ docs[d].current < MaxVersions
  /\ Begin(t, d, docs[d].current + 1)

\* _write_version: the path follows from document and version alone.
WriteBytes(t, from, to, content) ==
  /\ pc[t] = from
  /\ files' = [files EXCEPT ![job[t].doc][job[t].version] = content]
  /\ pc' = [pc EXCEPT ![t] = to]
  /\ UNCHANGED <<docs, rows, job, served, contested>>

OpenFile(t) == WriteBytes(t, "opening", "writing", Partial)

\* Another request has written the file since t opened it, or is writing it.
Shared(t) ==
  \/ files[job[t].doc][job[t].version] # Partial
  \/ \E u \in Writing(job[t].doc, job[t].version) \ {t} : pc[u] = "writing"

\* The bytes of two writers may mix.
WriteFile(t) ==
  /\ pc[t] = "writing"
  /\ \/ WriteBytes(t, "writing", "committing", job[t].content)
     \/ Shared(t) /\ WriteBytes(t, "writing", "committing", Partial)

Advanced(t) == [docs EXCEPT ![job[t].doc].current = job[t].version,
                            ![job[t].doc].sha = job[t].content]

\* Mutants: a version that exists already is replaced; the insert fails and
\* the document is advanced all the same.
CommitReplacing(t) ==
  /\ pc[t] = "committing"
  /\ rows' = [rows EXCEPT ![job[t].doc][job[t].version] = job[t].content]
  /\ docs' = Advanced(t)
  /\ pc' = [pc EXCEPT ![t] = "returning"]
  /\ UNCHANGED <<files, job, served, contested>>

CommitAnyway(t) ==
  /\ pc[t] = "committing"
  /\ rows' = IF rows[job[t].doc][job[t].version] = None
             THEN [rows EXCEPT ![job[t].doc][job[t].version] = job[t].content] ELSE rows
  /\ docs' = Advanced(t)
  /\ pc' = [pc EXCEPT ![t] = "returning"]
  /\ UNCHANGED <<files, job, served, contested>>

\* The row is inserted and the document advanced, also one that has been
\* deleted meanwhile.
Commit(t) ==
  /\ pc[t] = "committing"
  /\ rows[job[t].doc][job[t].version] = None
  /\ rows' = [rows EXCEPT ![job[t].doc][job[t].version] = job[t].content]
  /\ docs' = Advanced(t)
  /\ pc' = [pc EXCEPT ![t] = "returning"]
  /\ UNCHANGED <<files, job, served, contested>>

\* The primary key of the versions refuses a second row.
CommitRefused(t) ==
  /\ pc[t] = "committing"
  /\ rows[job[t].doc][job[t].version] # None
  /\ Ends(t)
  /\ UNCHANGED <<docs, rows, files, served, contested>>

\* Mutant: the content without the comparison of its hash.
ReadableUnhashed(d, v) == Alive(d) /\ rows[d][v] # None

\* get_version returns the content of a live document's version if it has
\* the hash of the row; document_content_missing, _hash_mismatch otherwise.
Readable(d, v) == Alive(d) /\ rows[d][v] # None /\ files[d][v] = rows[d][v]

Returns(d, v) ==
  served' = IF Readable(d, v) THEN served \cup {<<d, v, files[d][v]>>} ELSE served

\* create_version ends by reading what was written, create does not.
Return(t) ==
  /\ pc[t] = "returning"
  /\ IF job[t].version = 1 THEN UNCHANGED served ELSE Returns(job[t].doc, job[t].version)
  /\ Ends(t)
  /\ UNCHANGED <<docs, rows, files, contested>>

GetVersion(t, d, v) ==
  /\ pc[t] = "idle"
  /\ Readable(d, v)
  /\ Returns(d, v)
  /\ UNCHANGED <<docs, rows, files, pc, job, contested>>

Delete(t, d) ==
  /\ pc[t] = "idle"
  /\ Alive(d)
  /\ docs' = [docs EXCEPT ![d].deleted = TRUE]
  /\ UNCHANGED <<rows, files, pc, job, served, contested>>

Crash ==
  /\ pc' = [t \in Threads |-> "idle"]
  /\ job' = [t \in Threads |-> NoJob]
  /\ UNCHANGED <<docs, rows, files, served, contested>>

ThreadNext(t) ==
  \/ \E d \in Docs : Create(t, d) \/ CreateVersion(t, d) \/ Delete(t, d)
  \/ \E d \in Docs, v \in Versions : GetVersion(t, d, v)
  \/ OpenFile(t) \/ WriteFile(t) \/ Commit(t) \/ CommitRefused(t) \/ Return(t)

Next == Crash \/ \E t \in Threads : ThreadNext(t)

Spec == Init /\ [][Next]_vars

----------------------------------------------------------------------------
Stored == Contents \cup {None}

\* Types.
TypeOK ==
  /\ docs \in [Docs -> [current : 0 .. MaxVersions, sha : Stored, deleted : BOOLEAN]]
  /\ rows \in [Docs -> [Versions -> Stored]]
  /\ files \in [Docs -> [Versions -> Stored \cup {Partial}]]
  /\ pc \in [Threads -> {"idle", "opening", "writing", "committing", "returning"}]
  /\ job \in [Threads -> [doc : Docs \cup {None}, version : Versions, content : Stored]]
  /\ served \subseteq Docs \X Versions \X Contents
  /\ contested \subseteq Docs \X Versions

\* However requests race and the process restarts, a document has a row for
\* each version up to its current one and none beyond, and the document's
\* hash is that of the current version.
HistoryIsWhole ==
  \A d \in Docs :
    /\ \A v \in Versions : rows[d][v] # None <=> v <= docs[d].current
    /\ docs[d].current > 0 => docs[d].sha = rows[d][docs[d].current]

\* A version that has been read is never read with another content, although
\* its file may have been written again.
ReadsAgree ==
  \A r, s \in served : r[1] = s[1] /\ r[2] = s[2] => r[3] = s[3]

\* A version becomes unreadable only where two requests wrote it at once:
\* what a restart left of an unfinished version harms nobody.
DamageIsContested ==
  \A d \in Docs, v \in Versions :
    rows[d][v] # None /\ files[d][v] # rows[d][v] => <<d, v>> \in contested

\* "Stores project documents as append-only versions": a version that is
\* listed can be read while its document lives.
StaysReadable ==
  \A d \in Docs, v \in Versions : Alive(d) /\ v <= docs[d].current => Readable(d, v)

\* The rows are an append-only history, and get_version serves it.
H == INSTANCE DocumentHistory
       WITH history <- [d \in Docs |-> [v \in 1 .. docs[d].current |-> rows[d][v]]]
Appends == H!Spec
=============================================================================
