--------------------------- MODULE KnowledgeStore ---------------------------
(***************************************************************************)
(* backend/service/knowledge/store.py: the shared document library, kept   *)
(* in two stores that no transaction spans: catalog.json, replaced         *)
(* atomically, and a vector index whose writes last only once flushed.     *)
(*                                                                         *)
(* One operation holds _STORAGE_LOCK at a time; a step is what it does     *)
(* between two writes, so that a crash, an exception or a change of the    *)
(* original file may come between any two.  A version stands for the text  *)
(* and the modification time of a file; a piece is a batch of its chunks.  *)
(***************************************************************************)
EXTENDS Naturals

CONSTANTS
    Docs,           \* the original files
    MaxVersion,     \* bound on the versions of a file
    MaxPieces,      \* bound on the batches of chunks of a version
    Pieces,         \* how many batches every version has
    Troubles,       \* what may go wrong
    MaxTroubles     \* bound on how often it does

Versions == 1..MaxVersion
Numbers  == 1..MaxPieces

\* The process dies, a step raises, the index is lost or is one of an earlier
\* release, a file that was gone is back as it was.
Kinds == {"crash", "exception", "loss", "return"}

ASSUME StoreAssumption ==
    /\ MaxVersion \in Nat \ {0} /\ MaxPieces \in Nat
    /\ Pieces \in [Versions -> Numbers]
    /\ Troubles \subseteq Kinds /\ MaxTroubles \in Nat

VARIABLES
    version,    \* the latest version of every file
    gone,       \* the files that do not exist now
    documents,  \* catalog.json: the records, mtime 0 for none
    pending,    \* catalog.json: the documents whose vectors are incomplete
    dir,        \* the index directory
    index,      \* the version whose text every piece in the index has, or 0
    stored,     \* what of the index survives a crash
    step,       \* where the operation is that holds the storage lock
    goal,       \* what it does with the documents it works on
    work,       \* the documents it works on
    mtime,      \* the modification time it saw first
    text,       \* the version it read
    next,       \* the next piece to insert
    status,     \* _SYNC_STATES: the status of the synchronisation
    sync,       \* whether it waits for the storage lock or holds it
    todo,       \* the documents it has not come to
    rebuild,    \* it found no index
    count,      \* how often something went wrong
    seen        \* what went wrong so far

files    == <<version, gone>>
catalog  == <<documents, pending>>
vectors  == <<dir, index, stored>>
locals   == <<goal, work, mtime, text, next>>
syncing  == <<status, sync, todo, rebuild>>
troubled == <<count, seen>>
vars     == <<files, catalog, vectors, step, locals, syncing, troubled>>

-----------------------------------------------------------------------------
Steps == {"free", "stat", "read", "check", "mark", "delete", "clear", "publish",
          "insert", "commit", "forget", "sync"}

NoRecord  == [mtime |-> 0, pieces |-> 0]
Record    == [mtime : 0..MaxVersion, pieces : 0..MaxPieces]
Index     == [Docs -> [Numbers -> 0..MaxVersion]]
NoVectors == [d \in Docs |-> [n \in Numbers |-> 0]]

Known == {d \in Docs : documents[d].mtime # 0}

CatalogType ==
    /\ version \in [Docs -> Versions] /\ gone \subseteq Docs
    /\ documents \in [Docs -> Record] /\ pending \subseteq Known

IndexType ==
    /\ dir \in {"missing", "old", "ready"}
    /\ index \in Index /\ stored \in Index

OperationType ==
    /\ step \in Steps /\ goal \in {"none", "write", "remove", "delete"}
    /\ work \subseteq Docs
    /\ mtime \in 0..MaxVersion /\ text \in 0..MaxVersion /\ next \in Nat

SyncType ==
    /\ status \in {"idle", "running", "completed", "error"}
    /\ sync \in {"none", "waiting", "holding"}
    /\ todo \subseteq Docs /\ rebuild \in BOOLEAN
    /\ count \in 0..MaxTroubles /\ seen \subseteq Troubles

\* Only documents of the catalog are pending, and every variable has the
\* values that store.py gives it.
TypeOK == CatalogType /\ IndexType /\ OperationType /\ SyncType

Init ==
    /\ version = [d \in Docs |-> 1] /\ gone = {}
    /\ documents = [d \in Docs |-> NoRecord] /\ pending = {}
    /\ dir = "missing" /\ index = NoVectors /\ stored = NoVectors
    /\ step = "free" /\ goal = "none" /\ work = {}
    /\ mtime = 0 /\ text = 0 /\ next = 1
    /\ status = "idle" /\ sync = "none" /\ todo = {} /\ rebuild = FALSE
    /\ count = 0 /\ seen = {}

-----------------------------------------------------------------------------
(* Parts of steps *)

Goes(to) == step' = to /\ UNCHANGED <<locals, syncing>>

NoLocals ==
    /\ goal' = "none" /\ work' = {}
    /\ mtime' = 0 /\ text' = 0 /\ next' = 1

NoSync == sync' = "none" /\ todo' = {} /\ rebuild' = FALSE

\* The operation is over: the synchronisation goes on, any other lets go of
\* the lock.
Done ==
    /\ step' = IF sync = "holding" THEN "sync" ELSE "free"
    /\ NoLocals
    /\ UNCHANGED syncing

\* An exception ends the operation, and the synchronisation it is part of.
Raise ==
    /\ step' = "free"
    /\ NoLocals
    /\ IF sync = "holding" THEN NoSync /\ status' = "error"
       ELSE UNCHANGED syncing

\* The file has the modification time that the operation saw first.
Unchanged(d) == d \notin gone /\ version[d] = mtime

\* Defect: the vectors of the previous version stay.
NotDeleted(some) == index

\* delete_by_filter for some documents.
Deleted(some) ==
    [d \in Docs |-> IF d \in some THEN [n \in Numbers |-> 0] ELSE index[d]]

\* Defect: the index is not flushed.
NotFlushed == stored
Flushed    == index

\* The catalog's answer whether a document is up to date.
UpToDate(d) == documents[d].mtime = version[d] /\ d \notin pending

StartWrite(d) ==
    /\ goal' = "write" /\ work' = {d} /\ step' = "stat"
    /\ UNCHANGED <<mtime, text, next>>

-----------------------------------------------------------------------------
(* import_document and _write_document *)

Import(d) ==
    /\ step = "free"
    /\ d \notin gone /\ ~UpToDate(d)
    /\ StartWrite(d)
    /\ UNCHANGED <<files, catalog, vectors, syncing, troubled>>

Stat(d) ==
    /\ step = "stat" /\ work = {d}
    /\ IF d \in gone THEN Raise
       ELSE /\ mtime' = version[d] /\ step' = "read"
            /\ UNCHANGED <<goal, work, text, next, syncing>>
    /\ UNCHANGED <<files, catalog, vectors, troubled>>

ReadText(d) ==
    /\ step = "read" /\ work = {d}
    /\ IF d \in gone THEN Raise
       ELSE /\ text' = version[d] /\ step' = "check"
            /\ UNCHANGED <<goal, work, mtime, next, syncing>>
    /\ UNCHANGED <<files, catalog, vectors, troubled>>

CheckText(d) ==
    /\ step = "check" /\ work = {d}
    /\ IF Unchanged(d) THEN Goes("delete") ELSE Raise
    /\ UNCHANGED <<files, catalog, vectors, troubled>>

\* _collection(create=True) destroys an index of an old structure.
DestroyOld ==
    /\ step = "delete" /\ goal # "delete" /\ dir = "old"
    /\ dir' = "missing"
    /\ UNCHANGED <<files, catalog, index, stored, step, locals, syncing, troubled>>

\* The vectors of the documents are deleted; only an operation that writes or
\* removes creates the index for it.
DeleteVectors ==
    /\ step = "delete"
    /\ dir = "ready" \/ (goal # "delete" /\ dir = "missing")
    /\ dir' = "ready"
    /\ index' = Deleted(work)
    /\ Goes("clear")
    /\ UNCHANGED <<files, catalog, stored, troubled>>

\* The filter fails on an index of the old structure.
DeleteRaises ==
    /\ step = "delete" /\ goal = "delete" /\ dir # "ready"
    /\ Raise
    /\ UNCHANGED <<files, catalog, vectors, troubled>>

FlushDeletion ==
    /\ step = "clear"
    /\ stored' = Flushed
    /\ Goes(IF goal = "write" THEN "publish" ELSE "forget")
    /\ UNCHANGED <<files, catalog, dir, index, troubled>>

\* The new record is published as pending before its vectors are written.
Publish(d) ==
    /\ step = "publish" /\ work = {d}
    /\ documents' = [documents EXCEPT ![d] = [mtime |-> mtime, pieces |-> Pieces[text]]]
    /\ pending' = pending \cup {d}
    /\ Goes("insert")
    /\ UNCHANGED <<files, vectors, troubled>>

Insert(d) ==
    /\ step = "insert" /\ work = {d} /\ next <= Pieces[text]
    /\ index' = [index EXCEPT ![d][next] = text]
    /\ next' = next + 1
    /\ UNCHANGED <<files, catalog, dir, stored, step, goal, work, mtime, text,
                   syncing, troubled>>

FlushInserts ==
    /\ step = "insert" /\ next > Pieces[text]
    /\ stored' = Flushed
    /\ Goes("commit")
    /\ UNCHANGED <<files, catalog, dir, index, troubled>>

\* Only a document that was written as a whole is no longer pending.
Commit(d) ==
    /\ step = "commit" /\ work = {d}
    /\ IF Unchanged(d) THEN pending' = pending \ {d} /\ Done
       ELSE Raise /\ UNCHANGED pending
    /\ UNCHANGED <<files, documents, vectors, troubled>>

-----------------------------------------------------------------------------
(* delete_documents *)

Delete(selected) ==
    /\ step = "free"
    /\ selected # {} /\ selected \subseteq Known
    /\ goal' = "delete" /\ work' = selected
    /\ step' = IF dir = "missing" THEN "forget" ELSE "mark"
    /\ UNCHANGED <<files, catalog, vectors, mtime, text, next, syncing, troubled>>

Mark ==
    /\ step = "mark"
    /\ pending' = pending \cup work
    /\ Goes("delete")
    /\ UNCHANGED <<files, documents, vectors, troubled>>

\* Defect: a removed document stays pending.
StillPending == pending
PendingAfter == pending \ work

\* The catalog forgets documents whose vectors are gone.
Forget ==
    /\ step = "forget"
    /\ documents' = [d \in Docs |-> IF d \in work THEN NoRecord ELSE documents[d]]
    /\ pending' = PendingAfter
    /\ Done
    /\ UNCHANGED <<files, vectors, troubled>>

-----------------------------------------------------------------------------
(* sync, _sync and _sync_document *)

\* A request while one is running only reports it.
RequestSync ==
    /\ status # "running"
    /\ status' = "running" /\ sync' = "waiting"
    /\ UNCHANGED <<files, catalog, vectors, step, locals, todo, rebuild, troubled>>

\* The lock is granted.
BeginSync ==
    /\ sync = "waiting" /\ step = "free"
    /\ sync' = "holding" /\ step' = "sync"
    /\ todo' = Known
    /\ rebuild' = (dir = "missing")
    /\ UNCHANGED <<files, catalog, vectors, locals, status, troubled>>

\* Defect: a document whose last write was not completed is skipped.
SameTime(d) == documents[d].mtime = version[d] /\ ~rebuild
Skips(d)    == UpToDate(d) /\ ~rebuild

SyncDocument(d) ==
    /\ step = "sync" /\ d \in todo
    /\ todo' = todo \ {d}
    /\ \/ /\ d \in gone
          /\ goal' = "remove" /\ work' = {d} /\ step' = "delete"
          /\ UNCHANGED <<mtime, text, next>>
       \/ d \notin gone /\ ~Skips(d) /\ StartWrite(d)
       \/ d \notin gone /\ Skips(d) /\ UNCHANGED <<step, locals>>
    /\ UNCHANGED <<files, catalog, vectors, status, sync, rebuild, troubled>>

EndSync ==
    /\ step = "sync" /\ todo = {}
    /\ step' = "free" /\ status' = "completed" /\ NoSync
    /\ UNCHANGED <<files, catalog, vectors, locals, troubled>>

-----------------------------------------------------------------------------
(* The world around the store *)

Trouble(kind) ==
    /\ kind \in Troubles /\ count < MaxTroubles
    /\ count' = count + 1 /\ seen' = seen \cup {kind}

Modify(d) ==
    /\ version[d] < MaxVersion
    /\ version' = [version EXCEPT ![d] = @ + 1]
    /\ gone' = gone \ {d}
    /\ UNCHANGED <<catalog, vectors, step, locals, syncing, troubled>>

RemoveFile(d) ==
    /\ d \notin gone
    /\ gone' = gone \cup {d}
    /\ UNCHANGED <<version, catalog, vectors, step, locals, syncing, troubled>>

ReturnFile(d) ==
    /\ d \in gone
    /\ Trouble("return")
    /\ gone' = gone \ {d}
    /\ UNCHANGED <<version, catalog, vectors, step, locals, syncing>>

\* What a step that raises may have done: a deletion goes from document to
\* document.
Attempts ==
    IF step = "delete" /\ dir = "ready"
    THEN {Deleted(some) : some \in SUBSET work} ELSE {index}

\* A step raises: an unreadable file, a failed embedding, a full disk.
Fault ==
    /\ step # "free"
    /\ Trouble("exception")
    /\ index' \in Attempts
    /\ Raise
    /\ UNCHANGED <<files, catalog, dir, stored>>

\* Of what was not flushed, anything may be lost.
Survivors ==
    {i \in Index : \A d \in Docs, n \in Numbers :
                       i[d][n] \in {index[d][n], stored[d][n]}}

\* The process dies.
Crash ==
    /\ Trouble("crash")
    /\ index' \in Survivors
    /\ stored' = index'
    /\ step' = "free" /\ NoLocals
    /\ status' = "idle" /\ NoSync
    /\ UNCHANGED <<files, catalog, dir>>

LoseIndex ==
    /\ step = "free"
    /\ Trouble("loss")
    /\ dir' \in {"missing", "old"}
    /\ index' = NoVectors /\ stored' = NoVectors
    /\ UNCHANGED <<files, catalog, step, locals, syncing>>

-----------------------------------------------------------------------------
Write ==
    \/ \E d \in Docs : \/ Stat(d) \/ ReadText(d) \/ CheckText(d)
                       \/ Publish(d) \/ Insert(d) \/ Commit(d)
    \/ DestroyOld \/ DeleteVectors \/ DeleteRaises
    \/ FlushDeletion \/ FlushInserts
    \/ Mark \/ Forget

SyncStep == EndSync \/ \E d \in Docs : SyncDocument(d)

Request ==
    \/ \E d \in Docs : Import(d)
    \/ \E selected \in SUBSET Docs : Delete(selected)
    \/ RequestSync

World ==
    \/ \E d \in Docs : Modify(d) \/ RemoveFile(d) \/ ReturnFile(d)
    \/ Fault \/ Crash \/ LoseIndex

Next == Write \/ BeginSync \/ SyncStep \/ Request \/ World

Spec == Init /\ [][Next]_vars

\* An operation that holds the lock goes on, and a synchronisation that waits
\* for the lock again and again is granted it.
FairSpec ==
    /\ Spec
    /\ WF_vars(Write) /\ WF_vars(SyncStep) /\ SF_vars(BeginSync)

-----------------------------------------------------------------------------
(* Safety *)

\* The index holds every piece of the recorded version and nothing else.
Whole(d) ==
    \A n \in Numbers :
        index[d][n] = IF n <= documents[d].pieces THEN documents[d].mtime ELSE 0

\* What search and read_document can find of a document that is not pending is
\* text of the version that is recorded: never an older text, a mixture of two
\* or the rest of a longer one, whatever went wrong between two writes.
RecordedText ==
    \A d \in Docs \ pending : \A n \in Numbers :
        index[d][n] # 0 =>
            index[d][n] = documents[d].mtime /\ n <= documents[d].pieces

\* A document that import and sync take for up to date is in the index as a
\* whole, unless the whole index is missing, which sync repairs.
UpToDateIsWhole ==
    step = "free" /\ dir = "ready" =>
        \A d \in Known \ gone : UpToDate(d) => Whole(d)

OnlyFailures == seen \subseteq {"crash", "exception"}

\* No crash and no exception leaves a document that is incomplete and that no
\* later sync would repair.
NothingForgotten == OnlyFailures => UpToDateIsWhole

\* The documents that a synchronisation has done are whole and not pending
\* when it comes to the next one, and so all are when it completes.
SyncedAreWhole ==
    OnlyFailures /\ step = "sync" =>
        \A d \in Known \ todo : d \notin pending /\ Whole(d)

-----------------------------------------------------------------------------
(* Liveness *)

Settled(d) == d \notin Known \/ (d \notin gone /\ UpToDate(d) /\ Whole(d))

\* If the user asks for a synchronisation again and again, then whatever
\* crashed, raised or changed, every document is again and again either
\* forgotten or in the index as it is on the disk.
SyncSettles ==
    []OnlyFailures /\ []<>(status = "running") =>
        \A d \in Docs : []<>Settled(d)

=============================================================================
