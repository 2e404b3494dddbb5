--------------------------- MODULE EmbeddingModel ---------------------------
(***************************************************************************)
(* backend/service/knowledge/embedding.py: the local embedding model, its  *)
(* download on request and its use by imports and searches.                *)
(*                                                                         *)
(* Every call runs in a thread of its own.  _STATE_LOCK is held only       *)
(* within a step; _EMBEDDING_LOCK is held over several and is a variable.  *)
(* A .ready file marks a model that was loaded once.  Not modelled: byte   *)
(* counts, vectors and their normalisation, calls with nothing to embed.   *)
(***************************************************************************)
EXTENDS Naturals

CONSTANTS
    Downloads,      \* the calls of download_embedding_model
    Embeds,         \* the calls of embed_texts
    Files,          \* MODEL_FILES
    Nobody,
    Troubles,       \* "crash", "exception", "vanish"
    MaxTroubles     \* bound on how often they happen

Calls == Downloads \union Embeds

ASSUME EmbeddingAssumption ==
    /\ Downloads \intersect Embeds = {} /\ Nobody \notin Calls
    /\ Troubles \subseteq {"crash", "exception", "vanish"}
    /\ MaxTroubles \in Nat

VARIABLES
    file,           \* every model file: "none", "part" or "whole"
    ready,          \* whether there is a .ready file
    release,        \* how many downloads have put their files there
    downloading,    \* _DOWNLOADING
    error,          \* _ERRORS
    phase,          \* _PROGRESS
    model,          \* _MODELS: the release that is loaded, 0 for none
    lock,           \* who holds _EMBEDDING_LOCK
    pc,             \* where every call is
    count,          \* how often something went wrong
    vanished        \* files disappeared under the program

disk   == <<file, ready, release>>
state  == <<downloading, error, phase>>
faults == <<count, vanished>>
vars   == <<disk, state, model, lock, pc, faults>>

-----------------------------------------------------------------------------
Phases == {"none", "preparing", "downloading", "validating"}
Points == {"new", "pop", "unmark", "unlink", "fetch", "validate", "load", "publish",
           "fail", "failed", "clear", "check", "locked", "compute", "invalidate", "forget",
           "done", "raised"}

\* Progress is kept exactly as long as a download runs, and every variable has
\* the values that embedding.py gives it.
TypeOK ==
    /\ file \in [Files -> {"none", "part", "whole"}]
    /\ ready \in BOOLEAN /\ downloading \in BOOLEAN /\ error \in BOOLEAN
    /\ phase \in Phases /\ (phase = "none" <=> ~downloading)
    /\ release \in Nat /\ model \in 0..release
    /\ lock \in Calls \union {Nobody}
    /\ pc \in [Calls -> Points]
    /\ count \in 0..MaxTroubles /\ vanished \in BOOLEAN

\* The model is missing, or an earlier run of the program downloaded it.
Init ==
    /\ \/ file = [f \in Files |-> "none"] /\ ready = FALSE
       \/ file = [f \in Files |-> "whole"] /\ ready = TRUE
    /\ release = IF ready THEN 1 ELSE 0
    /\ downloading = FALSE /\ error = FALSE /\ phase = "none"
    /\ model = 0 /\ lock = Nobody
    /\ pc = [c \in Calls |-> "new"]
    /\ count = 0 /\ vanished = FALSE

-----------------------------------------------------------------------------
At(c, point)   == pc[c] = point
Goes(c, point) == pc' = [pc EXCEPT ![c] = point]

Happens(trouble) == trouble \in Troubles /\ count < MaxTroubles /\ count' = count + 1

\* _files_ready: the mark and every file are there, and no file is empty.
FilesReady == ready /\ \A f \in Files : file[f] # "none"

\* get_embedding_status.
Status ==
    IF downloading THEN "downloading"
    ELSE IF error THEN "error"
    ELSE IF FilesReady THEN "ready" ELSE "missing"

\* What _load_model needs.
Loadable == \A f \in Files : file[f] = "whole"

-----------------------------------------------------------------------------
(* download_embedding_model *)

\* There is nothing to download, or somebody does it.
Needless == Status \in {"ready", "downloading"}

\* The status is looked at and the download announced under the state lock.
StartDownload(d) ==
    /\ At(d, "new")
    /\ IF Needless THEN Goes(d, "done") /\ UNCHANGED state
       ELSE /\ downloading' = TRUE /\ error' = FALSE /\ phase' = "preparing"
            /\ Goes(d, "pop")
    /\ UNCHANGED <<disk, model, lock, faults>>

\* Whoever embeds with the old model finishes first.
PopModel(d) ==
    /\ At(d, "pop") /\ lock = Nobody
    /\ model' = 0
    /\ Goes(d, "unmark")
    /\ UNCHANGED <<disk, state, lock, faults>>

\* Defect: the mark stays until the files are there.
StillMarked == ready

Unmarked == FALSE

Unmark(d) ==
    /\ At(d, "unmark")
    /\ ready' = Unmarked
    /\ Goes(d, "unlink")
    /\ UNCHANGED <<file, release, state, model, lock, faults>>

\* Left-over files are removed one by one.
UnlinkFile(d) ==
    /\ At(d, "unlink")
    /\ \/ \E f \in Files :
            /\ file[f] # "none"
            /\ file' = [file EXCEPT ![f] = "none"]
            /\ UNCHANGED pc
       \/ /\ \A f \in Files : file[f] = "none"
          /\ Goes(d, "fetch")
          /\ UNCHANGED file
    /\ UNCHANGED <<ready, release, state, model, lock, faults>>

\* snapshot_download writes the files, with the callbacks reporting progress.
FetchFile(d) ==
    /\ At(d, "fetch")
    /\ \E f \in Files :
          /\ file[f] # "whole"
          /\ file' = [file EXCEPT ![f] = IF @ = "none" THEN "part" ELSE "whole"]
    /\ phase' = "downloading"
    /\ UNCHANGED <<ready, release, downloading, error, model, lock, pc, faults>>

\* A file that disappears meanwhile is not fetched again.
FetchedAll(d) ==
    /\ At(d, "fetch")
    /\ \A f \in Files : file[f] = "whole" \/ (vanished /\ file[f] = "none")
    /\ release' = release + 1
    /\ Goes(d, "validate")
    /\ UNCHANGED <<file, ready, state, model, lock, faults>>

\* A file that is missing now raises.
CheckFiles(d) ==
    /\ At(d, "validate")
    /\ IF \A f \in Files : file[f] # "none"
       THEN phase' = "validating" /\ Goes(d, "load")
       ELSE phase' = phase /\ Goes(d, "fail")
    /\ UNCHANGED <<disk, downloading, error, model, lock, faults>>

\* The model is loaded once to see that the files are good.
LoadDownloaded(d) ==
    /\ At(d, "load") /\ lock = Nobody
    /\ IF Loadable THEN lock' = d /\ Goes(d, "publish")
       ELSE lock' = lock /\ Goes(d, "fail")
    /\ UNCHANGED <<disk, state, model, faults>>

Publish(d) ==
    /\ At(d, "publish")
    /\ ready' = TRUE /\ model' = release
    /\ lock' = Nobody
    /\ Goes(d, "clear")
    /\ UNCHANGED <<file, release, state, faults>>

\* Any step may raise; a lock is let go.
DownloadRaises(d) ==
    /\ pc[d] \in {"pop", "unmark", "unlink", "fetch", "load", "publish"}
    /\ Happens("exception")
    /\ lock' = IF lock = d THEN Nobody ELSE lock
    /\ Goes(d, "fail")
    /\ UNCHANGED <<disk, state, model, vanished>>

\* The error is noted, and only then the download is over.
NoteError(d) ==
    /\ At(d, "fail")
    /\ error' = TRUE
    /\ Goes(d, "failed")
    /\ UNCHANGED <<disk, downloading, phase, model, lock, faults>>

ClearDownload(d) ==
    /\ pc[d] \in {"clear", "failed"}
    /\ downloading' = FALSE /\ phase' = "none"
    /\ Goes(d, IF At(d, "clear") THEN "done" ELSE "raised")
    /\ UNCHANGED <<disk, error, model, lock, faults>>

-----------------------------------------------------------------------------
(* embed_texts *)

\* ensure_embedding_model, before the lock.
CheckModel(e) ==
    /\ At(e, "new")
    /\ Goes(e, IF Status = "ready" THEN "check" ELSE "raised")
    /\ UNCHANGED <<disk, state, model, lock, faults>>

\* Defect: the status is not asked again with the lock held.
AskedBefore == TRUE

StillReady == Status = "ready"

\* And again with the lock held.
LockModel(e) ==
    /\ At(e, "check") /\ lock = Nobody
    /\ IF StillReady THEN lock' = e /\ Goes(e, "locked")
       ELSE lock' = lock /\ Goes(e, "raised")
    /\ UNCHANGED <<disk, state, model, faults>>

LoadModel(e) ==
    /\ At(e, "locked")
    /\ IF model = 0 /\ ~Loadable THEN model' = model /\ Goes(e, "invalidate")
       ELSE model' = (IF model = 0 THEN release ELSE model) /\ Goes(e, "compute")
    /\ UNCHANGED <<disk, state, lock, faults>>

Compute(e) ==
    /\ At(e, "compute")
    /\ lock' = Nobody
    /\ Goes(e, "done")
    /\ UNCHANGED <<disk, state, model, faults>>

EmbedRaises(e) ==
    /\ pc[e] \in {"locked", "compute"}
    /\ Happens("exception")
    /\ Goes(e, "invalidate")
    /\ UNCHANGED <<disk, state, model, lock, vanished>>

\* _invalidate_model: the error is noted and the mark removed, if it can be.
Invalidate(e) ==
    /\ At(e, "invalidate")
    /\ error' = TRUE
    /\ \/ ready' = FALSE /\ UNCHANGED faults
       \/ ready' = ready /\ Happens("exception") /\ UNCHANGED vanished
    /\ Goes(e, "forget")
    /\ UNCHANGED <<file, release, downloading, phase, model, lock>>

\* Defect: the call that failed keeps the lock.
KeptLock == lock

FreedLock == Nobody

ForgetModel(e) ==
    /\ At(e, "forget")
    /\ model' = 0 /\ lock' = FreedLock
    /\ Goes(e, "raised")
    /\ UNCHANGED <<disk, state, faults>>

-----------------------------------------------------------------------------
\* The process dies and starts again: only the disk is left of what it knew,
\* and the calls that ran are over.
Crash ==
    /\ Happens("crash")
    /\ downloading' = FALSE /\ error' = FALSE /\ phase' = "none"
    /\ model' = 0 /\ lock' = Nobody
    /\ pc' = [c \in Calls |-> IF At(c, "new") THEN "new" ELSE "raised"]
    /\ UNCHANGED <<disk, vanished>>

\* Somebody removes a model file, or the directory.
Vanish ==
    /\ Happens("vanish")
    /\ vanished' = TRUE
    /\ \/ \E f \in Files : file' = [file EXCEPT ![f] = "none"] /\ ready' = ready
       \/ file' = [f \in Files |-> "none"] /\ ready' = FALSE
    /\ UNCHANGED <<release, state, model, lock, pc>>

Download(d) ==
    \/ StartDownload(d) \/ PopModel(d) \/ Unmark(d) \/ UnlinkFile(d)
    \/ FetchFile(d) \/ FetchedAll(d) \/ CheckFiles(d)
    \/ LoadDownloaded(d) \/ Publish(d)
    \/ NoteError(d) \/ ClearDownload(d)

Embed(e) ==
    \/ CheckModel(e) \/ LockModel(e) \/ LoadModel(e) \/ Compute(e)
    \/ Invalidate(e) \/ ForgetModel(e)

Next ==
    \/ \E d \in Downloads : Download(d) \/ DownloadRaises(d)
    \/ \E e \in Embeds : Embed(e) \/ EmbedRaises(e)
    \/ Crash \/ Vanish

Spec == Init /\ [][Next]_vars

\* Every thread goes on; each call takes the lock once or twice, so that a
\* thread which waits for it comes to it.
FairSpec ==
    Spec /\ (\A d \in Downloads : WF_vars(Download(d))) /\ \A e \in Embeds : WF_vars(Embed(e))

-----------------------------------------------------------------------------
(* What the model's users rely on *)

\* A directory that is reported as ready holds every file whole, whatever died
\* raised or disappeared during a download or a validation.
ReadyIsWhole == Status = "ready" => Loadable

\* Nobody embeds with a model of earlier files: while a call computes, the
\* files are not being replaced and the model is of the last release.
ModelIsCurrent ==
    \A e \in Embeds : At(e, "compute") =>
        /\ model = release
        /\ \A d \in Downloads : pc[d] \notin {"unmark", "unlink", "fetch", "validate"}

\* A download that returns without an error leaves the model ready, although
\* calls fail beside it, unless files disappeared: then a call that still held
\* the lock may report its failure as one of the new model.
SuccessIsReady ==
    [][\A d \in Downloads :
          At(d, "clear") /\ pc'[d] = "done" /\ ~vanished => Status' = "ready"]_vars

\* A running download ends and sets the status free, although it waits twice
\* for a lock that other calls hold and that they wait for.
DownloadEnds == downloading ~> ~downloading

=============================================================================
