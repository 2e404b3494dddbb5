------------------------ MODULE EmbeddingModelProofs ------------------------
(* Theorems about EmbeddingModel for any number of downloads, of other calls,  *)
(* of files and of troubles.                                                   *)
EXTENDS EmbeddingModel, TLAPS

Active    == {"pop", "unmark", "unlink", "fetch", "validate", "load", "publish",
              "clear", "fail", "failed"}
Replacing == {"unmark", "unlink", "fetch", "validate", "load", "publish"}
Holding   == {"locked", "compute", "invalidate", "forget"}

NoPart == \A f \in Files : file[f] # "part"

\* One download at a time.
OneDownload ==
    \A d \in Downloads : pc[d] \in Active =>
        downloading /\ \A o \in Downloads \ {d} : pc[o] \notin Active

\* Whoever counts on the lock has it.
LockHeld ==
    /\ \A e \in Embeds : pc[e] \in Holding => lock = e
    /\ \A d \in Downloads : pc[d] = "publish" => lock = d

\* Where the mark is no file is half there; the mark is gone before the files
\* are, and they are checked before it comes back.
MarkTells ==
    /\ ready => NoPart
    /\ \A d \in Downloads :
         /\ pc[d] \in Replacing \ {"unmark"} => ~ready
         /\ pc[d] \in {"validate", "load", "publish"} => NoPart

\* A model is of the last release, and nobody holds one while files are replaced.
ModelKept ==
    /\ model \in {0, release}
    /\ \A d \in Downloads : pc[d] \in Replacing =>
         model = 0 /\ \A e \in Embeds : pc[e] \notin Holding
    /\ \A e \in Embeds : pc[e] = "compute" => model = release

\* As long as no file disappears, calls that use a model see it ready, and a
\* download which goes on has no error beside it.
Undisturbed ==
    ~vanished =>
        /\ \A e \in Embeds : pc[e] \in {"locked", "compute", "invalidate"} => Status = "ready"
        /\ \A d \in Downloads :
             /\ pc[d] \in Active \ {"failed"} => ~error
             /\ pc[d] = "publish" => Loadable
             /\ pc[d] = "clear" => ready /\ Loadable

Consistent == OneDownload /\ LockHeld /\ MarkTells /\ ModelKept /\ Undisturbed

-----------------------------------------------------------------------------
LEMMA Distinct ==
    /\ \A d \in Downloads, e \in Embeds : d # e
    /\ \A c \in Calls : c # Nobody
    /\ Downloads \subseteq Calls /\ Embeds \subseteq Calls
BY EmbeddingAssumption DEF Calls

-----------------------------------------------------------------------------
(* Every step keeps the invariant *)

\* The parts of TypeOK apart from the places of the calls.
FlagsOK    == ready \in BOOLEAN /\ downloading \in BOOLEAN /\ error \in BOOLEAN /\ vanished \in BOOLEAN
FilesOK    == file \in [Files -> {"none", "part", "whole"}]
ProgressOK == phase \in Phases /\ (phase = "none" <=> ~downloading)
NumbersOK  == release \in Nat /\ model \in 0..release /\ count \in 0..MaxTroubles
LockOK     == lock \in Calls \union {Nobody}

LEMMA TypeParts ==
    TypeOK <=> FlagsOK /\ FilesOK /\ ProgressOK /\ NumbersOK /\ LockOK /\ pc \in [Calls -> Points]
BY DEF TypeOK, FlagsOK, FilesOK, ProgressOK, NumbersOK, LockOK

LEMMA InitConsistent == Init => TypeOK /\ Consistent
<1> SUFFICES ASSUME Init PROVE TypeOK /\ Consistent
  OBVIOUS
<1>1. TypeOK
  <2>1. FlagsOK
    BY DEF Init, FlagsOK
  <2>2. FilesOK /\ LockOK
    BY DEF Init, FilesOK, LockOK
  <2>3. ProgressOK /\ pc \in [Calls -> Points]
    BY DEF Init, ProgressOK, Phases, Points
  <2>4. NumbersOK
    BY EmbeddingAssumption DEF Init, NumbersOK
  <2> QED BY <2>1, <2>2, <2>3, <2>4, TypeParts
<1>2. \A c \in Calls : pc[c] = "new"
  BY DEF Init
<1>3. NoPart
  BY DEF Init, NoPart
<1>4. Consistent
  BY <1>1, <1>2, <1>3, Distinct DEF Consistent, OneDownload, LockHeld, MarkTells,
     ModelKept, Undisturbed, Active, Replacing, Holding, Init
<1> QED BY <1>1, <1>4

LEMMA PointsStep ==
    ASSUME TypeOK, [Next]_vars PROVE pc' \in [Calls -> Points]
<1>1. pc \in [Calls -> Points]
  BY DEF TypeOK
<1>2. ASSUME NEW c \in Calls, NEW p \in Points, pc' = [pc EXCEPT ![c] = p]
      PROVE  pc' \in [Calls -> Points]
  BY <1>1, <1>2
<1>3. CASE UNCHANGED pc
  BY <1>1, <1>3
<1>4. ASSUME NEW d \in Downloads, Download(d) \/ DownloadRaises(d)
      PROVE  pc' = pc \/ \E p \in Points : pc' = [pc EXCEPT ![d] = p]
  BY <1>4 DEF Download, StartDownload, PopModel, Unmark, UnlinkFile, FetchFile, FetchedAll,
     CheckFiles, LoadDownloaded, Publish, DownloadRaises, NoteError, ClearDownload, Goes, Points
<1>5. ASSUME NEW e \in Embeds, Embed(e) \/ EmbedRaises(e)
      PROVE  pc' = pc \/ \E p \in Points : pc' = [pc EXCEPT ![e] = p]
  BY <1>5 DEF Embed, EmbedRaises, CheckModel, LockModel, LoadModel, Compute, Invalidate,
     ForgetModel, Goes, Points
<1>6. CASE Crash
  BY <1>6 DEF Crash, Points
<1>7. CASE Vanish \/ UNCHANGED vars
  BY <1>3, <1>7 DEF Vanish, vars
<1> QED BY <1>2, <1>3, <1>4, <1>5, <1>6, <1>7, Distinct DEF Next

LEMMA FlagsStep == ASSUME FlagsOK, [Next]_vars PROVE FlagsOK'
<1> USE DEF FlagsOK, disk, state, faults, vars
<1>1. ASSUME NEW d \in Downloads, Download(d) PROVE FlagsOK'
  <2>1. CASE StartDownload(d) \/ PopModel(d) \/ Unmark(d) \/ UnlinkFile(d)
    BY <2>1 DEF StartDownload, PopModel, Unmark, Unmarked, UnlinkFile
  <2>2. CASE FetchFile(d) \/ FetchedAll(d) \/ CheckFiles(d) \/ LoadDownloaded(d)
    BY <2>2 DEF FetchFile, FetchedAll, CheckFiles, LoadDownloaded
  <2>3. CASE Publish(d) \/ NoteError(d) \/ ClearDownload(d)
    BY <2>3 DEF Publish, NoteError, ClearDownload
  <2> QED BY <1>1, <2>1, <2>2, <2>3 DEF Download
<1>2. ASSUME NEW d \in Downloads, DownloadRaises(d) PROVE FlagsOK'
  BY <1>2 DEF DownloadRaises
<1>3. ASSUME NEW e \in Embeds, Embed(e) \/ EmbedRaises(e) PROVE FlagsOK'
  BY <1>3 DEF Embed, EmbedRaises, CheckModel, LockModel, LoadModel, Compute, Invalidate, ForgetModel
<1>4. CASE Crash \/ Vanish \/ UNCHANGED vars
  BY <1>4 DEF Crash, Vanish
<1> QED BY <1>1, <1>2, <1>3, <1>4 DEF Next

LEMMA FilesStep == ASSUME FilesOK, [Next]_vars PROVE FilesOK'
<1> USE DEF FilesOK, disk, vars
<1>1. ASSUME NEW d \in Downloads, Download(d) \/ DownloadRaises(d) PROVE FilesOK'
  BY <1>1 DEF Download, StartDownload, PopModel, Unmark, UnlinkFile, FetchFile, FetchedAll,
     CheckFiles, LoadDownloaded, Publish, DownloadRaises, NoteError, ClearDownload
<1>2. ASSUME NEW e \in Embeds, Embed(e) \/ EmbedRaises(e) PROVE FilesOK'
  BY <1>2 DEF Embed, EmbedRaises, CheckModel, LockModel, LoadModel, Compute, Invalidate, ForgetModel
<1>3. CASE Crash \/ Vanish \/ UNCHANGED vars
  BY <1>3 DEF Crash, Vanish
<1> QED BY <1>1, <1>2, <1>3 DEF Next

LEMMA ProgressStep == ASSUME ProgressOK, OneDownload, [Next]_vars PROVE ProgressOK'
<1> USE DEF ProgressOK, state, vars, Phases
<1>1. ASSUME NEW d \in Downloads, Download(d) \/ DownloadRaises(d) PROVE ProgressOK'
  <2>1. pc[d] \in Active => downloading
    BY DEF OneDownload
  <2>2. CASE StartDownload(d) \/ ClearDownload(d)
    BY <2>2 DEF StartDownload, ClearDownload
  <2>3. CASE FetchFile(d)
    BY <2>1, <2>3 DEF FetchFile, At, Active
  <2>4. CASE CheckFiles(d)
    BY <2>1, <2>4 DEF CheckFiles, At, Active
  <2>5. CASE UNCHANGED <<downloading, phase>>
    BY <2>5
  <2> QED BY <1>1, <2>2, <2>3, <2>4, <2>5 DEF Download, PopModel, Unmark, UnlinkFile,
             FetchedAll, LoadDownloaded, Publish, DownloadRaises, NoteError
<1>2. ASSUME NEW e \in Embeds, Embed(e) \/ EmbedRaises(e) PROVE ProgressOK'
  <2>1. UNCHANGED <<downloading, phase>>
    BY <1>2 DEF Embed, EmbedRaises, CheckModel, LockModel, LoadModel, Compute, Invalidate, ForgetModel
  <2> QED BY <2>1
<1>3. CASE Crash \/ Vanish \/ UNCHANGED vars
  BY <1>3 DEF Crash, Vanish
<1> QED BY <1>1, <1>2, <1>3 DEF Next

LEMMA NumbersStep == ASSUME NumbersOK, [Next]_vars PROVE NumbersOK'
<1> USE EmbeddingAssumption DEF NumbersOK, disk, faults, Happens
<1>1. ASSUME NEW d \in Downloads, Download(d) \/ DownloadRaises(d) PROVE NumbersOK'
  <2>1. CASE PopModel(d)
    BY <2>1 DEF PopModel
  <2>2. CASE FetchedAll(d)
    BY <2>2 DEF FetchedAll
  <2>3. CASE Publish(d)
    BY <2>3 DEF Publish
  <2>4. CASE DownloadRaises(d)
    BY <2>4 DEF DownloadRaises
  <2>5. CASE UNCHANGED <<release, model, count>>
    BY <2>5
  <2> QED BY <1>1, <2>1, <2>2, <2>3, <2>4, <2>5 DEF Download, StartDownload, Unmark, UnlinkFile,
             FetchFile, CheckFiles, LoadDownloaded, NoteError, ClearDownload
<1>2. ASSUME NEW e \in Embeds, Embed(e) \/ EmbedRaises(e) PROVE NumbersOK'
  BY <1>2 DEF Embed, EmbedRaises, CheckModel, LockModel, LoadModel, Compute, Invalidate, ForgetModel
<1>3. CASE Crash \/ Vanish \/ UNCHANGED vars
  BY <1>3 DEF Crash, Vanish, vars
<1> QED BY <1>1, <1>2, <1>3 DEF Next

LEMMA LockStep == ASSUME LockOK, [Next]_vars PROVE LockOK'
<1> USE Distinct DEF LockOK, vars
<1>1. ASSUME NEW d \in Downloads, Download(d) \/ DownloadRaises(d) PROVE LockOK'
  BY <1>1 DEF Download, StartDownload, PopModel, Unmark, UnlinkFile, FetchFile, FetchedAll,
     CheckFiles, LoadDownloaded, Publish, DownloadRaises, NoteError, ClearDownload
<1>2. ASSUME NEW e \in Embeds, Embed(e) \/ EmbedRaises(e) PROVE LockOK'
  BY <1>2 DEF Embed, EmbedRaises, CheckModel, LockModel, LoadModel, Compute, Invalidate, ForgetModel, FreedLock
<1>3. CASE Crash \/ Vanish \/ UNCHANGED vars
  BY <1>3 DEF Crash, Vanish
<1> QED BY <1>1, <1>2, <1>3 DEF Next

LEMMA TypeStep ==
    ASSUME TypeOK, Consistent, [Next]_vars PROVE TypeOK'
<1>1. FlagsOK' /\ FilesOK' /\ ProgressOK' /\ NumbersOK' /\ LockOK' /\ pc' \in [Calls -> Points]
  BY TypeParts, FlagsStep, FilesStep, ProgressStep, NumbersStep, LockStep, PointsStep DEF Consistent
<1> QED BY <1>1, TypeParts DEF TypeOK, FlagsOK, FilesOK, ProgressOK, NumbersOK, LockOK

LEMMA OneDownloadStep ==
    ASSUME TypeOK, Consistent, [Next]_vars PROVE OneDownload'
<1> USE Distinct DEF TypeOK, At, Goes, Active, state, OneDownload
<1>1. CASE UNCHANGED vars
  BY <1>1 DEF vars, Consistent
<1>2. ASSUME NEW d \in Downloads, StartDownload(d) PROVE OneDownload'
  BY <1>2 DEF StartDownload, Needless, Status, Consistent
<1>3. ASSUME NEW d \in Downloads, ClearDownload(d) PROVE OneDownload'
  BY <1>3 DEF ClearDownload, Consistent
<1>4. ASSUME NEW d \in Downloads, Download(d) \/ DownloadRaises(d),
             ~StartDownload(d), ~ClearDownload(d)
      PROVE  OneDownload'
  <2>1. pc[d] \in Active /\ downloading' = downloading
    BY <1>4 DEF Download, PopModel, Unmark, UnlinkFile, FetchFile, FetchedAll, CheckFiles,
       LoadDownloaded, Publish, DownloadRaises, NoteError
  <2>2. \A c \in Calls \ {d} : pc'[c] = pc[c]
    BY <1>4 DEF Download, PopModel, Unmark, UnlinkFile, FetchFile, FetchedAll, CheckFiles,
       LoadDownloaded, Publish, DownloadRaises, NoteError
  <2> QED BY <2>1, <2>2 DEF Consistent
<1>5. ASSUME NEW e \in Embeds, Embed(e) \/ EmbedRaises(e) PROVE OneDownload'
  <2>1. downloading' = downloading /\ \A c \in Calls \ {e} : pc'[c] = pc[c]
    BY <1>5 DEF Embed, EmbedRaises, CheckModel, LockModel, LoadModel, Compute, Invalidate, ForgetModel
  <2> QED BY <2>1 DEF Consistent
<1>6. CASE Crash \/ Vanish
  BY <1>6 DEF Crash, Vanish, Consistent
<1> QED BY <1>1, <1>2, <1>3, <1>4, <1>5, <1>6 DEF Next

LEMMA LockHeldStep ==
    ASSUME TypeOK, Consistent, [Next]_vars PROVE LockHeld'
<1> USE Distinct DEF TypeOK, At, Goes, Holding, LockHeld, Consistent
<1>1. CASE UNCHANGED vars
  BY <1>1 DEF vars
<1>2. ASSUME NEW d \in Downloads, Download(d) \/ DownloadRaises(d) PROVE LockHeld'
  <2>1. CASE LoadDownloaded(d) \/ Publish(d) \/ DownloadRaises(d)
    BY <2>1 DEF LoadDownloaded, Publish, DownloadRaises
  <2>2. CASE UNCHANGED lock /\ \E p \in Points \ {"publish"} : pc' = [pc EXCEPT ![d] = p]
    BY <2>2
  <2>3. CASE UNCHANGED <<lock, pc>>
    BY <2>3
  <2> QED BY <1>2, <2>1, <2>2, <2>3 DEF Download, StartDownload, PopModel, Unmark, UnlinkFile,
             FetchFile, FetchedAll, CheckFiles, NoteError, ClearDownload, Points
<1>3. ASSUME NEW e \in Embeds, Embed(e) \/ EmbedRaises(e) PROVE LockHeld'
  BY <1>3 DEF Embed, EmbedRaises, CheckModel, LockModel, LoadModel, Compute, Invalidate,
     ForgetModel, FreedLock
<1>4. CASE Crash \/ Vanish
  BY <1>4 DEF Crash, Vanish
<1> QED BY <1>1, <1>2, <1>3, <1>4 DEF Next

LEMMA MarkTellsStep ==
    ASSUME TypeOK, Consistent, [Next]_vars PROVE MarkTells'
<1> USE Distinct DEF TypeOK, At, Goes, Replacing, disk, MarkTells, NoPart
<1>1. CASE UNCHANGED vars
  BY <1>1 DEF vars, Consistent
<1>2. ASSUME NEW d \in Downloads, Download(d) \/ DownloadRaises(d) PROVE MarkTells'
  <2>0. \A c \in Calls \ {d} : pc'[c] = pc[c]
    BY <1>2 DEF Download, StartDownload, PopModel, Unmark, UnlinkFile, FetchFile, FetchedAll,
       CheckFiles, LoadDownloaded, Publish, DownloadRaises, NoteError, ClearDownload
  <2>1. pc[d] \in Active => \A o \in Downloads \ {d} : pc[o] \notin Replacing
    BY DEF Consistent, OneDownload, Active
  <2>2. CASE Unmark(d)
    BY <2>0, <2>2 DEF Unmark, Unmarked, Consistent
  <2>3. CASE UnlinkFile(d)
    BY <2>0, <2>3 DEF UnlinkFile, Consistent
  <2>4. CASE FetchFile(d)
    BY <2>0, <2>1, <2>4 DEF FetchFile, Active, Consistent
  <2>5. CASE FetchedAll(d)
    BY <2>0, <2>5 DEF FetchedAll, Consistent
  <2>6. CASE Publish(d)
    BY <2>0, <2>1, <2>6 DEF Publish, Active, Consistent
  <2>7. CASE StartDownload(d) \/ PopModel(d) \/ CheckFiles(d) \/ LoadDownloaded(d)
             \/ DownloadRaises(d) \/ NoteError(d) \/ ClearDownload(d)
    BY <2>0, <2>7 DEF StartDownload, PopModel, CheckFiles, LoadDownloaded, DownloadRaises,
       NoteError, ClearDownload, Consistent
  <2> QED BY <1>2, <2>2, <2>3, <2>4, <2>5, <2>6, <2>7 DEF Download
<1>3. ASSUME NEW e \in Embeds, Embed(e) \/ EmbedRaises(e) PROVE MarkTells'
  <2>1. file' = file /\ (ready' => ready) /\ \A c \in Calls \ {e} : pc'[c] = pc[c]
    BY <1>3 DEF Embed, EmbedRaises, CheckModel, LockModel, LoadModel, Compute, Invalidate, ForgetModel
  <2> QED BY <2>1 DEF Consistent
<1>4. CASE Crash \/ Vanish
  BY <1>4 DEF Crash, Vanish, Consistent
<1> QED BY <1>1, <1>2, <1>3, <1>4 DEF Next

LEMMA ModelKeptStep ==
    ASSUME TypeOK, Consistent, [Next]_vars PROVE ModelKept'
<1> USE Distinct DEF TypeOK, At, Goes, disk, ModelKept
<1>1. CASE UNCHANGED vars
  BY <1>1 DEF vars, Consistent
<1>2. ASSUME NEW d \in Downloads, Download(d) \/ DownloadRaises(d) PROVE ModelKept'
  <2>0. \A c \in Calls \ {d} : pc'[c] = pc[c]
    BY <1>2 DEF Download, StartDownload, PopModel, Unmark, UnlinkFile, FetchFile, FetchedAll,
       CheckFiles, LoadDownloaded, Publish, DownloadRaises, NoteError, ClearDownload
  <2>1. pc[d] \in Active => \A o \in Downloads \ {d} : pc[o] \notin Replacing
    BY DEF Consistent, OneDownload, Active, Replacing
  <2>2. lock = Nobody \/ lock = d => \A e \in Embeds : pc[e] \notin Holding
    BY DEF Consistent, LockHeld
  <2>3. CASE PopModel(d)
    BY <2>0, <2>1, <2>2, <2>3 DEF PopModel, Active, Replacing, Holding, Consistent
  <2>4. CASE FetchedAll(d)
    BY <2>0, <2>1, <2>4 DEF FetchedAll, Active, Replacing, Holding, Consistent
  <2>5. CASE Publish(d)
    BY <2>0, <2>1, <2>2, <2>5 DEF Publish, Active, Replacing, Holding, Consistent, LockHeld
  <2>6. CASE StartDownload(d) \/ Unmark(d) \/ UnlinkFile(d) \/ FetchFile(d) \/ CheckFiles(d)
             \/ LoadDownloaded(d) \/ DownloadRaises(d) \/ NoteError(d) \/ ClearDownload(d)
    BY <2>0, <2>6 DEF StartDownload, Unmark, UnlinkFile, FetchFile, CheckFiles, LoadDownloaded,
       DownloadRaises, NoteError, ClearDownload, Replacing, Consistent
  <2> QED BY <1>2, <2>3, <2>4, <2>5, <2>6 DEF Download
<1>3. ASSUME NEW e \in Embeds, Embed(e) \/ EmbedRaises(e) PROVE ModelKept'
  <2>0. release' = release /\ \A c \in Calls \ {e} : pc'[c] = pc[c]
    BY <1>3 DEF Embed, EmbedRaises, CheckModel, LockModel, LoadModel, Compute, Invalidate, ForgetModel
  <2>1. pc[e] \in Holding => /\ \A d \in Downloads : pc[d] \notin Replacing
                             /\ \A o \in Embeds \ {e} : pc[o] \notin Holding
    BY DEF Consistent, LockHeld
  <2>2. Status = "ready" => \A d \in Downloads : pc[d] \notin Replacing
    BY DEF Status, Consistent, OneDownload, Active, Replacing
  <2>3. CASE CheckModel(e)
    BY <2>0, <2>3 DEF CheckModel, Holding, Consistent
  <2>4. CASE LockModel(e)
    BY <2>0, <2>2, <2>4 DEF LockModel, StillReady, Holding, Consistent
  <2>5. CASE LoadModel(e)
    BY <2>0, <2>1, <2>5 DEF LoadModel, Holding, Consistent
  <2>6. CASE Compute(e) \/ EmbedRaises(e) \/ Invalidate(e)
    BY <2>0, <2>1, <2>6 DEF Compute, EmbedRaises, Invalidate, Holding, Consistent
  <2>7. CASE ForgetModel(e)
    BY <2>0, <2>1, <2>7 DEF ForgetModel, Holding, Consistent
  <2> QED BY <1>3, <2>3, <2>4, <2>5, <2>6, <2>7 DEF Embed
<1>4. CASE Crash \/ Vanish
  BY <1>4 DEF Crash, Vanish, Replacing, Consistent
<1> QED BY <1>1, <1>2, <1>3, <1>4 DEF Next

LEMMA UndisturbedStep ==
    ASSUME TypeOK, Consistent, [Next]_vars PROVE Undisturbed'
<1> SUFFICES ASSUME ~vanished' PROVE Undisturbed'
  BY DEF Undisturbed
<1> USE Distinct DEF TypeOK, At, Goes, disk, state, faults, Undisturbed, Status, FilesReady, Loadable
<1>0. ~vanished
  BY DEF Next, Download, StartDownload, PopModel, Unmark, UnlinkFile, FetchFile, FetchedAll,
     CheckFiles, LoadDownloaded, Publish, DownloadRaises, NoteError, ClearDownload, Embed,
     EmbedRaises, CheckModel, LockModel, LoadModel, Compute, Invalidate, ForgetModel, Crash,
     Vanish, vars
<1>1. CASE UNCHANGED vars
  BY <1>1 DEF vars, Consistent
<1>2. ASSUME NEW d \in Downloads, Download(d) \/ DownloadRaises(d) PROVE Undisturbed'
  <2>0. \A c \in Calls \ {d} : pc'[c] = pc[c]
    BY <1>2 DEF Download, StartDownload, PopModel, Unmark, UnlinkFile, FetchFile, FetchedAll,
       CheckFiles, LoadDownloaded, Publish, DownloadRaises, NoteError, ClearDownload
  <2>1. pc[d] \in Active =>
           /\ \A o \in Downloads \ {d} : pc[o] \notin Active
           /\ \A e \in Embeds : pc[e] \notin {"locked", "compute", "invalidate"}
    BY <1>0 DEF Consistent, OneDownload
  <2>2. CASE StartDownload(d)
    <3>1. CASE Needless
      BY <1>0, <2>0, <2>2, <3>1 DEF StartDownload, Active, Consistent
    <3>2. CASE ~Needless
      <4>1. \A e \in Embeds : pc[e] \notin {"locked", "compute", "invalidate"}
        BY <1>0, <3>2 DEF Needless, Consistent
      <4>2. \A o \in Downloads : pc[o] \notin Active
        BY <3>2 DEF Needless, Consistent, OneDownload
      <4> QED BY <2>0, <2>2, <3>2, <4>1, <4>2 DEF StartDownload, Active
    <3> QED BY <3>1, <3>2
  <2>3. CASE PopModel(d) \/ Unmark(d) \/ UnlinkFile(d) \/ FetchFile(d) \/ FetchedAll(d)
             \/ CheckFiles(d) \/ LoadDownloaded(d) \/ Publish(d) \/ DownloadRaises(d)
             \/ NoteError(d)
    <3>1. pc[d] \in Active \ {"clear", "failed"}
      BY <2>3 DEF PopModel, Unmark, UnlinkFile, FetchFile, FetchedAll, CheckFiles,
         LoadDownloaded, Publish, DownloadRaises, NoteError, Active
    <3>2. ~error
      BY <1>0, <3>1 DEF Consistent
    <3>3. error' # error => pc'[d] = "failed"
      BY <2>3 DEF PopModel, Unmark, UnlinkFile, FetchFile, FetchedAll, CheckFiles,
         LoadDownloaded, Publish, DownloadRaises, NoteError
    <3>4. pc'[d] = "publish" => Loadable'
      BY <2>3 DEF PopModel, Unmark, UnlinkFile, FetchFile, FetchedAll, CheckFiles,
         LoadDownloaded, Publish, DownloadRaises, NoteError
    <3>5. pc'[d] = "clear" => ready' /\ Loadable'
      BY <1>0, <2>3 DEF PopModel, Unmark, UnlinkFile, FetchFile, FetchedAll, CheckFiles,
         LoadDownloaded, Publish, DownloadRaises, NoteError, Consistent
    <3> QED BY <2>0, <2>1, <3>1, <3>2, <3>3, <3>4, <3>5 DEF Active
  <2>4. CASE ClearDownload(d)
    <3>1. pc[d] \in Active /\ pc'[d] \notin Active
      BY <2>4 DEF ClearDownload, Active
    <3> QED BY <2>0, <2>1, <3>1 DEF Active
  <2> QED BY <1>2, <2>2, <2>3, <2>4 DEF Download
<1>3. ASSUME NEW e \in Embeds, Embed(e) \/ EmbedRaises(e) PROVE Undisturbed'
  <2>0. /\ \A c \in Calls \ {e} : pc'[c] = pc[c]
        /\ file' = file /\ downloading' = downloading
    BY <1>3 DEF Embed, EmbedRaises, CheckModel, LockModel, LoadModel, Compute, Invalidate, ForgetModel
  <2>1. pc[e] \in Holding => \A o \in Embeds \ {e} : pc[o] \notin Holding
    BY DEF Consistent, LockHeld
  <2>2. CASE CheckModel(e) \/ LockModel(e) \/ LoadModel(e) \/ Compute(e) \/ EmbedRaises(e)
             \/ ForgetModel(e)
    <3>1. error' = error /\ ready' = ready
      BY <2>2 DEF CheckModel, LockModel, LoadModel, Compute, EmbedRaises, ForgetModel
    <3>2. pc'[e] \in {"locked", "compute", "invalidate"} => Status = "ready"
      BY <1>0, <2>2 DEF CheckModel, LockModel, StillReady, LoadModel, Compute, EmbedRaises,
         ForgetModel, Consistent
    <3> QED BY <1>0, <2>0, <3>1, <3>2 DEF Consistent
  <2>3. CASE Invalidate(e)
    <3>1. pc[e] = "invalidate" /\ pc'[e] = "forget"
      BY <2>3 DEF Invalidate
    <3>2. \A d \in Downloads : pc[d] \notin Active
      BY <1>0, <3>1 DEF Consistent, OneDownload
    <3>3. \A o \in Embeds \ {e} : pc[o] \notin {"locked", "compute", "invalidate"}
      BY <2>1, <3>1 DEF Holding
    <3> QED BY <2>0, <3>1, <3>2, <3>3 DEF Active
  <2> QED BY <1>3, <2>2, <2>3 DEF Embed
<1>4. CASE Crash
  BY <1>4 DEF Crash, Active
<1>5. CASE Vanish
  BY <1>5 DEF Vanish
<1> QED BY <1>1, <1>2, <1>3, <1>4, <1>5 DEF Next

LEMMA Invariant == Spec => [](TypeOK /\ Consistent)
<1>1. TypeOK /\ Consistent /\ [Next]_vars => TypeOK' /\ Consistent'
  BY TypeStep, OneDownloadStep, LockHeldStep, MarkTellsStep, ModelKeptStep, UndisturbedStep
     DEF Consistent
<1> QED BY <1>1, InitConsistent, PTL DEF Spec

-----------------------------------------------------------------------------
\* TypeOK holds: progress is kept exactly as long as a download runs.
THEOREM TypeCorrect == Spec => []TypeOK
BY Invariant, PTL

\* ReadyIsWhole holds: what is reported as ready is whole, whatever died,
\* raised or disappeared.
THEOREM ReadyMeansWhole == Spec => []ReadyIsWhole
<1>1. TypeOK /\ Consistent => ReadyIsWhole
  BY DEF TypeOK, Consistent, MarkTells, NoPart, ReadyIsWhole, Status, FilesReady, Loadable
<1> QED BY <1>1, Invariant, PTL

\* ModelIsCurrent holds: nobody embeds with a model of earlier files.
THEOREM ModelStaysCurrent == Spec => []ModelIsCurrent
<1>1. TypeOK /\ Consistent => ModelIsCurrent
  BY DEF Consistent, ModelKept, ModelIsCurrent, At, Replacing, Holding
<1> QED BY <1>1, Invariant, PTL

\* SuccessIsReady holds: a download that returns without an error leaves the
\* model ready, unless files disappeared.
THEOREM SuccessMeansReady == Spec => SuccessIsReady
<1>1. TypeOK /\ Consistent /\ [Next]_vars =>
        \A d \in Downloads : At(d, "clear") /\ pc'[d] = "done" /\ ~vanished => Status' = "ready"
  <2> SUFFICES ASSUME TypeOK, Consistent, [Next]_vars, NEW d \in Downloads,
                      pc[d] = "clear", pc'[d] = "done", ~vanished
               PROVE  Status' = "ready"
    BY DEF At
  <2>1. ClearDownload(d)
    <3>1. ASSUME NEW o \in Downloads, o # d, Download(o) \/ DownloadRaises(o) PROVE FALSE
      BY <3>1, Distinct DEF Download, StartDownload, PopModel, Unmark, UnlinkFile, FetchFile,
         FetchedAll, CheckFiles, LoadDownloaded, Publish, DownloadRaises, NoteError,
         ClearDownload, Goes, TypeOK
    <3>2. ASSUME NEW e \in Embeds, Embed(e) \/ EmbedRaises(e) PROVE FALSE
      BY <3>2, Distinct DEF Embed, EmbedRaises, CheckModel, LockModel, LoadModel, Compute,
         Invalidate, ForgetModel, Goes, TypeOK
    <3>3. ~Crash /\ ~Vanish /\ ~UNCHANGED vars
      BY Distinct DEF Crash, Vanish, vars, At
    <3>4. Download(d) \/ DownloadRaises(d)
      BY <3>1, <3>2, <3>3 DEF Next
    <3> QED BY <3>4 DEF Download, StartDownload, PopModel, Unmark, UnlinkFile, FetchFile,
               FetchedAll, CheckFiles, LoadDownloaded, Publish, DownloadRaises, NoteError, At
  <2>2. ~error /\ ready /\ Loadable
    BY DEF Consistent, Undisturbed, Active
  <2> QED BY <2>1, <2>2 DEF ClearDownload, disk, Status, FilesReady, Loadable
<1> QED BY <1>1, Invariant, PTL DEF Spec, SuccessIsReady

=============================================================================
