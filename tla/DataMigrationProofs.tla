------------------------- MODULE DataMigrationProofs -------------------------
(***************************************************************************)
(* Proofs about DataMigration: for any places, files, versions, migrations *)
(* and troubles, the configured directory stays complete, no file is lost, *)
(* and the configuration is switched only to what was verified.            *)
(***************************************************************************)
EXTENDS DataMigration, TLAPS

-----------------------------------------------------------------------------
(* Lemmas about files *)

\* A broken copy of a file is a file, a whole version is one, and only what is
\* not there has the time 0.
LEMMA FileContents ==
    /\ \A c \in Contents :
         /\ c.mtime \in 0..MaxVersion /\ c.mtime \in Nat
         /\ c # NoFile <=> c.mtime # 0
         /\ c # NoFile => Broken(c) \in Contents \ {NoFile}
         /\ Broken(c).mtime = c.mtime
    /\ \A v \in Versions : Whole(v) \in Contents \ {NoFile} /\ Whole(v).mtime = v
    /\ NoFile \in Contents /\ Nothing \in [Files -> Contents]
<1> USE MigrationAssumption
<1>1. NoFile \in Contents /\ NoFile.mtime = 0 /\ NoFile.whole = TRUE
  BY DEF Contents, NoFile
<1>2. ASSUME NEW c \in Contents
      PROVE  /\ c.mtime \in 0..MaxVersion /\ c.mtime \in Nat /\ c.whole \in BOOLEAN
             /\ c = [mtime |-> c.mtime, whole |-> c.whole]
             /\ c.mtime = 0 => c.whole
  BY DEF Contents
<1>3. ASSUME NEW c \in Contents PROVE c # NoFile <=> c.mtime # 0
  <2>1. CASE c.mtime = 0
    <3>1. c.whole = TRUE
      BY <1>2, <2>1
    <3> QED BY <1>2, <2>1, <3>1 DEF NoFile
  <2>2. CASE c.mtime # 0
    BY <1>1, <2>2
  <2> QED BY <2>1, <2>2
<1>4. ASSUME NEW c \in Contents
      PROVE  /\ Broken(c).mtime = c.mtime
             /\ c # NoFile => Broken(c) \in Contents \ {NoFile}
  <2>1. c.mtime # 0 => Broken(c) \in Contents
    BY <1>2 DEF Broken, Contents
  <2> QED BY <1>1, <1>3, <2>1 DEF Broken
<1>5. ASSUME NEW v \in Versions
      PROVE  Whole(v) \in Contents \ {NoFile} /\ Whole(v).mtime = v
  <2>1. v \in 0..MaxVersion /\ v # 0
    BY DEF Versions
  <2> QED BY <1>1, <2>1 DEF Whole, Contents
<1>6. Nothing \in [Files -> Contents]
  BY <1>1 DEF Nothing
<1> QED BY <1>1, <1>2, <1>3, <1>4, <1>5, <1>6

\* What an inventory and the present files tell.
LEMMA Listing ==
    ASSUME NEW files \in [Files -> Contents]
    PROVE  /\ Inventory(files) \in [Files -> 0..MaxVersion]
           /\ \A f \in Files : Inventory(files)[f] = files[f].mtime
           /\ Present(files) \subseteq Files
           /\ \A f \in Files : f \in Present(files) <=> files[f] # NoFile
           /\ Present(files) = {} => files = Nothing
BY FileContents DEF Inventory, Present, Nothing

-----------------------------------------------------------------------------
(* The inductive invariant *)

\* Which directories the step of a migration is about.
Where ==
    /\ pc \in Steps \ {"idle", "clean", "remove"} => config = from
    /\ pc \in {"clean", "remove"} => config = to
    /\ pc \in Steps \ {"idle", "switch"} => from # to
    /\ pc = "carry" => to \in exists
    /\ pc = "check" => from \notin exists

\* No file is newer than the last version of it.
Dated == \A p \in Places, f \in Files : disk[p][f].mtime <= latest[f]

\* The migration copies, and the old directory is not yet being removed.
Compares ==
    \/ pc \in {"copy", "verify", "compare", "publish", "clean"}
    \/ pc = "switch" /\ from \in exists /\ from # to

\* A file that was read has not been older than it was seen first, and the old
\* directory has that text or a newer one.
WasRead(f) ==
    /\ before[f] <= hashes[f].mtime
    /\ hashes[f] = disk[from][f] \/ hashes[f].mtime < disk[from][f].mtime

Read ==
    Compares => \A f \in Files :
        /\ before[f] <= disk[from][f].mtime
        /\ (pc = "copy" /\ f \in todo) \/ WasRead(f)

\* What is staged, as far as the migration got.
Staged ==
    /\ pc = "copy" => \A f \in Files :
           IF f \in todo THEN stage[f] = NoFile /\ disk[from][f] # NoFile
                         ELSE stage[f].mtime = hashes[f].mtime
    /\ pc = "verify" => \A f \in Files \ todo : stage[f] = hashes[f]
    /\ pc \in {"compare", "publish"} => stage = hashes

\* After the comparison the old directory is as it was seen first, but for what
\* other programs wrote since, and the texts are those of that time.
Compared ==
    /\ pc = "publish" => \A f \in Files : hashes[f].mtime = before[f]
    /\ pc = "publish" \/ (pc = "switch" /\ Compares) =>
           \A f \in Files \ stray : disk[from][f].mtime = before[f]

\* The new directory has what was read.
Verified ==
    pc \in {"switch", "clean"} => \A f \in Files :
        before[f] # 0 => disk[to][f] = hashes[f] /\ hashes[f].mtime = before[f]

\* A file that is not to come, or that may be deleted, is whole elsewhere.
Elsewhere(f) == \E p \in Places \ {from} : disk[p][f] = Whole(latest[f])

Carried ==
    /\ pc = "carry" => \A f \in todo : disk[from][f] # NoFile /\ disk[to][f] = NoFile
    /\ \A f \in Files \ late :
           pc \in {"drop", "remove"} \/ (pc = "carry" /\ f \notin todo) => Elsewhere(f)

Inv ==
    /\ TypeOK /\ Where /\ Dated /\ Read /\ Staged /\ Compared /\ Verified /\ Carried
    /\ ConfiguredIsWhole /\ NothingLost

-----------------------------------------------------------------------------
(* The invariant holds at first *)

LEMMA InitInv == Init => Inv
<1> SUFFICES ASSUME Init PROVE Inv
  OBVIOUS
<1> USE MigrationAssumption, FileContents DEF Init
<1>1. TypeOK
  BY DEF TypeOK, Steps, Versions, Nothing, NoFile
<1>2. Where /\ Read /\ Staged /\ Compared /\ Verified /\ Carried
  BY DEF Where, Read, Staged, Compared, Verified, Carried, Compares
<1>3. Dated
  BY DEF Dated, Nothing, NoFile, Versions, Whole
<1>4. ConfiguredIsWhole /\ NothingLost
  BY DEF ConfiguredIsWhole, NothingLost
<1> QED BY <1>1, <1>2, <1>3, <1>4 DEF Inv

-----------------------------------------------------------------------------
(* Every step keeps the type invariant *)

DiskOK  == /\ exists \subseteq Places /\ disk \in [Places -> [Files -> Contents]]
           /\ \A p \in Places \ exists : disk[p] = Nothing
StageOK == stage \in [Files -> Contents]
PlaceOK == /\ config \in Places /\ pc \in Steps /\ mode \in {"copy", "move"}
           /\ from \in Places /\ to \in Places
SeenOK  == /\ before \in [Files -> 0..MaxVersion] /\ hashes \in [Files -> Contents]
           /\ todo \subseteq Files
GhostOK == /\ latest \in [Files -> Versions]
           /\ stray \subseteq Files /\ late \subseteq Files /\ cut \subseteq Files
           /\ runs \in 0..MaxRuns /\ troubles \in 0..MaxTroubles

LEMMA TypeParts == TypeOK <=> DiskOK /\ StageOK /\ PlaceOK /\ SeenOK /\ GhostOK
BY DEF TypeOK, DiskOK, StageOK, PlaceOK, SeenOK, GhostOK

LEMMA DiskStep == ASSUME Inv, [Next]_vars PROVE DiskOK'
<1> USE FileContents DEF DiskOK
<1>0. DiskOK /\ StageOK /\ PlaceOK /\ GhostOK /\ Where /\ Carried
  BY TypeParts DEF Inv
<1>1. CASE UNCHANGED <<exists, disk>>
  BY <1>0, <1>1
<1>2. ASSUME NEW p \in Places, NEW m \in Modes, Begin(p, m) PROVE DiskOK'
  BY <1>0, <1>2 DEF Begin
<1>3. CASE Publish
  BY <1>0, <1>3 DEF Publish, StageOK, PlaceOK
<1>4. CASE Rename
  BY <1>0, <1>4 DEF Rename, PlaceOK
<1>5. CASE Carry
  BY <1>0, <1>5 DEF Carry, PlaceOK
<1>6. ASSUME NEW f \in Files, CarryFile(f) PROVE DiskOK'
  <2>1. to \in exists /\ disk[from][f] \in Contents \ {NoFile}
    BY <1>0, <1>6 DEF CarryFile, Takes, Where, Carried, PlaceOK
  <2>2. PICK c \in Contents : disk' = [disk EXCEPT ![to][f] = c]
    BY <1>6, <2>1 DEF CarryFile
  <2> QED BY <1>0, <1>6, <2>1, <2>2 DEF CarryFile, PlaceOK
<1>7. ASSUME NEW f \in Files, DropFile(f) \/ RemoveFile(f) PROVE DiskOK'
  <2>1. exists' = exists /\ disk' = [disk EXCEPT ![from][f] = NoFile]
    BY <1>7 DEF DropFile, RemoveFile
  <2>2. \A p \in Places \ exists : disk[p][f] = NoFile
    BY <1>0 DEF Nothing
  <2>3. \A p \in Places : disk'[p] \in [Files -> Contents]
    BY <1>0, <2>1
  <2>4. \A p \in Places \ exists' : disk'[p] = disk[p]
    <3> SUFFICES ASSUME NEW p \in Places \ exists PROVE disk'[p] = disk[p]
      BY <2>1
    <3>1. \A g \in Files : disk'[p][g] = disk[p][g]
      BY <1>0, <2>1, <2>2
    <3> QED BY <1>0, <2>3, <3>1
  <2> QED BY <1>0, <2>1, <2>3, <2>4
<1>8. CASE EndOfFiles
  <2>1. disk' = disk /\ (exists' = exists \/ (Emptied /\ exists' = exists \ {from}))
    BY <1>8 DEF EndOfFiles
  <2>2. Emptied => disk[from] = Nothing
    BY <1>0, Listing DEF Emptied, PlaceOK
  <2> QED BY <1>0, <2>1, <2>2
<1>9. CASE Crash
  <2>1. CASE UNCHANGED disk
    BY <1>0, <1>9, <2>1 DEF Crash
  <2>2. ASSUME NEW f \in todo, pc = "carry",
               disk' = [disk EXCEPT ![to][f] = Broken(disk[from][f])]
        PROVE  DiskOK'
    <3>1. f \in Files /\ to \in exists /\ disk[from][f] \in Contents \ {NoFile}
      BY <1>0, <2>2, TypeParts DEF Inv, SeenOK, Where, Carried, PlaceOK
    <3>2. PICK c \in Contents : disk' = [disk EXCEPT ![to][f] = c]
      BY <2>2, <3>1
    <3> QED BY <1>0, <1>9, <3>1, <3>2 DEF Crash, PlaceOK
  <2> QED BY <1>9, <2>1, <2>2 DEF Crash
<1>10. ASSUME NEW f \in Files, AppWrites(f) \/ OtherWrites(f) PROVE DiskOK'
  <2>0. latest[f] + 1 \in Versions
    BY <1>0, <1>10, MigrationAssumption DEF AppWrites, OtherWrites, GhostOK, Versions
  <2>1. Whole(latest[f] + 1) \in Contents
    BY <2>0
  <2>2. CASE AppWrites(f)
    BY <1>0, <2>1, <2>2 DEF AppWrites, PlaceOK
  <2>3. CASE OtherWrites(f)
    BY <1>0, <2>1, <2>3 DEF OtherWrites, PlaceOK
  <2> QED BY <1>10, <2>2, <2>3
<1> QED BY <1>1, <1>2, <1>3, <1>4, <1>5, <1>6, <1>7, <1>8, <1>9, <1>10
    DEF Next, vars, data, Copying, CopyFile, VerifyFile, CompareSource, Cutting, HashFile,
    CheckMoved, Switch, Removing, SecondLook, Raise

LEMMA StageStep == ASSUME Inv, [Next]_vars PROVE StageOK'
<1> USE FileContents DEF StageOK
<1>0. DiskOK /\ StageOK /\ PlaceOK /\ Staged
  BY TypeParts DEF Inv
<1>1. CASE UNCHANGED stage
  BY <1>0, <1>1
<1>2. ASSUME NEW p \in Places, NEW m \in Modes, Begin(p, m) PROVE StageOK'
  BY <1>2 DEF Begin
<1>3. ASSUME NEW f \in Files, CopyFile(f) PROVE StageOK'
  <2>1. disk[from][f] \in Contents \ {NoFile}
    BY <1>0, <1>3 DEF CopyFile, Takes, Staged, DiskOK, PlaceOK
  <2> QED BY <1>0, <1>3, <2>1 DEF CopyFile
<1>4. CASE Publish \/ Raise
  BY <1>4 DEF Publish, Raise
<1> QED BY <1>1, <1>2, <1>3, <1>4
    DEF Next, vars, data, Copying, VerifyFile, CompareSource, Cutting, HashFile, Rename, Carry,
    CarryFile, DropFile, CheckMoved, Switch, Removing, SecondLook, RemoveFile, EndOfFiles,
    Crash, AppWrites, OtherWrites

LEMMA PlaceStep == ASSUME Inv, [Next]_vars PROVE PlaceOK'
<1>0. PlaceOK
  BY TypeParts DEF Inv
<1>1. ASSUME NEW p \in Places, NEW m \in Modes, Begin(p, m) PROVE PlaceOK'
  BY <1>0, <1>1, MigrationAssumption DEF Begin, PlaceOK, Steps
<1>2. CASE Switch
  BY <1>0, <1>2 DEF Switch, Goes, migration, PlaceOK, Steps
<1>3. CASE Raise \/ Crash
  BY <1>0, <1>3 DEF Raise, Crash, Ends, migration, PlaceOK, Steps
<1>4. CASE Publish \/ CompareSource \/ Rename \/ Carry \/ CheckMoved \/ SecondLook \/ EndOfFiles
  <2>1. UNCHANGED <<config, mode, from, to>> /\ pc' \in Steps
    BY <1>4 DEF Publish, CompareSource, Rename, Carry, CheckMoved, SecondLook, EndOfFiles,
       Goes, migration, Steps
  <2> QED BY <1>0, <2>1 DEF PlaceOK
<1>5. CASE UNCHANGED <<config, mode, from, to, pc>>
  BY <1>0, <1>5 DEF PlaceOK
<1> QED BY <1>1, <1>2, <1>3, <1>4, <1>5
    DEF Next, vars, migration, Takes, Copying, CopyFile, VerifyFile, Cutting, HashFile,
    CarryFile, DropFile, Removing, RemoveFile, AppWrites, OtherWrites

LEMMA SeenStep == ASSUME Inv, [Next]_vars PROVE SeenOK'
<1> USE FileContents DEF SeenOK
<1>0. DiskOK /\ StageOK /\ PlaceOK /\ SeenOK
  BY TypeParts DEF Inv
<1>1. /\ disk[from] \in [Files -> Contents] /\ Present(disk[from]) \subseteq Files
      /\ Present(stage) \subseteq Files
  BY <1>0, Listing DEF DiskOK, PlaceOK, StageOK
<1>2. ASSUME NEW p \in Places, NEW m \in Modes, Begin(p, m) PROVE SeenOK'
  BY <1>0, <1>2, Listing DEF Begin, DiskOK, PlaceOK
<1>3. ASSUME NEW f \in Files, CopyFile(f) \/ HashFile(f) PROVE SeenOK'
  BY <1>0, <1>1, <1>3 DEF CopyFile, HashFile, Takes
<1>4. CASE UNCHANGED <<before, hashes>> /\ todo' \subseteq Files
  BY <1>0, <1>4
<1> QED BY <1>0, <1>1, <1>2, <1>3, <1>4
    DEF Next, vars, migration, Goes, Takes, Ends, Copying, VerifyFile, CompareSource, Publish,
    Cutting, Rename, Carry, CarryFile, DropFile, CheckMoved, Switch, Removing, SecondLook,
    RemoveFile, EndOfFiles, Raise, Crash, AppWrites, OtherWrites

LEMMA GhostStep == ASSUME Inv, [Next]_vars PROVE GhostOK'
<1> USE MigrationAssumption DEF GhostOK, ghosts, counters
<1>0. GhostOK
  BY TypeParts DEF Inv
<1>1. ASSUME NEW p \in Places, NEW m \in Modes, Begin(p, m) PROVE GhostOK'
  BY <1>0, <1>1 DEF Begin
<1>2. CASE CompareSource \/ Publish \/ Rename \/ Carry \/ CheckMoved \/ Switch \/ SecondLook
           \/ EndOfFiles \/ UNCHANGED vars
  BY <1>0, <1>2 DEF CompareSource, Publish, Rename, Carry, CheckMoved, Switch, SecondLook,
     EndOfFiles, vars
<1>3. CASE Copying \/ Cutting \/ \E f \in Files : RemoveFile(f)
  BY <1>0, <1>3 DEF Copying, CopyFile, VerifyFile, Cutting, HashFile, CarryFile, DropFile,
     RemoveFile, Trouble
<1>4. CASE Raise \/ Crash
  BY <1>0, <1>4 DEF Raise, Crash, Ends, Trouble
<1>5. ASSUME NEW f \in Files, AppWrites(f) \/ OtherWrites(f) PROVE GhostOK'
  BY <1>0, <1>5 DEF AppWrites, OtherWrites, Versions
<1> QED BY <1>1, <1>2, <1>3, <1>4, <1>5 DEF Next, Removing

LEMMA TypeStep == ASSUME Inv, [Next]_vars PROVE TypeOK'
<1>1. DiskOK' /\ StageOK' /\ PlaceOK' /\ SeenOK' /\ GhostOK'
  BY DiskStep, StageStep, PlaceStep, SeenStep, GhostStep
<1> QED BY <1>1, TypeParts DEF TypeOK, DiskOK, StageOK, PlaceOK, SeenOK, GhostOK

-----------------------------------------------------------------------------
(* Every step keeps the other parts of the invariant *)

LEMMA WhereStep == ASSUME Inv, [Next]_vars PROVE Where'
<1> USE DEF Where, Steps
<1>0. Where /\ PlaceOK
  BY TypeParts DEF Inv
<1>1. ASSUME NEW p \in Places, NEW m \in Modes, Begin(p, m) PROVE Where'
  BY <1>1 DEF Begin
<1>2. CASE CompareSource \/ Publish \/ Rename \/ CheckMoved \/ SecondLook
  BY <1>0, <1>2 DEF CompareSource, Publish, Rename, CheckMoved, SecondLook, Goes, data, migration
<1>3. CASE Carry
  BY <1>0, <1>3 DEF Carry, Goes, migration
<1>4. CASE Switch
  BY <1>0, <1>4 DEF Switch, Goes, migration
<1>5. CASE EndOfFiles
  BY <1>0, <1>5 DEF EndOfFiles, Goes, migration
<1>6. CASE Raise \/ Crash
  BY <1>6 DEF Raise, Crash, Ends
<1>7. ASSUME NEW f \in Files, AppWrites(f) PROVE Where'
  BY <1>7 DEF AppWrites
<1>8. CASE UNCHANGED <<pc, config, from, to, exists>>
  BY <1>0, <1>8
<1> QED BY <1>1, <1>2, <1>3, <1>4, <1>5, <1>6, <1>7, <1>8
    DEF Next, vars, data, migration, Takes, Copying, CopyFile, VerifyFile, Cutting, HashFile,
    CarryFile, DropFile, Removing, RemoveFile, OtherWrites

LEMMA DatedStep == ASSUME Inv, [Next]_vars PROVE Dated'
<1> USE FileContents DEF Dated
<1>0. Dated /\ DiskOK /\ StageOK /\ PlaceOK /\ SeenOK /\ GhostOK
  BY TypeParts DEF Inv
<1>1. \A f \in Files : latest[f] \in Nat /\ latest[f] >= 1 /\ NoFile.mtime = 0
  BY <1>0 DEF GhostOK, Versions, NoFile
<1>2. CASE UNCHANGED <<disk, latest>>
  BY <1>0, <1>2
<1>3. CASE Publish
  <2>1. \A f \in Files : stage[f].mtime <= latest[f]
    <3>1. \A f \in Files : stage[f].mtime = disk[from][f].mtime \/ stage[f].mtime < disk[from][f].mtime
      BY <1>0, <1>3 DEF Inv, Publish, Staged, Read, Compares, WasRead
    <3>2. \A f \in Files : /\ stage[f].mtime \in Nat /\ disk[from][f].mtime \in Nat
                            /\ disk[from][f].mtime <= latest[f]
      <4>1. \A f \in Files : stage[f] \in Contents /\ disk[from][f] \in Contents
        BY <1>0 DEF DiskOK, StageOK, PlaceOK
      <4> QED BY <1>0, <4>1 DEF PlaceOK
    <3> QED BY <1>1, <3>1, <3>2
  <2> QED BY <1>0, <1>3, <2>1 DEF Publish, ghosts, DiskOK, PlaceOK
<1>4. CASE Rename
  BY <1>0, <1>1, <1>4 DEF Rename, DiskOK, PlaceOK, Nothing
<1>5. ASSUME NEW f \in Files, CarryFile(f) PROVE Dated'
  <2>1. disk[from][f] \in Contents /\ Broken(disk[from][f]).mtime = disk[from][f].mtime
    BY <1>0 DEF DiskOK, PlaceOK
  <2>2. PICK c : disk' = [disk EXCEPT ![to][f] = c] /\ c.mtime = disk[from][f].mtime
    BY <1>5, <2>1 DEF CarryFile
  <2> QED BY <1>0, <1>5, <2>2 DEF CarryFile, DiskOK, PlaceOK
<1>6. ASSUME NEW f \in Files, DropFile(f) \/ RemoveFile(f) PROVE Dated'
  <2>1. disk' = [disk EXCEPT ![from][f] = NoFile] /\ latest' = latest
    BY <1>6 DEF DropFile, RemoveFile, ghosts
  <2> QED BY <1>0, <1>1, <2>1 DEF DiskOK, PlaceOK
<1>7. CASE Crash
  <2>1. ASSUME NEW f \in todo, disk' = [disk EXCEPT ![to][f] = Broken(disk[from][f])]
        PROVE  Dated'
    <3>1. f \in Files /\ disk[from][f] \in Contents
      BY <1>0 DEF DiskOK, PlaceOK, SeenOK
    <3>2. PICK c : disk' = [disk EXCEPT ![to][f] = c] /\ c.mtime = disk[from][f].mtime
      BY <2>1, <3>1
    <3> QED BY <1>0, <1>7, <3>1, <3>2 DEF Crash, DiskOK, PlaceOK
  <2> QED BY <1>2, <1>7, <2>1 DEF Crash
<1>8. ASSUME NEW f \in Files, AppWrites(f) \/ OtherWrites(f) PROVE Dated'
  <2>1. latest[f] + 1 \in Versions /\ Whole(latest[f] + 1).mtime = latest[f] + 1
    BY <1>0, <1>8, MigrationAssumption DEF AppWrites, OtherWrites, GhostOK, Versions
  <2>2. PICK p \in Places : disk' = [disk EXCEPT ![p][f] = Whole(latest[f] + 1)]
    BY <1>0, <1>8 DEF AppWrites, OtherWrites, PlaceOK
  <2>3. latest' = [latest EXCEPT ![f] = latest[f] + 1]
    BY <1>8 DEF AppWrites, OtherWrites
  <2>4. \A q \in Places, g \in Files : disk[q][g].mtime \in Nat
    <3>1. \A q \in Places, g \in Files : disk[q][g] \in Contents
      BY <1>0 DEF DiskOK
    <3> QED BY <3>1
  <2>5. SUFFICES ASSUME NEW q \in Places, NEW g \in Files
                 PROVE  disk'[q][g].mtime <= latest'[g]
    OBVIOUS
  <2>6. CASE g = f
    BY <1>0, <1>1, <2>1, <2>2, <2>3, <2>4, <2>6 DEF DiskOK, GhostOK
  <2>7. CASE g # f
    BY <1>0, <2>2, <2>3, <2>7 DEF DiskOK, GhostOK
  <2> QED BY <2>6, <2>7
<1> QED BY <1>2, <1>3, <1>4, <1>5, <1>6, <1>7, <1>8
    DEF Next, vars, data, ghosts, Begin, Copying, CopyFile, VerifyFile, CompareSource, Cutting,
    HashFile, Carry, CheckMoved, Switch, Removing, SecondLook, EndOfFiles, Raise

LEMMA StagedStep == ASSUME Inv, [Next]_vars PROVE Staged'
<1> USE FileContents DEF Staged
<1>0. Staged /\ DiskOK /\ StageOK /\ PlaceOK /\ SeenOK
  BY TypeParts DEF Inv
<1>1. ASSUME NEW p \in Places, NEW m \in Modes, Begin(p, m) PROVE Staged'
  BY <1>0, <1>1, Listing DEF Begin, Nothing, DiskOK, PlaceOK
<1>2. ASSUME NEW f \in Files, CopyFile(f) PROVE Staged'
  <2>1. disk[from][f] \in Contents
    BY <1>0 DEF DiskOK, PlaceOK
  <2>2. /\ pc = "copy" /\ pc' = "copy" /\ todo' = todo \ {f} /\ UNCHANGED <<disk, from>>
        /\ hashes' = [hashes EXCEPT ![f] = disk[from][f]]
    BY <1>2 DEF CopyFile, Takes
  <2>3. PICK c : stage' = [stage EXCEPT ![f] = c] /\ c.mtime = disk[from][f].mtime
    BY <1>2, <2>1 DEF CopyFile
  <2> QED BY <1>0, <2>2, <2>3 DEF StageOK, SeenOK
<1>3. ASSUME NEW f \in Files, VerifyFile(f) PROVE Staged'
  BY <1>0, <1>3 DEF VerifyFile, Takes, SameText, data, migration
<1>4. CASE CompareSource
  BY <1>0, <1>4 DEF CompareSource, Goes, data, migration
<1>5. CASE EndOfFiles
  <2>1. CASE pc = "copy"
    <3>1. \A f \in Files : stage[f].mtime = hashes[f].mtime
      BY <1>0, <1>5, <2>1 DEF EndOfFiles
    <3>2. ASSUME NEW f \in Files \ Present(stage) PROVE stage[f] = hashes[f]
      <4>1. stage[f] \in Contents /\ hashes[f] \in Contents /\ stage[f] = NoFile
        BY <1>0, <3>2 DEF StageOK, SeenOK, Present
      <4> QED BY <3>1, <4>1
    <3>3. pc' = "verify" /\ todo' = Present(stage) /\ UNCHANGED <<stage, hashes>>
      BY <1>5, <2>1 DEF EndOfFiles, Goes, migration
    <3> QED BY <3>2, <3>3
  <2>2. CASE pc = "verify"
    <3>1. stage = hashes
      BY <1>0, <1>5, <2>2 DEF EndOfFiles, StageOK, SeenOK
    <3> QED BY <1>5, <2>2, <3>1 DEF EndOfFiles, Goes, migration
  <2>3. CASE pc \notin {"copy", "verify"}
    BY <1>5, <2>3 DEF EndOfFiles, Goes
  <2> QED BY <2>1, <2>2, <2>3
<1>6. CASE Publish \/ Rename \/ Carry \/ CheckMoved \/ Switch \/ SecondLook \/ Raise \/ Crash
  <2>1. pc' \notin {"copy", "verify", "compare", "publish"}
    BY <1>6 DEF Publish, Rename, Carry, CheckMoved, Switch, SecondLook, Raise, Crash, Goes, Ends
  <2> QED BY <2>1
<1>7. ASSUME NEW f \in Files, HashFile(f) \/ CarryFile(f) \/ DropFile(f) \/ RemoveFile(f) \/ AppWrites(f)
      PROVE  Staged'
  <2>1. pc' = pc /\ pc \notin {"copy", "verify", "compare", "publish"}
    BY <1>7 DEF HashFile, CarryFile, DropFile, RemoveFile, AppWrites, Takes
  <2> QED BY <2>1
<1>8. ASSUME NEW f \in Files, OtherWrites(f) PROVE Staged'
  <2>1. latest[f] + 1 \in Versions
    BY <1>8, TypeParts, MigrationAssumption DEF Inv, OtherWrites, GhostOK, Versions
  <2>2. UNCHANGED <<stage, pc, from, hashes, todo>> /\ disk' = [disk EXCEPT ![from][f] = Whole(latest[f] + 1)]
    BY <1>8 DEF OtherWrites, migration
  <2>3. Whole(latest[f] + 1) # NoFile
    BY <2>1
  <2> QED BY <1>0, <2>2, <2>3 DEF DiskOK, PlaceOK
<1>9. CASE UNCHANGED vars
  BY <1>0, <1>9 DEF vars, data, migration
<1> QED BY <1>1, <1>2, <1>3, <1>4, <1>5, <1>6, <1>7, <1>8, <1>9 DEF Next, Copying, Cutting, Removing

LEMMA ReadStep == ASSUME Inv, [Next]_vars PROVE Read'
<1> USE FileContents DEF Read, WasRead
<1>0. Read /\ Where /\ Dated /\ DiskOK /\ PlaceOK /\ SeenOK /\ GhostOK
  BY TypeParts DEF Inv
<1>1. \A f \in Files : /\ disk[from][f] \in Contents /\ hashes[f] \in Contents
                        /\ before[f] \in Nat /\ latest[f] \in Nat
  BY <1>0 DEF DiskOK, PlaceOK, SeenOK, GhostOK, Versions
<1>2. ASSUME NEW p \in Places, NEW m \in Modes, Begin(p, m) PROVE Read'
  <2>1. CASE config \in exists /\ config # p
    <3>1. /\ pc' \in {"copy", "hash"} /\ from' = config /\ disk' = disk /\ hashes' = Nothing
          /\ before' = Inventory(disk[config]) /\ todo' = Present(disk[config])
      BY <1>2, <2>1 DEF Begin
    <3>2. ASSUME NEW f \in Files
          PROVE  /\ before'[f] <= disk'[from'][f].mtime
                 /\ f \in todo' \/ (before'[f] <= hashes'[f].mtime /\ hashes'[f] = disk'[from'][f])
      <4>1. /\ disk[config] \in [Files -> Contents] /\ disk[config][f] \in Contents
            /\ hashes'[f] = NoFile
        BY <1>0, <3>1 DEF DiskOK, PlaceOK, Nothing
      <4>2. before'[f] = disk[config][f].mtime /\ (f \notin todo' => disk[config][f] = NoFile)
        BY <3>1, <4>1, Listing
      <4>3. before'[f] \in Nat /\ before'[f] <= disk'[from'][f].mtime
        BY <3>1, <4>1, <4>2
      <4> QED BY <3>1, <4>1, <4>2, <4>3
    <3> QED BY <3>1, <3>2 DEF Compares
  <2>2. CASE ~(config \in exists /\ config # p)
    <3>1. pc' = "switch" /\ ~(from' \in exists' /\ from' # to')
      BY <1>2, <2>2 DEF Begin
    <3> QED BY <3>1 DEF Compares
  <2> QED BY <2>1, <2>2
<1>3. ASSUME NEW f \in Files, CopyFile(f) PROVE Read'
  <2>1. /\ pc = "copy" /\ pc' = "copy" /\ todo' = todo \ {f} /\ f \in todo
        /\ hashes' = [hashes EXCEPT ![f] = disk[from][f]] /\ UNCHANGED <<disk, before, from>>
    BY <1>3 DEF CopyFile, Takes
  <2>2. hashes'[f] = disk[from][f] /\ \A g \in Files \ {f} : hashes'[g] = hashes[g]
    BY <1>0, <2>1 DEF SeenOK
  <2>3. before[f] <= disk[from][f].mtime
    BY <1>0, <2>1 DEF Compares
  <2> QED BY <1>0, <2>1, <2>2, <2>3 DEF Compares
<1>4. CASE Switch
  <2>1. Compares' => Compares
    BY <1>4 DEF Switch, Goes, Compares
  <2>2. UNCHANGED <<disk, before, hashes, from, todo>> /\ pc = "switch"
    BY <1>4 DEF Switch, Goes, data, migration
  <2> QED BY <1>0, <2>1, <2>2
<1>5. CASE EndOfFiles
  <2>1. Compares' => Compares /\ todo = {}
    BY <1>5 DEF EndOfFiles, Goes, Compares
  <2>2. UNCHANGED <<disk, before, hashes, from>>
    BY <1>5 DEF EndOfFiles, Goes, migration
  <2> QED BY <1>0, <2>1, <2>2
<1>6. ASSUME NEW f \in Files, VerifyFile(f) PROVE Read'
  <2>1. UNCHANGED <<disk, before, hashes, from, pc>> /\ pc = "verify"
    BY <1>6 DEF VerifyFile, Takes, data, migration
  <2> QED BY <1>0, <2>1 DEF Compares
<1>7. CASE CompareSource
  <2>1. UNCHANGED <<disk, before, hashes, from>> /\ pc = "compare"
    BY <1>7 DEF CompareSource, Goes, data, migration
  <2> QED BY <1>0, <2>1 DEF Compares
<1>8. CASE Publish
  <2>1. UNCHANGED <<before, hashes, from>> /\ pc = "publish" /\ disk' = [disk EXCEPT ![to] = stage]
    BY <1>8 DEF Publish, Goes, migration
  <2>2. disk'[from] = disk[from]
    BY <1>0, <2>1 DEF Where, Steps, DiskOK, PlaceOK
  <2> QED BY <1>0, <2>1, <2>2 DEF Compares
<1>9. CASE Rename \/ Carry \/ CheckMoved \/ SecondLook \/ Raise \/ Crash
  <2>1. ~Compares'
    <3>1. CASE CheckMoved
      BY <1>0, <3>1 DEF CheckMoved, Goes, Where, Compares, data, migration
    <3>2. CASE Rename \/ Carry \/ SecondLook \/ Raise \/ Crash
      BY <3>2 DEF Rename, Carry, SecondLook, Raise, Crash, Goes, Ends, Compares
    <3> QED BY <1>9, <3>1, <3>2
  <2> QED BY <2>1
<1>10. ASSUME NEW f \in Files, HashFile(f) \/ CarryFile(f) \/ DropFile(f) \/ RemoveFile(f) \/ AppWrites(f)
       PROVE  Read'
  <2>1. ~Compares'
    BY <1>10 DEF HashFile, CarryFile, DropFile, RemoveFile, AppWrites, Takes, Compares
  <2> QED BY <2>1
<1>11. ASSUME NEW f \in Files, OtherWrites(f) PROVE Read'
  <2>1. latest[f] + 1 \in Versions
    BY <1>0, <1>11, MigrationAssumption DEF OtherWrites, GhostOK, Versions
  <2>2. /\ UNCHANGED <<exists, pc, from, to, before, hashes, todo>>
        /\ disk' = [disk EXCEPT ![from][f] = Whole(latest[f] + 1)]
    BY <1>11 DEF OtherWrites, migration
  <2>3. disk'[from][f].mtime = latest[f] + 1 /\ \A g \in Files \ {f} : disk'[from][g] = disk[from][g]
    BY <1>0, <2>1, <2>2 DEF DiskOK, PlaceOK
  <2>4. disk[from][f].mtime <= latest[f]
    BY <1>0 DEF Dated, PlaceOK
  <2>5. Compares' = Compares
    BY <2>2 DEF Compares
  <2>6. WasRead(f) => hashes[f].mtime < disk'[from][f].mtime
    BY <1>1, <2>3, <2>4
  <2>7. before[f] <= disk[from][f].mtime => before[f] <= disk'[from][f].mtime
    BY <1>1, <2>3, <2>4
  <2> QED BY <1>0, <2>2, <2>3, <2>5, <2>6, <2>7
<1>12. CASE UNCHANGED vars
  BY <1>0, <1>12 DEF vars, data, migration, Compares
<1> QED BY <1>2, <1>3, <1>4, <1>5, <1>6, <1>7, <1>8, <1>9, <1>10, <1>11, <1>12
    DEF Next, Copying, Cutting, Removing

LEMMA ComparedStep == ASSUME Inv, [Next]_vars PROVE Compared'
<1> USE DEF Compared
<1>0. Compared /\ Read /\ Where /\ DiskOK /\ PlaceOK /\ SeenOK
  BY TypeParts DEF Inv
<1>1. CASE CompareSource
  <2>1. /\ UNCHANGED <<disk, before, hashes, from, stray>>
        /\ pc = "compare" /\ pc' = "publish" /\ Inventory(disk[from]) = before
    BY <1>1 DEF CompareSource, SourceUnchanged, Goes, data, migration, ghosts
  <2>2. \A f \in Files : disk[from][f].mtime = before[f]
    BY <1>0, <2>1, Listing DEF DiskOK, PlaceOK
  <2>3. ASSUME NEW f \in Files PROVE hashes[f].mtime = before[f]
    <3>1. WasRead(f)
      BY <1>0, <2>1 DEF Read, Compares
    <3>2. hashes[f].mtime \in Nat /\ before[f] \in Nat
      BY <1>0, FileContents DEF SeenOK
    <3> QED BY <2>2, <3>1, <3>2 DEF WasRead
  <2> QED BY <2>1, <2>2, <2>3
<1>2. CASE Publish
  <2>1. UNCHANGED <<before, from, stray>> /\ pc = "publish" /\ pc' = "switch" /\ disk' = [disk EXCEPT ![to] = stage]
    BY <1>2 DEF Publish, Goes, migration, ghosts
  <2>2. disk'[from] = disk[from]
    BY <1>0, <2>1 DEF Where, Steps, DiskOK, PlaceOK
  <2> QED BY <1>0, <2>1, <2>2
<1>3. ASSUME NEW f \in Files, OtherWrites(f) PROVE Compared'
  <2>1. /\ UNCHANGED <<exists, pc, from, to, before, hashes>>
        /\ disk' = [disk EXCEPT ![from][f] = Whole(latest[f] + 1)]
        /\ stray' = IF pc \in {"publish", "switch", "clean", "remove"} THEN stray \union {f} ELSE stray
    BY <1>3 DEF OtherWrites, migration
  <2>2. \A g \in Files \ {f} : disk'[from][g] = disk[from][g]
    BY <1>0, <2>1 DEF DiskOK, PlaceOK
  <2> QED BY <1>0, <2>1, <2>2 DEF Compares
<1>4. CASE UNCHANGED vars
  BY <1>0, <1>4 DEF vars, data, migration, ghosts, Compares
<1>5. ASSUME pc' # "publish", ~(pc' = "switch" /\ Compares') PROVE Compared'
  BY <1>5
<1>6. ASSUME NEW p \in Places, NEW m \in Modes, Begin(p, m) PROVE Compared'
  BY <1>5, <1>6 DEF Begin, Compares
<1>7. CASE CheckMoved
  BY <1>0, <1>5, <1>7 DEF CheckMoved, Goes, data, migration, Where, Compares
<1>8. CASE Copying \/ Cutting \/ Rename \/ Carry \/ Switch \/ Removing \/ EndOfFiles \/ Raise \/ Crash
           \/ \E f \in Files : AppWrites(f)
  <2>1. pc' \notin {"publish", "switch"}
    BY <1>8 DEF Copying, CopyFile, VerifyFile, Cutting, HashFile, CarryFile, DropFile, Rename, Carry,
       Switch, Removing, SecondLook, RemoveFile, EndOfFiles, Raise, Crash, Ends, AppWrites, Goes, Takes
  <2> QED BY <1>5, <2>1
<1> QED BY <1>1, <1>2, <1>3, <1>4, <1>6, <1>7, <1>8 DEF Next

LEMMA VerifiedStep == ASSUME Inv, [Next]_vars PROVE Verified'
<1> USE DEF Verified
<1>0. Verified /\ Compared /\ Staged /\ Where /\ DiskOK /\ PlaceOK /\ SeenOK
  BY TypeParts DEF Inv
<1>1. ASSUME NEW p \in Places, NEW m \in Modes, Begin(p, m) PROVE Verified'
  <2>1. pc' = "switch" => \A f \in Files : before'[f] = 0
    BY <1>1 DEF Begin, Inventory, Nothing, NoFile
  <2> QED BY <1>1, <2>1 DEF Begin
<1>2. CASE Publish
  <2>1. UNCHANGED <<before, hashes, to>> /\ pc = "publish" /\ disk' = [disk EXCEPT ![to] = stage]
    BY <1>2 DEF Publish, Goes, migration
  <2>2. disk'[to] = hashes
    BY <1>0, <2>1 DEF Staged, DiskOK, PlaceOK
  <2> QED BY <1>0, <2>1, <2>2 DEF Compared
<1>3. CASE CheckMoved
  <2>1. UNCHANGED <<disk, before, hashes, to>> /\ Inventory(disk[to]) = before /\ disk[to] = hashes
    BY <1>3 DEF CheckMoved, Arrived, Goes, data, migration
  <2>2. \A f \in Files : disk[to][f].mtime = before[f]
    BY <1>0, <2>1, Listing DEF DiskOK, PlaceOK
  <2> QED BY <2>1, <2>2
<1>4. CASE Switch
  BY <1>0, <1>4 DEF Switch, Goes, data, migration
<1>5. ASSUME NEW f \in Files, OtherWrites(f) PROVE Verified'
  <2>1. /\ UNCHANGED <<pc, to, before, hashes>> /\ from # to
        /\ disk' = [disk EXCEPT ![from][f] = Whole(latest[f] + 1)]
    BY <1>5 DEF OtherWrites, migration
  <2>2. disk'[to] = disk[to]
    BY <1>0, <2>1 DEF DiskOK, PlaceOK
  <2> QED BY <1>0, <2>1, <2>2
<1>6. CASE UNCHANGED vars
  BY <1>0, <1>6 DEF vars, data, migration
<1>7. CASE Copying \/ CompareSource \/ Cutting \/ Rename \/ Carry \/ Removing \/ EndOfFiles \/ Raise
           \/ Crash \/ \E f \in Files : AppWrites(f)
  <2>1. pc' \notin {"switch", "clean"}
    BY <1>7 DEF Copying, CopyFile, VerifyFile, CompareSource, Cutting, HashFile, CarryFile, DropFile,
       Rename, Carry, Removing, SecondLook, RemoveFile, EndOfFiles, Raise, Crash, Ends, AppWrites,
       Goes, Takes
  <2> QED BY <2>1
<1> QED BY <1>1, <1>2, <1>3, <1>4, <1>5, <1>6, <1>7 DEF Next

LEMMA CarriedStep == ASSUME Inv, [Next]_vars PROVE Carried'
<1> USE DEF Carried, Elsewhere
<1>0. Carried /\ NothingLost /\ Where /\ Verified /\ Read /\ DiskOK /\ PlaceOK /\ SeenOK /\ GhostOK
  BY TypeParts DEF Inv
<1>1. \A f \in Files : Whole(latest[f]) # NoFile /\ Whole(latest[f]).mtime # 0
  BY <1>0, FileContents DEF GhostOK
<1>2. CASE Carry
  <2>1. /\ UNCHANGED <<disk, latest, late, from, to>> /\ pc' = "carry"
        /\ todo' = Present(disk[from]) /\ Present(disk[to]) = {}
    BY <1>2 DEF Carry, FreeTarget, Goes, migration, ghosts
  <2>2. \A f \in Files : disk[to][f] = NoFile /\ (f \in todo' <=> disk[from][f] # NoFile)
    BY <2>1 DEF Present
  <2>3. ASSUME NEW f \in Files \ late, f \notin todo' PROVE Elsewhere(f)
    BY <1>0, <1>1, <2>2, <2>3 DEF NothingLost
  <2>4. todo' \subseteq Files
    BY <2>1 DEF Present
  <2> QED BY <2>1, <2>2, <2>3, <2>4
<1>3. ASSUME NEW f \in Files, CarryFile(f) PROVE Carried'
  <2>1. /\ UNCHANGED <<latest, from, to, pc>> /\ pc = "carry" /\ f \in todo /\ todo' = todo \ {f}
        /\ late \subseteq late' /\ from # to
    BY <1>0, <1>3 DEF CarryFile, Takes, migration, Where, Steps
  <2>2. PICK c : disk' = [disk EXCEPT ![to][f] = c] /\ (c = disk[from][f] \/ f \in late')
    BY <1>3 DEF CarryFile
  <2>3. \A p \in Places : p # to => disk'[p] = disk[p]
    BY <1>0, <2>2 DEF DiskOK, PlaceOK
  <2>4. disk'[to][f] = c /\ \A g \in Files \ {f} : disk'[to][g] = disk[to][g]
    BY <1>0, <2>2 DEF DiskOK, PlaceOK
  <2>5. \A g \in todo' : disk'[from][g] # NoFile /\ disk'[to][g] = NoFile
    BY <1>0, <2>1, <2>3, <2>4 DEF PlaceOK, SeenOK
  <2>6. ASSUME NEW g \in Files \ late', g \notin todo' PROVE Elsewhere(g)'
    <3>1. CASE g = f
      <4>1. PICK p \in Places : disk[p][f] = Whole(latest[f])
        BY <1>0, <2>1, <2>6, <3>1 DEF NothingLost
      <4>2. CASE p = from
        BY <1>0, <2>1, <2>2, <2>4, <2>6, <3>1, <4>1, <4>2 DEF PlaceOK
      <4>3. CASE p # from
        BY <1>0, <1>1, <2>1, <2>3, <3>1, <4>1, <4>3
      <4> QED BY <4>2, <4>3
    <3>2. CASE g # f
      <4>1. PICK p \in Places \ {from} : disk[p][g] = Whole(latest[g])
        BY <1>0, <2>1, <2>6, <3>2
      <4>2. disk'[p][g] = disk[p][g]
        BY <2>3, <2>4, <3>2
      <4> QED BY <2>1, <4>1, <4>2
    <3> QED BY <3>1, <3>2
  <2> QED BY <2>1, <2>5, <2>6
<1>4. ASSUME NEW f \in Files, DropFile(f) \/ RemoveFile(f) PROVE Carried'
  <2>1. /\ UNCHANGED <<latest, late, from, pc>> /\ pc \in {"drop", "remove"}
        /\ disk' = [disk EXCEPT ![from][f] = NoFile]
    BY <1>4 DEF DropFile, RemoveFile, Takes, migration, ghosts
  <2>2. \A p \in Places \ {from} : disk'[p] = disk[p]
    BY <1>0, <2>1 DEF DiskOK
  <2>3. \A g \in Files \ late : Elsewhere(g)
    BY <1>0, <2>1
  <2> QED BY <2>1, <2>2, <2>3
<1>5. CASE EndOfFiles
  <2>1. UNCHANGED <<disk, latest, late, from>> /\ todo = {}
    BY <1>5 DEF EndOfFiles, Goes, migration, ghosts
  <2>2. pc' \notin {"carry", "remove"} /\ (pc' = "drop" => pc = "carry")
    BY <1>5 DEF EndOfFiles, Goes
  <2> QED BY <1>0, <2>1, <2>2
<1>6. CASE SecondLook
  <2>1. UNCHANGED <<disk, latest, late, from>> /\ pc = "clean" /\ pc' \in {"remove", "idle"}
    BY <1>6 DEF SecondLook, Goes, data, migration, ghosts
  <2>2. ASSUME pc' = "remove", NEW f \in Files \ late PROVE Elsewhere(f)
    <3>1. disk[from][f].mtime = before[f]
      BY <1>0, <1>6, <2>2, Listing DEF SecondLook, StillMatches, Goes, DiskOK, PlaceOK
    <3>2. PICK p \in Places : disk[p][f] = Whole(latest[f])
      BY <1>0 DEF NothingLost
    <3>3. CASE p = from
      <4>1. before[f] # 0
        BY <1>1, <3>1, <3>2, <3>3
      <4>2. disk[to][f] = hashes[f] /\ hashes[f].mtime = before[f]
        BY <1>0, <2>1, <4>1 DEF Verified
      <4>3. hashes[f] = disk[from][f]
        <5>1. WasRead(f)
          BY <1>0, <2>1 DEF Read, Compares
        <5>2. before[f] \in Nat
          BY <1>0 DEF SeenOK
        <5> QED BY <3>1, <4>2, <5>1, <5>2 DEF WasRead
      <4>4. to \in Places /\ to # from
        BY <1>0, <2>1 DEF Where, PlaceOK, Steps
      <4> QED BY <3>2, <3>3, <4>2, <4>3, <4>4
    <3> QED BY <3>2, <3>3
  <2> QED BY <2>1, <2>2
<1>7. ASSUME NEW f \in Files, OtherWrites(f) PROVE Carried'
  <2>1. /\ UNCHANGED <<pc, from, to, todo>> /\ from # to
        /\ disk' = [disk EXCEPT ![from][f] = Whole(latest[f] + 1)]
        /\ latest' = [latest EXCEPT ![f] = latest[f] + 1]
        /\ late' = IF Unguarded(f) THEN late \union {f} ELSE late
    BY <1>7 DEF OtherWrites, migration
  <2>2. \A p \in Places \ {from} : disk'[p] = disk[p]
    BY <1>0, <2>1 DEF DiskOK
  <2>3. /\ disk'[from][f] = Whole(latest[f] + 1)
        /\ \A g \in Files \ {f} : disk'[from][g] = disk[from][g] /\ latest'[g] = latest[g]
    BY <1>0, <2>1 DEF DiskOK, PlaceOK, GhostOK
  <2>4. Whole(latest[f] + 1) # NoFile
    <3>1. latest[f] + 1 \in Versions
      BY <1>0, <1>7, MigrationAssumption DEF OtherWrites, GhostOK, Versions
    <3> QED BY <3>1, FileContents
  <2>5. pc = "carry" => \A g \in todo : disk'[from][g] # NoFile /\ disk'[to][g] = NoFile
    BY <1>0, <2>1, <2>2, <2>3, <2>4 DEF PlaceOK, SeenOK
  <2>6. ASSUME NEW g \in Files \ late', pc \in {"drop", "remove"} \/ (pc = "carry" /\ g \notin todo)
        PROVE  Elsewhere(g)'
    <3>1. g # f /\ g \notin late
      BY <2>1, <2>6 DEF Unguarded
    <3>2. Elsewhere(g)
      BY <1>0, <2>6, <3>1
    <3> QED BY <2>1, <2>2, <2>3, <3>1, <3>2
  <2> QED BY <2>1, <2>5, <2>6
<1>8. CASE UNCHANGED vars
  BY <1>0, <1>8 DEF vars, data, migration, ghosts
<1>9. ASSUME NEW p \in Places, NEW m \in Modes, Begin(p, m) PROVE Carried'
  BY <1>9 DEF Begin
<1>10. CASE CompareSource \/ Publish \/ Rename \/ CheckMoved \/ Switch \/ Raise \/ Crash
  <2>1. pc' \notin {"carry", "drop", "remove"}
    BY <1>10 DEF CompareSource, Publish, Rename, CheckMoved, Switch, Raise, Crash, Ends, Goes
  <2> QED BY <2>1
<1>11. ASSUME NEW f \in Files, CopyFile(f) \/ VerifyFile(f) \/ HashFile(f) \/ AppWrites(f) PROVE Carried'
  <2>1. pc' \notin {"carry", "drop", "remove"}
    BY <1>11 DEF CopyFile, VerifyFile, HashFile, AppWrites, Takes
  <2> QED BY <2>1
<1> QED BY <1>2, <1>3, <1>4, <1>5, <1>6, <1>7, <1>8, <1>9, <1>10, <1>11
    DEF Next, Copying, Cutting, Removing

LEMMA ConfiguredStep == ASSUME Inv, [Next]_vars PROVE ConfiguredIsWhole'
<1> USE DEF ConfiguredIsWhole
<1>0. ConfiguredIsWhole /\ Where /\ Verified /\ Read /\ Compared /\ DiskOK /\ PlaceOK /\ SeenOK /\ GhostOK
  BY TypeParts DEF Inv
<1>1. \A f \in Files : Whole(latest[f]) # NoFile /\ Whole(latest[f]).mtime # 0
  BY <1>0, FileContents DEF GhostOK
<1>3. CASE UNCHANGED <<config, latest, disk, stray, late, cut>>
  BY <1>0, <1>3
<1>4. CASE Publish
  <2>1. /\ UNCHANGED <<config, latest, stray, late, cut>> /\ config # to
        /\ disk' = [disk EXCEPT ![to] = stage]
    BY <1>0, <1>4 DEF Publish, Goes, ghosts, Where, Steps
  <2>2. disk'[config] = disk[config]
    BY <1>0, <2>1 DEF DiskOK, PlaceOK
  <2> QED BY <1>0, <2>1, <2>2
<1>5. CASE Rename
  BY <1>5 DEF Rename
<1>6. ASSUME NEW f \in Files, CarryFile(f) PROVE ConfiguredIsWhole'
  <2>1. /\ UNCHANGED <<config, latest, stray, cut>> /\ config # to /\ late \subseteq late'
    BY <1>0, <1>6 DEF CarryFile, Takes, Where, Steps
  <2>2. PICK c : disk' = [disk EXCEPT ![to][f] = c]
    BY <1>6 DEF CarryFile
  <2>3. disk'[config] = disk[config]
    BY <1>0, <2>1, <2>2 DEF DiskOK, PlaceOK
  <2> QED BY <1>0, <2>1, <2>3
<1>7. ASSUME NEW f \in Files, DropFile(f) PROVE ConfiguredIsWhole'
  <2>1. /\ UNCHANGED <<config, latest, stray, late>> /\ cut' = cut \union {f}
        /\ disk' = [disk EXCEPT ![from][f] = NoFile]
    BY <1>7 DEF DropFile
  <2>2. \A g \in Files \ {f} : disk'[config][g] = disk[config][g]
    BY <1>0, <2>1 DEF DiskOK, PlaceOK
  <2> QED BY <1>0, <2>1, <2>2
<1>8. ASSUME NEW f \in Files, RemoveFile(f) PROVE ConfiguredIsWhole'
  <2>1. /\ UNCHANGED <<config, latest, stray, late, cut>> /\ config # from
        /\ disk' = [disk EXCEPT ![from][f] = NoFile]
    BY <1>0, <1>8 DEF RemoveFile, Takes, ghosts, Where, Steps
  <2>2. disk'[config] = disk[config]
    BY <1>0, <2>1 DEF DiskOK, PlaceOK
  <2> QED BY <1>0, <2>1, <2>2
<1>9. CASE Switch
  <2>1. /\ UNCHANGED <<disk, latest, stray, late>> /\ config' = to /\ pc = "switch" /\ config = from
        /\ cut' = {f \in cut : disk[to][f] # Whole(latest[f])}
    BY <1>0, <1>9 DEF Switch, data, Where, Steps
  <2> SUFFICES ASSUME NEW f \in Files \ (stray \union late \union cut')
               PROVE  disk[to][f] = Whole(latest[f])
    BY <2>1
  <2>2. CASE f \in cut
    BY <2>1, <2>2
  <2>3. CASE f \notin cut
    <3>1. disk[from][f] = Whole(latest[f])
      BY <1>0, <2>1, <2>3
    <3>2. from \in exists
      BY <1>0, <1>1, <3>1 DEF DiskOK, PlaceOK, Nothing
    <3>3. CASE from # to
      <4>1. disk[from][f].mtime = before[f]
        BY <1>0, <2>1, <3>2, <3>3 DEF Compared, Compares
      <4>2. disk[to][f] = hashes[f] /\ hashes[f].mtime = before[f]
        BY <1>0, <1>1, <2>1, <3>1, <4>1 DEF Verified
      <4>3. WasRead(f) /\ before[f] \in Nat
        BY <1>0, <2>1, <3>2, <3>3 DEF Read, Compares, SeenOK
      <4> QED BY <3>1, <4>1, <4>2, <4>3 DEF WasRead
    <3> QED BY <3>1, <3>3
  <2> QED BY <2>2, <2>3
<1>10. CASE Raise
  BY <1>0, <1>10 DEF Raise, Ends
<1>11. CASE Crash
  <2>1. /\ UNCHANGED <<config, latest, late, cut>>
        /\ stray' = {f \in stray : disk[config][f] # Whole(latest[f])}
    BY <1>11 DEF Crash, Ends
  <2>2. disk'[config] = disk[config]
    <3>1. ASSUME pc = "carry", NEW f \in todo, disk' = [disk EXCEPT ![to][f] = Broken(disk[from][f])]
          PROVE  disk'[config] = disk[config]
      BY <1>0, <3>1 DEF DiskOK, PlaceOK, Where, Steps
    <3> QED BY <1>11, <3>1 DEF Crash
  <2> QED BY <1>0, <2>1, <2>2
<1>12. ASSUME NEW f \in Files, AppWrites(f) PROVE ConfiguredIsWhole'
  <2>1. /\ config' = config /\ latest' = [latest EXCEPT ![f] = latest[f] + 1]
        /\ disk' = [disk EXCEPT ![config][f] = Whole(latest[f] + 1)]
        /\ stray' = stray \ {f} /\ late' = late \ {f} /\ cut' = cut \ {f}
    BY <1>12 DEF AppWrites
  <2>2. /\ disk'[config][f] = Whole(latest[f] + 1) /\ latest'[f] = latest[f] + 1
        /\ \A g \in Files \ {f} : disk'[config][g] = disk[config][g] /\ latest'[g] = latest[g]
    BY <1>0, <2>1 DEF DiskOK, PlaceOK, GhostOK
  <2> QED BY <1>0, <2>1, <2>2
<1>13. ASSUME NEW f \in Files, OtherWrites(f) PROVE ConfiguredIsWhole'
  <2>1. /\ config' = config /\ cut' = cut /\ stray \subseteq stray' /\ late \subseteq late'
        /\ latest' = [latest EXCEPT ![f] = latest[f] + 1]
        /\ disk' = [disk EXCEPT ![from][f] = Whole(latest[f] + 1)] /\ from # to
    BY <1>13 DEF OtherWrites
  <2>2. config = from \/ f \in stray'
    BY <1>0, <1>13 DEF OtherWrites, Where, PlaceOK
  <2>3. latest'[f] = latest[f] + 1 /\ \A g \in Files \ {f} : latest'[g] = latest[g]
    BY <1>0, <2>1 DEF GhostOK
  <2>4. \A g \in Files \ {f} : disk'[config][g] = disk[config][g]
    BY <1>0, <2>1 DEF DiskOK, PlaceOK
  <2>5. config = from => disk'[config][f] = Whole(latest[f] + 1)
    BY <1>0, <2>1 DEF DiskOK, PlaceOK
  <2> QED BY <1>0, <2>1, <2>2, <2>3, <2>4, <2>5
<1> QED BY <1>3, <1>4, <1>5, <1>6, <1>7, <1>8, <1>9, <1>10, <1>11, <1>12, <1>13
    DEF Next, vars, data, ghosts, Begin, Copying, CopyFile, VerifyFile, CompareSource, Cutting,
    HashFile, Carry, CheckMoved, Removing, SecondLook, EndOfFiles

LEMMA LostStep == ASSUME Inv, [Next]_vars PROVE NothingLost'
<1> USE DEF NothingLost
<1>0. NothingLost /\ Where /\ Carried /\ DiskOK /\ PlaceOK /\ SeenOK /\ GhostOK
  BY TypeParts DEF Inv
<1>1. \A f \in Files : Whole(latest[f]) # NoFile
  BY <1>0, FileContents DEF GhostOK
<1>2. CASE UNCHANGED <<disk, latest>> /\ late \subseteq late'
  BY <1>0, <1>2
<1>3. CASE Publish
  <2>1. /\ UNCHANGED <<latest, late>> /\ disk' = [disk EXCEPT ![to] = stage]
        /\ Present(disk[to]) = {}
    BY <1>3 DEF Publish, FreeTarget, Goes, ghosts
  <2>2. \A f \in Files : disk[to][f] = NoFile
    BY <2>1 DEF Present
  <2>3. \A p \in Places \ {to} : disk'[p] = disk[p]
    BY <1>0, <2>1 DEF DiskOK
  <2> QED BY <1>0, <1>1, <2>1, <2>2, <2>3
<1>4. CASE Rename
  <2>1. /\ UNCHANGED <<latest, late>> /\ Present(disk[to]) = {} /\ from # to
        /\ disk' = [disk EXCEPT ![to] = disk[from], ![from] = Nothing]
    BY <1>0, <1>4 DEF Rename, FreeTarget, Goes, Where, Steps
  <2>2. \A f \in Files : disk[to][f] = NoFile
    BY <2>1 DEF Present
  <2>3. disk'[to] = disk[from] /\ \A p \in Places \ {to, from} : disk'[p] = disk[p]
    BY <1>0, <2>1 DEF DiskOK, PlaceOK
  <2>4. ASSUME NEW f \in Files \ late' PROVE \E p \in Places : disk'[p][f] = Whole(latest'[f])
    <3>1. PICK p \in Places : disk[p][f] = Whole(latest[f])
      BY <1>0, <2>1, <2>4
    <3>2. p # to
      BY <1>1, <2>2, <3>1
    <3>3. CASE p = from
      BY <2>1, <2>3, <3>1, <3>3, <1>0 DEF PlaceOK
    <3>4. CASE p # from
      BY <2>1, <2>3, <3>1, <3>2, <3>4
    <3> QED BY <3>3, <3>4
  <2> QED BY <2>4
<1>5. ASSUME NEW f \in Files, CarryFile(f) PROVE NothingLost'
  <2>1. /\ latest' = latest /\ late \subseteq late' /\ disk[to][f] = NoFile
    BY <1>0, <1>5 DEF CarryFile, Takes, Carried
  <2>2. PICK c : disk' = [disk EXCEPT ![to][f] = c]
    BY <1>5 DEF CarryFile
  <2>3. \A p \in Places, g \in Files : p # to \/ g # f => disk'[p][g] = disk[p][g]
    BY <1>0, <2>2 DEF DiskOK, PlaceOK
  <2> QED BY <1>0, <1>1, <2>1, <2>3
<1>6. ASSUME NEW f \in Files, DropFile(f) \/ RemoveFile(f) PROVE NothingLost'
  <2>1. /\ UNCHANGED <<latest, late>> /\ pc \in {"drop", "remove"}
        /\ disk' = [disk EXCEPT ![from][f] = NoFile]
    BY <1>6 DEF DropFile, RemoveFile, Takes, ghosts
  <2>2. \A p \in Places \ {from} : disk'[p] = disk[p]
    BY <1>0, <2>1 DEF DiskOK
  <2>3. \A g \in Files \ late : \E p \in Places \ {from} : disk[p][g] = Whole(latest[g])
    BY <1>0, <2>1 DEF Carried, Elsewhere
  <2> QED BY <2>1, <2>2, <2>3
<1>7. CASE Crash
  <2>1. ASSUME pc = "carry", NEW f \in todo, disk' = [disk EXCEPT ![to][f] = Broken(disk[from][f])]
        PROVE  NothingLost'
    <3>1. UNCHANGED <<latest, late>> /\ disk[to][f] = NoFile /\ f \in Files
      BY <1>0, <1>7, <2>1 DEF Crash, Carried, SeenOK
    <3>2. \A p \in Places, g \in Files : p # to \/ g # f => disk'[p][g] = disk[p][g]
      BY <1>0, <2>1 DEF DiskOK, PlaceOK
    <3> QED BY <1>0, <1>1, <3>1, <3>2
  <2> QED BY <1>2, <1>7, <2>1 DEF Crash
<1>8. ASSUME NEW f \in Files, AppWrites(f) \/ OtherWrites(f) PROVE NothingLost'
  <2>1. PICK p \in Places : disk' = [disk EXCEPT ![p][f] = Whole(latest[f] + 1)]
    BY <1>0, <1>8 DEF AppWrites, OtherWrites, PlaceOK
  <2>2. latest' = [latest EXCEPT ![f] = latest[f] + 1] /\ late \ {f} \subseteq late'
    BY <1>8 DEF AppWrites, OtherWrites
  <2>3. /\ disk'[p][f] = Whole(latest[f] + 1) /\ latest'[f] = latest[f] + 1
        /\ \A g \in Files \ {f} : latest'[g] = latest[g] /\ \A q \in Places : disk'[q][g] = disk[q][g]
    BY <1>0, <2>1, <2>2 DEF DiskOK, GhostOK
  <2> QED BY <1>0, <2>2, <2>3
<1> QED BY <1>2, <1>3, <1>4, <1>5, <1>6, <1>7, <1>8
    DEF Next, vars, data, ghosts, Begin, Copying, CopyFile, VerifyFile, CompareSource, Cutting,
    HashFile, Carry, CheckMoved, Switch, Removing, SecondLook, EndOfFiles, Raise

LEMMA Invariant == Spec => []Inv
<1>1. Inv /\ [Next]_vars => Inv'
  BY TypeStep, WhereStep, DatedStep, ReadStep, StagedStep, ComparedStep, VerifiedStep,
     CarriedStep, ConfiguredStep, LostStep DEF Inv
<1> QED BY <1>1, InitInv, PTL DEF Spec

-----------------------------------------------------------------------------
\* TypeOK holds: what does not exist holds no files.
THEOREM TypeCorrect == Spec => []TypeOK
BY Invariant, PTL DEF Inv

\* ConfiguredIsWhole holds: whatever goes wrong, the configured directory is
\* complete, but for the files in the windows that are named.
THEOREM ConfiguredStaysWhole == Spec => []ConfiguredIsWhole
BY Invariant, PTL DEF Inv

\* NothingLost holds: a copying or cutting migration never destroys the last
\* text of a file that nobody touched while its directory was deleted.
THEOREM NoFileIsLost == Spec => []NothingLost
BY Invariant, PTL DEF Inv

\* SwitchIsVerified holds: the application gets another directory only when the
\* files are there as they were seen and read.
THEOREM SwitchesAreVerified == Spec => SwitchIsVerified
<1>1. ASSUME Inv, [Next]_vars, config' # config, NEW f \in Files, before[f] # 0
      PROVE  disk[to][f] = hashes[f] /\ hashes[f].mtime = before[f]
  <2>1. Switch
    BY <1>1 DEF Next, vars, Begin, Copying, CopyFile, VerifyFile, CompareSource, Publish, Cutting,
       HashFile, CarryFile, DropFile, Rename, Carry, CheckMoved, Removing, SecondLook, RemoveFile,
       EndOfFiles, Raise, Crash, AppWrites, OtherWrites
  <2>2. pc = "switch"
    BY <2>1 DEF Switch
  <2> QED BY <1>1, <2>2 DEF Inv, Verified
<1>2. Inv /\ [Next]_vars =>
        (config' # config =>
            \A f \in Files : before[f] # 0 =>
                disk[to][f] = hashes[f] /\ hashes[f].mtime = before[f])
  BY <1>1
<1> QED BY <1>2, Invariant, PTL DEF Spec, SwitchIsVerified

=============================================================================
