---------------------------- MODULE DataMigration ----------------------------
(***************************************************************************)
(* script/installer_data.py: the data directory is copied or cut to        *)
(* another place and ~/xalling-paths.toml is switched to it.               *)
(*                                                                         *)
(* The application and the migration exclude each other, but other         *)
(* programs do not; and the process may die between any two steps.  A file *)
(* has a modification time, which stands for its text too, and is whole or *)
(* broken.  Not modelled: links, wrong paths, progress, the free space     *)
(* (too little of it raises, like any other error), and files that other   *)
(* programs put into the new directory.                                    *)
(***************************************************************************)
EXTENDS Naturals

CONSTANTS
    Places,         \* the directories the data may be in
    Start,          \* the one that is configured at first
    Files,
    MaxVersion,     \* bound on the versions of a file
    Modes,          \* "copy", "move"
    MaxRuns,        \* bound on the migrations
    MaxTroubles     \* bound on the crashes, errors and broken copies

ASSUME MigrationAssumption ==
    /\ Start \in Places
    /\ Modes \subseteq {"copy", "move"}
    /\ MaxVersion \in Nat \ {0}
    /\ MaxRuns \in Nat /\ MaxTroubles \in Nat

VARIABLES
    exists,     \* the places where there is a directory
    disk,       \* the files in every place
    stage,      \* the files in the staging directory of the migration
    config,     \* data_dir of xalling-paths.toml
    pc,         \* where the migration is
    mode,       \* how it moves the data
    from,       \* the directory it found configured
    to,         \* the directory it was asked for
    before,     \* the modification times it saw first
    hashes,     \* the texts it read
    todo,       \* the files the step has not come to
    latest,     \* the last version of every file that anybody wrote
    stray,      \* files written in the old directory after it was compared
    late,       \* files written, or broken, where no later check sees it
    cut,        \* files that were taken from the configured directory
    runs,       \* how many migrations were started
    troubles    \* how often something went wrong

data      == <<exists, disk, stage>>
migration == <<mode, from, to, before, hashes>>
ghosts    == <<latest, stray, late, cut>>
counters  == <<runs, troubles>>
vars      == <<data, config, pc, migration, todo, ghosts, counters>>

-----------------------------------------------------------------------------
Versions  == 1..MaxVersion
Contents  == {c \in [mtime : 0..MaxVersion, whole : BOOLEAN] : c.mtime = 0 => c.whole}
NoFile    == [mtime |-> 0, whole |-> TRUE]
Whole(v)  == [mtime |-> v, whole |-> TRUE]
Broken(c) == [mtime |-> c.mtime, whole |-> FALSE]
Nothing   == [f \in Files |-> NoFile]

Steps == {"idle", "copy", "verify", "compare", "publish", "hash", "cut", "carry",
          "drop", "check", "switch", "clean", "remove"}

\* Every variable has the values that installer_data.py gives it, and what is
\* not there holds no files.
TypeOK ==
    /\ exists \subseteq Places /\ config \in Places
    /\ disk \in [Places -> [Files -> Contents]] /\ stage \in [Files -> Contents]
    /\ \A p \in Places \ exists : disk[p] = Nothing
    /\ pc \in Steps /\ mode \in {"copy", "move"}
    /\ from \in Places /\ to \in Places
    /\ before \in [Files -> 0..MaxVersion] /\ hashes \in [Files -> Contents]
    /\ todo \subseteq Files
    /\ latest \in [Files -> Versions]
    /\ stray \subseteq Files /\ late \subseteq Files /\ cut \subseteq Files
    /\ runs \in 0..MaxRuns /\ troubles \in 0..MaxTroubles

Init ==
    /\ exists = {Start} /\ config = Start
    /\ latest = [f \in Files |-> 1]
    /\ disk = [p \in Places |-> IF p = Start THEN [f \in Files |-> Whole(1)] ELSE Nothing]
    /\ stage = Nothing
    /\ pc = "idle" /\ mode = "copy" /\ from = Start /\ to = Start
    /\ before = [f \in Files |-> 0] /\ hashes = Nothing /\ todo = {}
    /\ stray = {} /\ late = {} /\ cut = {}
    /\ runs = 0 /\ troubles = 0

-----------------------------------------------------------------------------
(* Parts of steps *)

\* inventory: the sizes and modification times of the files of a directory.
Inventory(files) == [f \in Files |-> files[f].mtime]

Present(files) == {f \in Files : files[f] # NoFile}

Goes(step) == pc' = step /\ UNCHANGED migration

\* A step that takes file after file is through with f.
Takes(f) == f \in todo /\ todo' = todo \ {f} /\ pc' = pc

Trouble == troubles < MaxTroubles /\ troubles' = troubles + 1

-----------------------------------------------------------------------------
(* Checking what is asked for: prepare_migration *)

\* A directory that is there must be empty.
FreeTarget(p) == Present(disk[p]) = {}

\* A migration begins, with the lock of the application held.  Without a
\* directory to move, or to the directory in use, the target is only created
\* and configured.
Begin(p, m) ==
    /\ pc = "idle" /\ runs < MaxRuns
    /\ runs' = runs + 1
    /\ mode' = m /\ from' = config /\ to' = p /\ hashes' = Nothing
    /\ stage' = Nothing
    /\ IF config \in exists /\ config # p
       THEN /\ FreeTarget(p)
            /\ before' = Inventory(disk[config])
            /\ todo' = Present(disk[config])
            /\ pc' = IF m = "copy" THEN "copy" ELSE "hash"
            /\ exists' = exists
       ELSE /\ before' = Inventory(Nothing)
            /\ todo' = {}
            /\ pc' = "switch"
            /\ exists' = exists \union {p}
    /\ UNCHANGED <<disk, config, ghosts, troubles>>

-----------------------------------------------------------------------------
(* Copying: stage, verify, compare, rename *)

\* A file is copied and the text that was read is hashed; the disk may keep
\* something else.
CopyFile(f) ==
    /\ pc = "copy" /\ Takes(f)
    /\ hashes' = [hashes EXCEPT ![f] = disk[from][f]]
    /\ \/ /\ stage' = [stage EXCEPT ![f] = disk[from][f]]
          /\ UNCHANGED troubles
       \/ /\ Trouble
          /\ stage' = [stage EXCEPT ![f] = Broken(disk[from][f])]
    /\ UNCHANGED <<exists, disk, config, mode, from, to, before, ghosts, runs>>

\* The staged copy has the text that was hashed.
SameText(f) == stage[f] = hashes[f]

VerifyFile(f) ==
    /\ pc = "verify" /\ Takes(f)
    /\ SameText(f)
    /\ UNCHANGED <<data, config, migration, ghosts, counters>>

\* Defect: the source is not looked at again.
NotCompared == TRUE

\* The source directory is still as it was seen first.
SourceUnchanged == Inventory(disk[from]) = before

CompareSource ==
    /\ pc = "compare"
    /\ SourceUnchanged
    /\ Goes("publish")
    /\ UNCHANGED <<data, config, todo, ghosts, counters>>

\* The empty target is removed and the stage renamed to it.
Publish ==
    /\ pc = "publish"
    /\ FreeTarget(to)
    /\ exists' = exists \union {to}
    /\ disk' = [disk EXCEPT ![to] = stage]
    /\ stage' = Nothing
    /\ Goes("switch")
    /\ UNCHANGED <<config, todo, ghosts, counters>>

-----------------------------------------------------------------------------
(* Cutting: hash, rename or copy and delete, check *)

HashFile(f) ==
    /\ pc = "hash" /\ Takes(f)
    /\ hashes' = [hashes EXCEPT ![f] = disk[from][f]]
    /\ UNCHANGED <<data, config, mode, from, to, before, ghosts, counters>>

\* shutil.move renames the directory, when both places are on one file system.
Rename ==
    /\ pc = "cut" /\ FreeTarget(to)
    /\ exists' = (exists \ {from}) \union {to}
    /\ disk' = [disk EXCEPT ![to] = disk[from], ![from] = Nothing]
    /\ cut' = Files
    /\ Goes("check")
    /\ UNCHANGED <<stage, config, todo, latest, stray, late, counters>>

\* Otherwise it copies the files that are there now.
Carry ==
    /\ pc = "cut" /\ FreeTarget(to)
    /\ exists' = exists \union {to}
    /\ todo' = Present(disk[from])
    /\ Goes("carry")
    /\ UNCHANGED <<disk, stage, config, ghosts, counters>>

CarryFile(f) ==
    /\ pc = "carry" /\ Takes(f)
    /\ \/ /\ disk' = [disk EXCEPT ![to][f] = disk[from][f]]
          /\ UNCHANGED <<late, troubles>>
       \/ /\ Trouble
          /\ disk' = [disk EXCEPT ![to][f] = Broken(disk[from][f])]
          /\ late' = late \union {f}
    /\ UNCHANGED <<exists, stage, config, migration, latest, stray, cut, runs>>

\* rmtree of the directory that was copied.
DropFile(f) ==
    /\ pc = "drop" /\ Takes(f)
    /\ disk' = [disk EXCEPT ![from][f] = NoFile]
    /\ cut' = cut \union {f}
    /\ UNCHANGED <<exists, stage, config, migration, latest, stray, late, counters>>

\* Defect: the moved files are compared by their times alone.
TimesOnly == Inventory(disk[to]) = before

\* The files that arrived are those that were hashed.
Arrived == Inventory(disk[to]) = before /\ disk[to] = hashes

CheckMoved ==
    /\ pc = "check"
    /\ Arrived
    /\ Goes("switch")
    /\ UNCHANGED <<data, config, todo, ghosts, counters>>

-----------------------------------------------------------------------------
(* Switching the configuration and removing the old directory *)

\* xalling-paths.toml is replaced atomically.
Switch ==
    /\ pc = "switch"
    /\ config' = to
    /\ cut' = {f \in cut : disk[to][f] # Whole(latest[f])}
    /\ Goes(IF mode = "copy" /\ from \in exists /\ from # to THEN "clean" ELSE "idle")
    /\ UNCHANGED <<data, todo, latest, stray, late, counters>>

\* Defect: the old directory is removed as it is.
NoSecondLook == TRUE

\* The old directory still matches the copy.
StillMatches == Inventory(disk[from]) = before

\* Only then it is removed; otherwise it stays, with a warning.
SecondLook ==
    /\ pc = "clean"
    /\ IF StillMatches
       THEN Goes("remove") /\ todo' = Present(disk[from])
       ELSE Goes("idle") /\ todo' = {}
    /\ UNCHANGED <<data, config, ghosts, counters>>

RemoveFile(f) ==
    /\ pc = "remove" /\ Takes(f)
    /\ disk' = [disk EXCEPT ![from][f] = NoFile]
    /\ UNCHANGED <<exists, stage, config, migration, ghosts, counters>>

\* Defect: the directory counts as removed though a file was added to it.
NotLookedAt == TRUE

\* rmtree has emptied the directory.
Emptied == Present(disk[from]) = {}

\* Every file of a step was taken: the next step begins.
EndOfFiles ==
    /\ todo = {}
    /\ \/ /\ pc = "copy" /\ Goes("verify")
          /\ todo' = Present(stage) /\ exists' = exists
       \/ /\ pc = "verify" /\ Goes("compare")
          /\ UNCHANGED <<todo, exists>>
       \/ /\ pc = "hash" /\ Goes("cut")
          /\ UNCHANGED <<todo, exists>>
       \/ /\ pc = "carry" /\ Goes("drop")
          /\ todo' = Present(disk[from]) /\ exists' = exists
       \/ /\ pc \in {"drop", "remove"} /\ Emptied
          /\ Goes(IF pc = "drop" THEN "check" ELSE "idle")
          /\ exists' = exists \ {from} /\ todo' = todo
    /\ UNCHANGED <<disk, stage, config, ghosts, counters>>

-----------------------------------------------------------------------------
(* Errors, crashes and other programs *)

\* A copy does not verify, the source was changed, what arrived is wrong, the
\* target or the old directory is not empty.
Refused ==
    \/ pc = "verify" /\ \E f \in todo : ~SameText(f)
    \/ pc = "compare" /\ ~SourceUnchanged
    \/ pc = "check" /\ ~Arrived
    \/ pc \in {"publish", "cut"} /\ ~FreeTarget(to)
    \/ pc \in {"drop", "remove"} /\ todo = {} /\ ~Emptied

\* What is in the configured directory after all is no stray.
Ends ==
    /\ pc' = "idle" /\ todo' = {}
    /\ stray' = {f \in stray : disk[config][f] # Whole(latest[f])}

\* Any step may raise, too; the staging directory is removed, what was moved
\* stays where it is.
Raise ==
    /\ pc # "idle"
    /\ IF Refused THEN UNCHANGED troubles ELSE Trouble
    /\ Ends
    /\ stage' = Nothing
    /\ UNCHANGED <<exists, disk, config, migration, latest, late, cut, runs>>

\* The process dies; the file that is being copied may be broken.  The staging
\* directory stays, but no other migration uses it.
Crash ==
    /\ pc # "idle" /\ Trouble
    /\ Ends
    /\ \/ UNCHANGED disk
       \/ /\ pc = "carry"
          /\ \E f \in todo :
                disk' = [disk EXCEPT ![to][f] = Broken(disk[from][f])]
    /\ UNCHANGED <<exists, stage, config, migration, latest, late, cut, runs>>

\* The application writes a file in the directory that is configured, and
\* creates the directory.
AppWrites(f) ==
    /\ pc = "idle" /\ latest[f] < MaxVersion
    /\ latest' = [latest EXCEPT ![f] = @ + 1]
    /\ disk' = [disk EXCEPT ![config][f] = Whole(latest[f] + 1)]
    /\ exists' = exists \union {config}
    /\ stray' = stray \ {f} /\ late' = late \ {f} /\ cut' = cut \ {f}
    /\ UNCHANGED <<stage, config, pc, migration, todo, counters>>

\* The migration looks at the file no more before the directory is removed.
Unguarded(f) ==
    \/ pc \in {"drop", "remove"}
    \/ pc = "carry" /\ f \notin todo

\* Another program changes a file of the directory that is migrated.
OtherWrites(f) ==
    /\ pc # "idle" /\ from \in exists /\ from # to
    /\ latest[f] < MaxVersion
    /\ latest' = [latest EXCEPT ![f] = @ + 1]
    /\ disk' = [disk EXCEPT ![from][f] = Whole(latest[f] + 1)]
    /\ stray' = IF pc \in {"publish", "switch", "clean", "remove"}
                THEN stray \union {f} ELSE stray
    /\ late' = IF Unguarded(f) THEN late \union {f} ELSE late
    /\ UNCHANGED <<exists, stage, config, pc, migration, todo, cut, counters>>

Copying == \E f \in Files : CopyFile(f) \/ VerifyFile(f)
Cutting == \E f \in Files : HashFile(f) \/ CarryFile(f) \/ DropFile(f)
Removing == SecondLook \/ \E f \in Files : RemoveFile(f)

Next ==
    \/ \E p \in Places, m \in Modes : Begin(p, m)
    \/ Copying \/ CompareSource \/ Publish
    \/ Cutting \/ Rename \/ Carry \/ CheckMoved
    \/ Switch \/ Removing \/ EndOfFiles
    \/ Raise \/ Crash
    \/ \E f \in Files : AppWrites(f) \/ OtherWrites(f)

Spec == Init /\ [][Next]_vars

-----------------------------------------------------------------------------
(* What the migration guarantees *)

\* Whatever goes wrong and whenever, the configured directory has the last text
\* of every file, but for what a cutting migration has begun to take away and
\* what another program wrote into the old directory after it was compared with
\* the copy.  A crash, an error, a changed source or a bad copy at any step never
\* leaves the application with less than all of its data.
ConfiguredIsWhole ==
    \A f \in Files \ (stray \union late \union cut) : disk[config][f] = Whole(latest[f])

\* No file is lost, in either mode: its last text is whole in some directory,
\* unless another program wrote it, or the disk broke it, while the old
\* directory was already being deleted or cut across file systems.
NothingLost ==
    \A f \in Files \ late : \E p \in Places : disk[p][f] = Whole(latest[f])

\* The configuration is switched to a directory only when every file that the
\* migration found in the old one is there, with the text that was read and the
\* time that was seen first, in either mode.
SwitchIsVerified ==
    [][config' # config =>
          \A f \in Files : before[f] # 0 =>
              disk[to][f] = hashes[f] /\ hashes[f].mtime = before[f]]_vars

=============================================================================
