---------------------------- MODULE FileChanges ----------------------------
(***************************************************************************)
(* TurnFileChanges of claude_chat_client/file_changes.py: what one turn    *)
(* changed in every file, gathered from the results of its file tools.     *)
(*                                                                         *)
(* A content stands for a text; Unknown is a text that a result does not   *)
(* give, that is too large, or that cannot be computed from the edit.      *)
(* Patches and the count of lines are left out.                            *)
(***************************************************************************)
EXTENDS Naturals, Sequences, FiniteSets

CONSTANTS Files, Unknown

FileTools == {"Write", "Edit", "NotebookEdit"}

Untouched == [touched |-> FALSE]

NoChanges == [files |-> [f \in Files |-> Untouched], seen |-> {}]

\* The first edit of a file gives the state before; every later one must start
\* where the last one ended, or the change is only partly known.
FirstEdit(e) ==
    [touched |-> TRUE, before |-> e.before, after |-> e.after, created |-> e.created,
     complete |-> e.before # Unknown /\ e.after # Unknown, restorable |-> e.restorable]

\* Defect: a later edit is not compared with the one before it.
UncheckedEdit(s, e) ==
    [s EXCEPT !.complete = @ /\ e.after # Unknown,
              !.after = e.after, !.restorable = @ /\ e.restorable]

LaterEdit(s, e) ==
    [s EXCEPT !.complete = @ /\ e.before = s.after /\ e.after # Unknown,
              !.after = e.after, !.restorable = @ /\ e.restorable]

\* Every tool call counts once.
ApplyEdit(c, name, e) ==
    IF name \notin FileTools \/ e.tool \in c.seen THEN c
    ELSE [seen  |-> c.seen \union {e.tool},
          files |-> [c.files EXCEPT ![e.file] =
                        IF @ = Untouched THEN FirstEdit(e) ELSE LaterEdit(@, e)]]

\* What is shown: not a file that is known to be as it was.
Snapshot(c) ==
    {<<f, c.files[f]>> : f \in
        {g \in Files : /\ c.files[g] # Untouched
                       /\ ~(/\ c.files[g].complete /\ ~c.files[g].created
                            /\ c.files[g].before = c.files[g].after)}}

=============================================================================
