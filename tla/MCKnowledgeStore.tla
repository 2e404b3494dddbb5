-------------------------- MODULE MCKnowledgeStore --------------------------
(* Small instances of KnowledgeStore for TLC: the second version of a file   *)
(* is shorter than the first.                                                *)
EXTENDS KnowledgeStore

CONSTANTS manual, notes

PiecesOf == [v \in Versions |-> IF v = 1 THEN 2 ELSE 1]

=============================================================================
