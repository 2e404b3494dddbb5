--------------------------- MODULE MCDataMigration ---------------------------
(* A small instance of DataMigration for TLC: the directory in use, a new     *)
(* place for it, and two files.                                              *)
EXTENDS DataMigration

CONSTANTS old, new, chats, settings

=============================================================================
