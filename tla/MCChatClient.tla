---------------------------- MODULE MCChatClient ----------------------------
(* Small instances of ChatClient for TLC: two turns, a permission request  *)
(* and two background tasks to choose from.  The configurations Client*.cfg *)
(* take the parts of the client that interact in what they check.          *)
EXTENDS ChatClient

CONSTANTS t1, t2, r1, k1, k2

=============================================================================
