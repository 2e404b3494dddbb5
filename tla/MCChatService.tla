---------------------------- MODULE MCChatService ---------------------------
(* Small instances of ChatService for TLC: requests on two sessions of one   *)
(* project folder.  The configurations Service*.cfg choose the requests.     *)
EXTENDS ChatService, TLC

CONSTANTS s1, s2, folder, m1, m2,
          slash, send, scheduled, open, ask, close, rewind, restore

\* For the first session two prompts, a task that fires, and a client that is
\* asked, closed and rewound; for the second one that is opened and rewound.
AllKinds ==
    slash :> "slash" @@ send :> "send" @@ open :> "open" @@ ask :> "ask"
    @@ close :> "close" @@ rewind :> "rewind"
    @@ scheduled :> "scheduled" @@ restore :> "rewind"

KindOf      == [c \in Calls |-> AllKinds[c]]
SessionOf   == [c \in Calls |-> IF c \in {open, restore} THEN s2 ELSE s1]
ConfigOf    == [c \in Calls |-> IF c = send THEN m2 ELSE m1]
WorkspaceOf == s1 :> folder @@ s2 :> folder

=============================================================================
