---------------------------- MODULE ChatService -----------------------------
(***************************************************************************)
(* backend/service/chat/service.py: the registry of retained Claude        *)
(* clients (_active_chats) and the requests that work on it, every one an  *)
(* asyncio task of its own.  A step is what a request does between two     *)
(* suspension points; what it read before one may be stale after it.       *)
(*                                                                         *)
(* A chat (_ActiveChat with its ClaudeChatClient) is named after the       *)
(* request that opened it.  The client is what ChatClient promises: turns  *)
(* are serialized, close waits for the running turn, and any call connects *)
(* a client that has no connection, also one that was closed.              *)
(***************************************************************************)
CONSTANTS
    Calls,      \* the requests, each made once
    Kind,       \* what every request asks for
    Session,    \* the session it is about
    Config,     \* the model configuration it would connect with
    Workspace   \* the project folder of every session

Sends == {"send", "slash", "scheduled"}
Kinds == Sends \cup {"open", "ask", "close", "rewind"}

Sessions   == DOMAIN Workspace
Workspaces == {Workspace[s] : s \in Sessions}
Configs    == {Config[c] : c \in Calls}

ASSUME ServiceAssumption ==
    /\ "none" \notin Calls
    /\ Kind \in [Calls -> Kinds]
    /\ Session \in [Calls -> Sessions]
    /\ Config \in [Calls -> Configs]

VARIABLES
    pc,         \* phase of every request
    wanted,     \* the config a request connects with
    chat,       \* the chat it works on
    victim,     \* the chat it is closing
    retained,   \* _active_chats: the chat of every session
    config,     \* the config of every chat
    running,    \* the chats marked running
    conn,       \* the chats whose client is connected
    shut,       \* the chats whose resources were handed to aclose
    turn,       \* the request whose turn holds a client's turn lock
    restoring   \* _restoring_projects

requests == <<pc, wanted, chat, victim>>
chats    == <<retained, config, running, shut>>
clients  == <<conn, turn>>
vars     == <<requests, chats, clients, restoring>>

-----------------------------------------------------------------------------
Phases == {"idle", "provider", "mode", "evict", "create", "info", "queued",
           "running", "over", "release", "finish", "history", "closing",
           "control", "restore", "done", "refused"}

TypeOK ==
    /\ pc \in [Calls -> Phases]
    /\ wanted \in [Calls -> Configs]
    /\ chat \in [Calls -> Calls \cup {"none"}]
    /\ victim \in [Calls -> Calls \cup {"none"}]
    /\ retained \in [Sessions -> Calls \cup {"none"}]
    /\ config \in [Calls -> Configs]
    /\ running \subseteq Calls /\ conn \subseteq Calls /\ shut \subseteq Calls
    /\ turn \in [Calls -> Calls \cup {"none"}]
    /\ restoring \subseteq Workspaces

Init ==
    /\ pc = [c \in Calls |-> "idle"]
    /\ wanted = Config
    /\ chat = [c \in Calls |-> "none"]
    /\ victim = [c \in Calls |-> "none"]
    /\ retained = [s \in Sessions |-> "none"]
    /\ config = Config
    /\ running = {} /\ conn = {} /\ shut = {}
    /\ turn = [c \in Calls |-> "none"]
    /\ restoring = {}

-----------------------------------------------------------------------------
(* Parts of steps *)

GoTo(c, phase) == pc' = [pc EXCEPT ![c] = phase]

Active(c) == retained[Session[c]]

\* Defect: the session is locked while its files are restored, not the folder.
SessionLocked(c) == Session[c]
Project(c) == Workspace[Session[c]]

\* The workspace of a request is being restored.
Restoring(c) == Project(c) \in restoring

\* A chat of the workspace is marked running.
WorkspaceRuns(w) ==
    \E s \in Sessions : Workspace[s] = w /\ retained[s] \in running

\* The control methods of a client open its connection if it has none.
Connect(k) == conn' = conn \cup {k}

\* The end of _close_active_chat: only the chat that was closed is forgotten.
Forget(c, k) ==
    retained' = IF Active(c) = k THEN [retained EXCEPT ![Session[c]] = "none"]
                ELSE retained

\* _close_active_chat: the first caller's aclose waits for the client, for a
\* later one nothing is left to close.  Whether the close raises or not, the
\* chat is forgotten; a request that was to replace it fails.
CloseChat(c, k, closing, next) ==
    /\ victim' = [victim EXCEPT ![c] = k]
    /\ IF k \in shut
       THEN Forget(c, k) /\ GoTo(c, next) /\ UNCHANGED shut
       ELSE shut' = shut \cup {k} /\ GoTo(c, closing) /\ UNCHANGED retained

ChatClosed(c, closing, next) ==
    /\ pc[c] = closing
    /\ turn[victim[c]] = "none"
    /\ conn' = conn \ {victim[c]}
    /\ Forget(c, victim[c])
    /\ GoTo(c, next)
    /\ UNCHANGED <<wanted, chat, victim, config, running, shut, turn, restoring>>

\* Defect: whether the workspace is restored is only looked at before the
\* client is there.
NotAskedAgain(c) == FALSE
RefusedNow(c) == Restoring(c)

\* send_chat_message, from its last check on: no step can come between the
\* check and the mark.
Submit(c, k) ==
    /\ GoTo(c, IF RefusedNow(c) THEN "refused" ELSE "queued")
    /\ running' = IF RefusedNow(c) THEN running ELSE running \cup {k}

\* What follows _get_or_create_chat without a suspension.
Proceed(c, k) ==
    \/ Kind[c] \in {"send", "scheduled"} /\ Submit(c, k)
    \/ Kind[c] = "slash" /\ GoTo(c, "info") /\ UNCHANGED running
    \/ Kind[c] = "open" /\ GoTo(c, "history") /\ UNCHANGED running

-----------------------------------------------------------------------------
(* send_chat_message and _run_scheduled_task *)

Send(c) ==
    /\ Kind[c] \in Sends /\ pc[c] = "idle"
    /\ GoTo(c, IF Active(c) \in running \/ Restoring(c) THEN "refused" ELSE "provider")
    /\ UNCHANGED <<wanted, chat, victim, chats, clients, restoring>>

\* The selected model no longer exists, or the workspace is restored now.
NoProvider(c) ==
    /\ pc[c] = "provider"
    /\ GoTo(c, "refused")
    /\ UNCHANGED <<wanted, chat, victim, chats, clients, restoring>>

\* _get_or_create_chat, up to its first suspension.
Reuse(c) ==
    /\ pc[c] = "provider" /\ ~Restoring(c)
    /\ Active(c) # "none" /\ config[Active(c)] = wanted[c]
    /\ chat' = [chat EXCEPT ![c] = Active(c)]
    /\ \/ Proceed(c, Active(c))
       \/ GoTo(c, "mode") /\ UNCHANGED running
    /\ UNCHANGED <<wanted, victim, retained, config, shut, clients, restoring>>

Evict(c) ==
    /\ pc[c] = "provider" /\ ~Restoring(c)
    /\ Active(c) # "none" /\ config[Active(c)] # wanted[c]
    /\ CloseChat(c, Active(c), "evict", "create")
    /\ UNCHANGED <<wanted, chat, config, running, clients, restoring>>

Create(c) ==
    /\ pc[c] = "provider" /\ ~Restoring(c)
    /\ Active(c) = "none"
    /\ GoTo(c, "create")
    /\ UNCHANGED <<wanted, chat, victim, chats, clients, restoring>>

\* The permission mode of the retained client was changed.
ModeSet(c) ==
    /\ pc[c] = "mode"
    /\ Connect(chat[c])
    /\ Proceed(c, chat[c])
    /\ UNCHANGED <<wanted, chat, victim, retained, config, shut, turn, restoring>>

\* The new client is connected and registered, whatever is registered now.
Register(c) ==
    /\ pc[c] = "create"
    /\ Connect(c)
    /\ retained' = [retained EXCEPT ![Session[c]] = c]
    /\ config' = [config EXCEPT ![c] = wanted[c]]
    /\ chat' = [chat EXCEPT ![c] = c]
    /\ Proceed(c, c)
    /\ UNCHANGED <<wanted, victim, shut, turn, restoring>>

ConnectFails(c) ==
    /\ pc[c] \in {"create", "mode"}
    /\ GoTo(c, "refused")
    /\ UNCHANGED <<wanted, chat, victim, chats, clients, restoring>>

\* The commands of the server are known; a command that is not allowed raises.
CommandChecked(c) ==
    /\ pc[c] = "info"
    /\ Connect(chat[c])
    /\ \/ Submit(c, chat[c])
       \/ GoTo(c, "refused") /\ UNCHANGED running
    /\ UNCHANGED <<wanted, chat, victim, retained, config, shut, turn, restoring>>

-----------------------------------------------------------------------------
(* client.send *)

TurnStarts(c) ==
    /\ pc[c] = "queued" /\ turn[chat[c]] = "none"
    /\ turn' = [turn EXCEPT ![chat[c]] = c]
    /\ Connect(chat[c])
    /\ GoTo(c, "running")
    /\ UNCHANGED <<wanted, chat, victim, chats, restoring>>

\* Defect: the turn lock is kept until the request is over.
LockKept(c) == turn
LockReleased(c) == [turn EXCEPT ![chat[c]] = "none"]

\* The turn completed, failed or was stopped.
TurnEnds(c) ==
    /\ pc[c] = "running"
    /\ turn' = LockReleased(c)
    /\ GoTo(c, "over")
    /\ UNCHANGED <<wanted, chat, victim, chats, conn, restoring>>

\* on_complete of a scheduled task closes the client retained for its session.
ReleaseScheduled(c) ==
    /\ pc[c] = "over"
    /\ IF Kind[c] = "scheduled" /\ Active(c) # "none"
       THEN CloseChat(c, Active(c), "release", "finish")
       ELSE GoTo(c, "finish") /\ UNCHANGED <<victim, retained, shut>>
    /\ UNCHANGED <<wanted, chat, config, running, clients, restoring>>

\* Defect: the mark is never taken away.
NoClient(c)  == {}
OwnClient(c) == {chat[c]} \cap {Active(c)}

\* The finally of send_chat_message.
Finish(c) ==
    /\ pc[c] = "finish"
    /\ running' = running \ OwnClient(c)
    /\ GoTo(c, "done")
    /\ UNCHANGED <<wanted, chat, victim, retained, config, shut, clients, restoring>>

-----------------------------------------------------------------------------
(* get_chat_session, get_chat_server_info, set_chat_permission_mode *)

\* The connection of a retained chat keeps its own configuration.
OpenSession(c) ==
    /\ Kind[c] = "open" /\ pc[c] = "idle"
    /\ wanted' = IF Active(c) = "none" THEN wanted
                 ELSE [wanted EXCEPT ![c] = config[Active(c)]]
    /\ GoTo(c, "provider")
    /\ UNCHANGED <<chat, victim, chats, clients, restoring>>

\* The client answers a preview of the checkpoints in the history or is asked
\* for its commands, or nothing is left to ask.
ReadHistory(c) ==
    /\ pc[c] = "history"
    /\ conn' \in {conn, conn \cup {chat[c]}}
    /\ GoTo(c, "done")
    /\ UNCHANGED <<wanted, chat, victim, chats, turn, restoring>>

\* get_mcp_status, get_context_usage, reconnect_mcp_server and a mode change
\* ask the client they found, and only a client they found.
Ask(c) ==
    /\ Kind[c] = "ask" /\ pc[c] = "idle"
    /\ chat' = [chat EXCEPT ![c] = Active(c)]
    /\ GoTo(c, IF Active(c) = "none" THEN "refused" ELSE "control")
    /\ UNCHANGED <<wanted, victim, chats, clients, restoring>>

AskReturns(c) ==
    /\ pc[c] = "control"
    /\ Connect(chat[c])
    /\ GoTo(c, "done")
    /\ UNCHANGED <<wanted, chat, victim, chats, turn, restoring>>

-----------------------------------------------------------------------------
(* close_chat_client *)

Close(c) ==
    /\ Kind[c] = "close" /\ pc[c] = "idle"
    /\ IF Active(c) = "none" \/ Restoring(c) \/ Active(c) \in running
       THEN GoTo(c, "refused") /\ UNCHANGED <<victim, retained, shut>>
       ELSE CloseChat(c, Active(c), "closing", "done")
    /\ UNCHANGED <<wanted, chat, config, running, clients, restoring>>

-----------------------------------------------------------------------------
(* rewind_chat_files *)

\* Defect: only the session that is rewound is looked at, not its folder.
SessionIdle(c)   == ~Restoring(c) /\ Active(c) \notin running
WorkspaceIdle(c) == ~Restoring(c) /\ ~WorkspaceRuns(Project(c))

Rewind(c) ==
    /\ Kind[c] = "rewind" /\ pc[c] = "idle"
    /\ chat' = [chat EXCEPT ![c] = Active(c)]
    /\ IF Active(c) # "none" /\ WorkspaceIdle(c)
       THEN /\ restoring' = restoring \cup {Project(c)}
            /\ GoTo(c, "restore")
       ELSE GoTo(c, "refused") /\ UNCHANGED restoring
    /\ UNCHANGED <<wanted, victim, chats, clients>>

\* The preview or the rewind failed, or the files were restored.
RewindReturns(c) ==
    /\ pc[c] = "restore" /\ turn[chat[c]] = "none"
    /\ conn' \in {conn, conn \cup {chat[c]}}
    /\ restoring' = restoring \ {Project(c)}
    /\ GoTo(c, "done")
    /\ UNCHANGED <<wanted, chat, victim, chats, turn>>

-----------------------------------------------------------------------------
Connecting(c) ==
    \/ NoProvider(c) \/ Reuse(c) \/ Evict(c) \/ Create(c)
    \/ ChatClosed(c, "evict", "create") \/ ChatClosed(c, "evict", "refused")
    \/ ModeSet(c) \/ Register(c) \/ ConnectFails(c)

Turn(c) ==
    \/ CommandChecked(c) \/ TurnStarts(c)
    \/ ReleaseScheduled(c) \/ ChatClosed(c, "release", "finish") \/ Finish(c)

Start(c) == Send(c) \/ OpenSession(c) \/ Ask(c) \/ Close(c) \/ Rewind(c)

Continue(c) ==
    \/ Connecting(c) \/ Turn(c)
    \/ ReadHistory(c) \/ AskReturns(c)
    \/ ChatClosed(c, "closing", "done") \/ RewindReturns(c)

Next == \E c \in Calls : Start(c) \/ Continue(c) \/ TurnEnds(c)

Spec == Init /\ [][Next]_vars

\* A request that can go on does, and the lock of a client is granted to
\* whoever waits for it.  Nothing says that a turn ends: the model is asked,
\* the user has to decide, and some turns hang (ChatClient!EveryStoppedTurnEnds).
FairSpec == Spec /\ \A c \in Calls : SF_vars(Continue(c))

-----------------------------------------------------------------------------
(* Safety *)

\* The request is between its mark and its finally.
InTurn(c) == pc[c] \in {"queued", "running", "over", "release", "finish"}

\* Files of a workspace are restored by one request at a time and never while
\* a retained chat of the workspace is marked running, whatever the requests
\* were waiting for when they checked.
RestoreIsExclusive ==
    /\ \A w \in restoring : ~WorkspaceRuns(w)
    /\ \A c, d \in Calls :
         pc[c] = "restore" /\ pc[d] = "restore" /\ Project(c) = Project(d)
             => c = d
    /\ restoring = {Project(c) : c \in {d \in Calls : pc[d] = "restore"}}

\* No retained chat stays marked running without a request that will take the
\* mark away: else every send, close and restore would be refused for ever.
MarkHasOwner ==
    \A s \in Sessions :
        retained[s] \in running =>
            \E c \in Calls : InTurn(c) /\ chat[c] = retained[s]

\* A running turn is the turn of a retained chat that is marked running: it
\* can be stopped, it is listed, and close and rewind refuse.
TurnIsSeen ==
    \A c \in Calls :
        pc[c] = "running" => Active(c) = chat[c] /\ chat[c] \in running

\* Every connected client is retained, or a request is about to close it: no
\* process is left behind that shutdown_clients does not know of.
ConnectedIsRetained ==
    \A k \in conn :
        \/ \E s \in Sessions : retained[s] = k
        \/ \E c \in Calls : victim[c] = k /\ pc[c] \in {"evict", "release", "closing"}

-----------------------------------------------------------------------------
(* Liveness *)

\* If no turn runs for ever every request returns, also those that close or use
\* a client while a turn of it runs, or while the on_complete of a scheduled
\* task closes it: no request waits for another that waits for it.
TurnsEnd == \A c \in Calls : []<>(pc[c] # "running")

RequestsReturn ==
    TurnsEnd =>
        \A c \in Calls : (pc[c] # "idle") ~> (pc[c] \in {"done", "refused"})

=============================================================================
