-------------------------- MODULE ChatServiceProofs -------------------------
(* Theorems about ChatService for any number of requests and sessions.       *)
EXTENDS ChatService, TLAPS

\* A request that has not registered a chat.
Fresh == {"idle", "provider", "evict", "create"}

\* The registry names a chat only after its opener registered it, and under
\* its own session; a request works only on chats of its session.
Registered ==
    /\ \A k \in Calls : chat[k] = k => pc[k] \notin Fresh
    /\ \A s \in Sessions : retained[s] # "none" =>
         chat[retained[s]] = retained[s] /\ Session[retained[s]] = s
    /\ \A k \in running : chat[k] = k
    /\ \A c \in Calls : chat[c] # "none" =>
         chat[chat[c]] = chat[c] /\ Session[chat[c]] = Session[c]

\* A request that asks or uses a client has one.
HasChat ==
    \A c \in Calls :
        pc[c] \in {"mode", "info", "history", "control", "restore"} \/ InTurn(c)
            => chat[c] # "none"

\* The inductive invariant behind the two safety properties.
Registry == Registered /\ HasChat /\ RestoreIsExclusive /\ MarkHasOwner

\* The phases in which a request counts on its chat, and those of a turn.
Holding == {"mode", "info", "history", "control", "restore"}
InTurnPhases == {"queued", "running", "over", "release", "finish"}

-----------------------------------------------------------------------------
(* Type correctness *)

LEMMA SessionType ==
    ASSUME TypeOK, NEW c \in Calls
    PROVE  /\ Session[c] \in Sessions
           /\ Active(c) \in Calls \cup {"none"}
           /\ Project(c) \in Workspaces
           /\ wanted[c] \in Configs
BY ServiceAssumption DEF TypeOK, Active, Project, Workspaces

LEMMA CloseChatType ==
    ASSUME TypeOK, NEW c \in Calls, NEW k \in Calls,
           NEW closing \in Phases, NEW next \in Phases,
           CloseChat(c, k, closing, next)
    PROVE  /\ pc' \in [Calls -> Phases]
           /\ victim' \in [Calls -> Calls \cup {"none"}]
           /\ retained' \in [Sessions -> Calls \cup {"none"}]
           /\ shut' \subseteq Calls
<1>1. pc' \in [Calls -> Phases] /\ victim' \in [Calls -> Calls \cup {"none"}]
  BY DEF CloseChat, GoTo, TypeOK
<1>2. retained' \in [Sessions -> Calls \cup {"none"}] /\ shut' \subseteq Calls
  BY DEF CloseChat, Forget, TypeOK
<1> QED BY <1>1, <1>2

LEMMA ProceedType ==
    ASSUME TypeOK, NEW c \in Calls, NEW k \in Calls, Proceed(c, k)
    PROVE  pc' \in [Calls -> Phases] /\ running' \subseteq Calls
BY DEF Proceed, Submit, GoTo, Phases, TypeOK

LEMMA ConnectingType ==
    ASSUME TypeOK, HasChat, NEW c \in Calls, Connecting(c)
    PROVE  TypeOK'
<1> USE DEF chats, clients
<1>0. /\ Session[c] \in Sessions /\ Active(c) \in Calls \cup {"none"}
      /\ Project(c) \in Workspaces /\ wanted[c] \in Configs
      /\ chat[c] \in Calls \cup {"none"} /\ victim[c] \in Calls \cup {"none"}
  BY SessionType DEF TypeOK
<1>1. CASE NoProvider(c) \/ Create(c) \/ ConnectFails(c)
  BY <1>1 DEF NoProvider, Create, ConnectFails, GoTo, TypeOK, Phases
<1>2. CASE Reuse(c)
  <2>1. Active(c) \in Calls
    BY <1>0, <1>2 DEF Reuse
  <2>2. pc' \in [Calls -> Phases] /\ running' \subseteq Calls
    BY <1>2, <2>1, ProceedType DEF Reuse, GoTo, TypeOK, Phases
  <2> QED BY <1>2, <2>1, <2>2 DEF Reuse, TypeOK
<1>3. CASE Evict(c)
  <2>1. Active(c) \in Calls
    BY <1>0, <1>3 DEF Evict
  <2> QED BY <1>3, <2>1, CloseChatType DEF Evict, TypeOK, Phases
<1>4. CASE ChatClosed(c, "evict", "create") \/ ChatClosed(c, "evict", "refused")
  BY <1>0, <1>4 DEF ChatClosed, Forget, GoTo, TypeOK, Phases
<1>5. CASE ModeSet(c)
  <2>1. chat[c] \in Calls
    BY <1>0, <1>5 DEF ModeSet, HasChat
  <2> QED BY <1>5, <2>1, ProceedType DEF ModeSet, Connect, TypeOK
<1>6. CASE Register(c)
  BY <1>0, <1>6, ProceedType DEF Register, Connect, TypeOK
<1> QED BY <1>1, <1>2, <1>3, <1>4, <1>5, <1>6 DEF Connecting

LEMMA TurnType ==
    ASSUME TypeOK, HasChat, NEW c \in Calls, Turn(c) \/ TurnEnds(c)
    PROVE  TypeOK'
<1> USE DEF chats, clients
<1>0. /\ Session[c] \in Sessions /\ Active(c) \in Calls \cup {"none"}
      /\ chat[c] \in Calls \cup {"none"} /\ victim[c] \in Calls \cup {"none"}
  BY SessionType DEF TypeOK
<1>1. CASE CommandChecked(c)
  <2>1. chat[c] \in Calls
    BY <1>0, <1>1 DEF CommandChecked, HasChat
  <2> QED BY <1>1, <2>1 DEF CommandChecked, Submit, Connect, GoTo, TypeOK, Phases
<1>2. CASE TurnStarts(c) \/ TurnEnds(c)
  <2>1. chat[c] \in Calls
    BY <1>0, <1>2 DEF TurnStarts, TurnEnds, InTurn, HasChat
  <2> QED BY <1>2, <2>1 DEF TurnStarts, TurnEnds, LockReleased, Connect, GoTo, TypeOK, Phases
<1>3. CASE ReleaseScheduled(c)
  <2>1. CASE Kind[c] = "scheduled" /\ Active(c) # "none"
    <3>1. Active(c) \in Calls
      BY <1>0, <2>1
    <3> QED BY <1>3, <2>1, <3>1, CloseChatType DEF ReleaseScheduled, TypeOK, Phases
  <2>2. CASE ~(Kind[c] = "scheduled" /\ Active(c) # "none")
    BY <1>3, <2>2 DEF ReleaseScheduled, GoTo, TypeOK, Phases
  <2> QED BY <2>1, <2>2
<1>4. CASE ChatClosed(c, "release", "finish")
  BY <1>0, <1>4 DEF ChatClosed, Forget, GoTo, TypeOK, Phases
<1>5. CASE Finish(c)
  BY <1>0, <1>5 DEF Finish, OwnClient, GoTo, TypeOK, Phases
<1> QED BY <1>1, <1>2, <1>3, <1>4, <1>5 DEF Turn

LEMMA TypeStep ==
    ASSUME TypeOK, HasChat, NEW c \in Calls, Start(c) \/ Continue(c) \/ TurnEnds(c)
    PROVE  TypeOK'
<1> USE DEF chats, clients
<1>0. /\ Session[c] \in Sessions /\ Active(c) \in Calls \cup {"none"}
      /\ Project(c) \in Workspaces
      /\ chat[c] \in Calls \cup {"none"} /\ victim[c] \in Calls \cup {"none"}
  BY SessionType DEF TypeOK
<1>1. CASE Send(c) \/ Ask(c)
  BY <1>0, <1>1 DEF Send, Ask, GoTo, TypeOK, Phases
<1>2. CASE OpenSession(c)
  BY <1>0, <1>2 DEF OpenSession, GoTo, TypeOK, Phases
<1>3. CASE Close(c)
  <2>1. CASE Active(c) = "none" \/ Restoring(c) \/ Active(c) \in running
    BY <1>3, <2>1 DEF Close, GoTo, TypeOK, Phases
  <2>2. CASE ~(Active(c) = "none" \/ Restoring(c) \/ Active(c) \in running)
    <3>1. Active(c) \in Calls
      BY <1>0, <2>2
    <3> QED BY <1>3, <2>2, <3>1, CloseChatType DEF Close, TypeOK, Phases
  <2> QED BY <2>1, <2>2
<1>4. CASE Rewind(c)
  BY <1>0, <1>4 DEF Rewind, GoTo, TypeOK, Phases
<1>5. CASE ReadHistory(c) \/ AskReturns(c) \/ RewindReturns(c)
  <2>1. chat[c] \in Calls
    BY <1>0, <1>5 DEF ReadHistory, AskReturns, RewindReturns, HasChat
  <2> QED BY <1>5, <2>1 DEF ReadHistory, AskReturns, RewindReturns, Connect, GoTo,
                            TypeOK, Phases
<1>6. CASE ChatClosed(c, "closing", "done")
  BY <1>0, <1>6 DEF ChatClosed, Forget, GoTo, TypeOK, Phases
<1>7. CASE Connecting(c) \/ Turn(c) \/ TurnEnds(c)
  BY <1>7, ConnectingType, TurnType
<1> QED BY <1>1, <1>2, <1>3, <1>4, <1>5, <1>6, <1>7 DEF Start, Continue

-----------------------------------------------------------------------------
(* The registry *)

\* A step that leaves every mark, every workspace and every request's chat
\* alone keeps the registry, also one that forgets a chat.
LEMMA QuietStep ==
    ASSUME TypeOK, Registry, NEW c \in Calls, NEW p \in Phases,
           GoTo(c, p), UNCHANGED <<chat, running, restoring>>,
           \/ UNCHANGED retained
           \/ retained' = [retained EXCEPT ![Session[c]] = "none"],
           pc[c] # "restore", p # "restore",
           p \in Fresh => pc[c] \in Fresh,
           p \in Holding \cup InTurnPhases => chat[c] # "none",
           InTurn(c) => p \in InTurnPhases
    PROVE  Registry'
<1> USE DEF GoTo, TypeOK
<1>0. "none" \notin running /\ Session[c] \in Sessions
  BY ServiceAssumption, SessionType
<1>1. Registered'
  BY <1>0 DEF Registry, Registered
<1>2. HasChat'
  BY DEF Registry, HasChat, InTurn, Holding, InTurnPhases
<1>3. RestoreIsExclusive'
  <2>1. \A w : WorkspaceRuns(w)' => WorkspaceRuns(w)
    BY <1>0 DEF WorkspaceRuns
  <2> QED BY <2>1 DEF Registry, RestoreIsExclusive, Project
<1>4. MarkHasOwner'
  BY <1>0 DEF Registry, MarkHasOwner, InTurn, InTurnPhases
<1> QED BY <1>1, <1>2, <1>3, <1>4 DEF Registry

\* A request that takes a chat of its session, its own or one that is
\* registered, keeps the registry: it marks the chat only when it is queued
\* and the workspace is not restored.
LEMMA TakeStep ==
    ASSUME TypeOK, Registry, NEW c \in Calls, NEW k \in Calls, NEW p \in Phases,
           GoTo(c, p), UNCHANGED restoring, chat' = [chat EXCEPT ![c] = k],
           Session[k] = Session[c], chat'[k] = k, chat[c] # c \/ k = c,
           \/ UNCHANGED retained
           \/ retained' = [retained EXCEPT ![Session[c]] = k] /\ k \notin running,
           \/ UNCHANGED running
           \/ running' = running \cup {k} /\ p = "queued" /\ ~Restoring(c),
           pc[c] # "restore", p # "restore", p \notin Fresh, ~InTurn(c)
    PROVE  Registry'
<1> USE DEF GoTo, TypeOK
<1>0. Session[c] \in Sessions /\ "none" \notin Calls
  BY ServiceAssumption, SessionType
<1>1. Registered'
  <2>1. \A d \in Calls : chat[d] = d => chat'[d] = d
    OBVIOUS
  <2>2. \A d \in Calls : chat'[d] = d => pc'[d] \notin Fresh
    BY DEF Registry, Registered
  <2>3. \A s \in Sessions : retained'[s] # "none" =>
           chat'[retained'[s]] = retained'[s] /\ Session[retained'[s]] = s
    BY <1>0, <2>1 DEF Registry, Registered
  <2>4. \A d \in running' : chat'[d] = d
    BY <2>1 DEF Registry, Registered
  <2>5. \A d \in Calls : chat'[d] # "none" =>
           chat'[chat'[d]] = chat'[d] /\ Session[chat'[d]] = Session[d]
    BY <2>1 DEF Registry, Registered
  <2> QED BY <2>2, <2>3, <2>4, <2>5 DEF Registered
<1>2. HasChat'
  BY <1>0 DEF Registry, HasChat, InTurn
<1>3. RestoreIsExclusive'
  <2>1. \A w \in restoring : WorkspaceRuns(w)' => WorkspaceRuns(w)
    <3> SUFFICES ASSUME NEW w \in restoring, NEW s \in Sessions,
                        Workspace[s] = w, retained'[s] \in running'
                 PROVE  WorkspaceRuns(w)
      BY DEF WorkspaceRuns
    <3>1. retained'[s] # "none"
      BY <1>0
    <3>2. retained'[s] \in Calls /\ Session[retained'[s]] = s
      BY <1>1, <3>1 DEF Registered
    <3>3. CASE retained'[s] = k
      <4>1. s = Session[c]
        BY <3>2, <3>3
      <4>2. Restoring(c)
        BY <4>1 DEF Restoring, Project
      <4>3. k \in running /\ UNCHANGED retained
        BY <3>3, <4>2
      <4> QED BY <3>3, <4>3 DEF WorkspaceRuns
    <3>4. CASE retained'[s] # k
      <4>1. retained'[s] = retained[s]
        BY <1>0, <3>4
      <4> QED BY <3>4, <4>1 DEF WorkspaceRuns
    <3> QED BY <3>3, <3>4
  <2> QED BY <2>1 DEF Registry, RestoreIsExclusive, Project
<1>4. MarkHasOwner'
  <2> SUFFICES ASSUME NEW s \in Sessions, retained'[s] \in running'
               PROVE  \E d \in Calls : InTurn(d)' /\ chat'[d] = retained'[s]
    BY DEF MarkHasOwner
  <2>1. CASE running' = running \cup {k} /\ p = "queued" /\ retained'[s] = k
    <3>1. InTurn(c)' /\ chat'[c] = k
      BY <2>1 DEF InTurn
    <3> QED BY <2>1, <3>1
  <2>2. CASE ~(running' = running \cup {k} /\ p = "queued" /\ retained'[s] = k)
    <3>1. retained[s] = retained'[s] /\ retained[s] \in running
      BY <1>0, <2>2
    <3>2. PICK d \in Calls : InTurn(d) /\ chat[d] = retained[s]
      BY <3>1 DEF Registry, MarkHasOwner
    <3>3. d # c
      BY <3>2
    <3> QED BY <3>1, <3>2, <3>3 DEF InTurn
  <2> QED BY <2>1, <2>2
<1> QED BY <1>1, <1>2, <1>3, <1>4 DEF Registry

\* The chat registered for a session was opened by another request as long as
\* this one is fresh.
LEMMA FreshCall ==
    ASSUME TypeOK, Registry, NEW c \in Calls, pc[c] \in Fresh
    PROVE  /\ chat[c] # c
           /\ c \notin running
           /\ Active(c) # "none" =>
                /\ Active(c) \in Calls
                /\ Active(c) # c
                /\ chat[Active(c)] = Active(c)
                /\ Session[Active(c)] = Session[c]
BY SessionType DEF Registry, Registered, Active

\* Proceed ends in a phase of its own and marks the chat only when queued.
LEMMA ProceedGoes ==
    ASSUME NEW c \in Calls, NEW k \in Calls, Proceed(c, k)
    PROVE  \E p \in {"refused", "queued", "info", "history"} :
             /\ GoTo(c, p)
             /\ \/ UNCHANGED running
                \/ running' = running \cup {k} /\ p = "queued" /\ ~Restoring(c)
<1>1. CASE Kind[c] \in {"send", "scheduled"} /\ Submit(c, k)
  BY <1>1 DEF Submit, RefusedNow
<1>2. CASE Kind[c] = "slash" /\ GoTo(c, "info") /\ UNCHANGED running
  BY <1>2
<1>3. CASE Kind[c] = "open" /\ GoTo(c, "history") /\ UNCHANGED running
  BY <1>3
<1> QED BY <1>1, <1>2, <1>3 DEF Proceed

LEMMA CloseChatQuiet ==
    ASSUME NEW c \in Calls, NEW k \in Calls, NEW closing, NEW next,
           CloseChat(c, k, closing, next)
    PROVE  \E p \in {closing, next} :
             /\ GoTo(c, p)
             /\ \/ UNCHANGED retained
                \/ retained' = [retained EXCEPT ![Session[c]] = "none"]
BY DEF CloseChat, Forget

LEMMA ConnectingRegistry ==
    ASSUME TypeOK, Registry, NEW c \in Calls, Connecting(c)
    PROVE  Registry'
<1> USE DEF chats, clients
<1>1. CASE NoProvider(c) \/ Create(c) \/ ConnectFails(c)
  BY <1>1, QuietStep DEF NoProvider, Create, ConnectFails, Phases, Fresh, Holding,
                         InTurnPhases, InTurn
<1>2. CASE Reuse(c)
  <2> DEFINE k == Active(c)
  <2>1. /\ chat[c] # c /\ k \in Calls /\ k # c
        /\ chat[k] = k /\ Session[k] = Session[c]
    BY <1>2, FreshCall DEF Reuse, Fresh
  <2>2. PICK p \in {"refused", "queued", "info", "history", "mode"} :
          /\ GoTo(c, p)
          /\ \/ UNCHANGED running
             \/ running' = running \cup {k} /\ p = "queued" /\ ~Restoring(c)
    BY <1>2, <2>1, ProceedGoes DEF Reuse
  <2>3. chat' = [chat EXCEPT ![c] = k] /\ chat'[k] = k
    BY <1>2, <2>1 DEF Reuse, TypeOK
  <2> HIDE DEF k
  <2> QED BY <1>2, <2>1, <2>2, <2>3, TakeStep DEF Reuse, Phases, Fresh, InTurn
<1>3. CASE Evict(c)
  <2>1. Active(c) \in Calls
    BY <1>3, FreshCall DEF Evict, Fresh
  <2>2. PICK p \in {"evict", "create"} :
          /\ GoTo(c, p)
          /\ \/ UNCHANGED retained
             \/ retained' = [retained EXCEPT ![Session[c]] = "none"]
    BY <1>3, <2>1, CloseChatQuiet DEF Evict
  <2> QED BY <1>3, <2>2, QuietStep DEF Evict, Phases, Fresh, Holding, InTurnPhases, InTurn
<1>4. CASE ChatClosed(c, "evict", "create") \/ ChatClosed(c, "evict", "refused")
  BY <1>4, QuietStep DEF ChatClosed, Forget, Phases, Fresh, Holding, InTurnPhases, InTurn
<1>5. CASE ModeSet(c)
  <2> DEFINE k == chat[c]
  <2>1. k \in Calls /\ chat[k] = k /\ Session[k] = Session[c]
    BY <1>5 DEF ModeSet, Registry, HasChat, Registered, TypeOK
  <2>2. PICK p \in {"refused", "queued", "info", "history"} :
          /\ GoTo(c, p)
          /\ \/ UNCHANGED running
             \/ running' = running \cup {k} /\ p = "queued" /\ ~Restoring(c)
    BY <1>5, <2>1, ProceedGoes DEF ModeSet
  <2>3. chat' = [chat EXCEPT ![c] = k] /\ chat'[k] = k
    BY <1>5, <2>1 DEF ModeSet, TypeOK
  <2>4. chat[c] # c \/ k = c
    OBVIOUS
  <2> HIDE DEF k
  <2> QED BY <1>5, <2>1, <2>2, <2>3, <2>4, TakeStep DEF ModeSet, Phases, Fresh, InTurn
<1>6. CASE Register(c)
  <2>1. PICK p \in {"refused", "queued", "info", "history"} :
          /\ GoTo(c, p)
          /\ \/ UNCHANGED running
             \/ running' = running \cup {c} /\ p = "queued" /\ ~Restoring(c)
    BY <1>6, ProceedGoes DEF Register
  <2>2. c \notin running
    BY <1>6, FreshCall DEF Register, Fresh
  <2>3. chat'[c] = c
    BY <1>6 DEF Register, TypeOK
  <2> QED BY <1>6, <2>1, <2>2, <2>3, TakeStep DEF Register, Phases, Fresh, InTurn
<1> QED BY <1>1, <1>2, <1>3, <1>4, <1>5, <1>6 DEF Connecting

LEMMA FinishRegistry ==
    ASSUME TypeOK, Registry, NEW c \in Calls, Finish(c)
    PROVE  Registry'
<1> USE DEF Finish, GoTo, TypeOK
<1>1. Registered' /\ HasChat'
  BY DEF Registry, Registered, HasChat, InTurn, Fresh
<1>2. RestoreIsExclusive'
  BY DEF Registry, RestoreIsExclusive, Project, WorkspaceRuns
<1>3. MarkHasOwner'
  <2> SUFFICES ASSUME NEW s \in Sessions, retained[s] \in running'
               PROVE  \E d \in Calls : InTurn(d)' /\ chat[d] = retained[s]
    BY DEF MarkHasOwner
  <2>1. retained[s] \in Calls /\ retained[s] # "none" /\ retained[s] \in running
    BY ServiceAssumption
  <2>2. PICK d \in Calls : InTurn(d) /\ chat[d] = retained[s]
    BY <2>1 DEF Registry, MarkHasOwner
  <2>3. d # c
    <3> SUFFICES ASSUME d = c PROVE FALSE
      OBVIOUS
    <3>1. Session[c] = s
      BY <2>1, <2>2 DEF Registry, Registered
    <3>2. Active(c) = retained[s]
      BY <3>1 DEF Active
    <3> QED BY <2>2, <3>2 DEF OwnClient
  <2> QED BY <2>2, <2>3 DEF InTurn
<1> QED BY <1>1, <1>2, <1>3 DEF Registry

LEMMA TurnRegistry ==
    ASSUME TypeOK, Registry, NEW c \in Calls, Turn(c) \/ TurnEnds(c)
    PROVE  Registry'
<1> USE DEF chats, clients
<1>1. CASE CommandChecked(c)
  <2> DEFINE k == chat[c]
  <2>1. k \in Calls /\ chat[k] = k /\ Session[k] = Session[c]
    BY <1>1 DEF CommandChecked, Registry, HasChat, Registered, TypeOK
  <2>2. PICK p \in {"refused", "queued"} :
          /\ GoTo(c, p)
          /\ \/ UNCHANGED running
             \/ running' = running \cup {k} /\ p = "queued" /\ ~Restoring(c)
    BY <1>1 DEF CommandChecked, Submit, RefusedNow
  <2>3. chat' = [chat EXCEPT ![c] = k] /\ chat'[k] = k
    BY <1>1, <2>1 DEF CommandChecked, TypeOK
  <2>4. chat[c] # c \/ k = c
    OBVIOUS
  <2> HIDE DEF k
  <2> QED BY <1>1, <2>1, <2>2, <2>3, <2>4, TakeStep DEF CommandChecked, Phases, Fresh, InTurn
<1>2. CASE TurnStarts(c) \/ TurnEnds(c)
  <2>1. chat[c] # "none"
    BY <1>2 DEF TurnStarts, TurnEnds, Registry, HasChat, InTurn
  <2> QED BY <1>2, <2>1, QuietStep DEF TurnStarts, TurnEnds, Phases, Fresh, InTurnPhases
<1>3. CASE ReleaseScheduled(c)
  <2>1. chat[c] # "none"
    BY <1>3 DEF ReleaseScheduled, Registry, HasChat, InTurn
  <2>2. PICK p \in {"release", "finish"} :
          /\ GoTo(c, p)
          /\ \/ UNCHANGED retained
             \/ retained' = [retained EXCEPT ![Session[c]] = "none"]
    BY <1>3, SessionType, CloseChatQuiet DEF ReleaseScheduled
  <2> QED BY <1>3, <2>1, <2>2, QuietStep DEF ReleaseScheduled, Phases, Fresh, InTurnPhases
<1>4. CASE ChatClosed(c, "release", "finish")
  <2>1. chat[c] # "none"
    BY <1>4 DEF ChatClosed, Registry, HasChat, InTurn
  <2> QED BY <1>4, <2>1, QuietStep DEF ChatClosed, Forget, Phases, Fresh, InTurnPhases
<1>5. CASE Finish(c)
  BY <1>5, FinishRegistry
<1> QED BY <1>1, <1>2, <1>3, <1>4, <1>5 DEF Turn

LEMMA RewindRegistry ==
    ASSUME TypeOK, Registry, NEW c \in Calls, Rewind(c)
    PROVE  Registry'
<1> USE DEF Rewind, GoTo, TypeOK, chats, clients
<1>1. chat[c] # c /\ c \notin running
  BY FreshCall DEF Fresh
<1>2. Active(c) # "none" =>
        Active(c) # c /\ chat[Active(c)] = Active(c) /\ Session[Active(c)] = Session[c]
  BY FreshCall DEF Fresh
<1>3. Active(c) \in Calls \cup {"none"} /\ Project(c) \in Workspaces /\ "none" \notin Calls
  BY SessionType, ServiceAssumption
<1>4. \A d \in Calls : chat[d] = d => chat'[d] = d
  BY <1>1
<1>5. Registered'
  <2>1. \A d \in Calls : chat'[d] = d => pc'[d] \notin Fresh
    BY <1>1, <1>2, <1>3 DEF Registry, Registered, Fresh
  <2>2. \A s \in Sessions : retained'[s] # "none" =>
           chat'[retained'[s]] = retained'[s] /\ Session[retained'[s]] = s
    BY <1>4 DEF Registry, Registered
  <2>3. \A d \in running' : chat'[d] = d
    BY <1>4 DEF Registry, Registered
  <2>4. \A d \in Calls : chat'[d] # "none" =>
           chat'[chat'[d]] = chat'[d] /\ Session[chat'[d]] = Session[d]
    BY <1>2, <1>3, <1>4 DEF Registry, Registered
  <2> QED BY <2>1, <2>2, <2>3, <2>4 DEF Registered
<1>6. HasChat'
  BY DEF Registry, HasChat, InTurn
<1>7. RestoreIsExclusive'
  <2>1. CASE Active(c) # "none" /\ WorkspaceIdle(c)
    <3>1. Project(c) \notin restoring /\ ~WorkspaceRuns(Project(c))
      BY <2>1 DEF WorkspaceIdle, Restoring
    <3>2. restoring' = restoring \cup {Project(c)} /\ pc' = [pc EXCEPT ![c] = "restore"]
      BY <2>1
    <3>3. \A w \in restoring' : ~WorkspaceRuns(w)'
      BY <3>1, <3>2 DEF Registry, RestoreIsExclusive, WorkspaceRuns
    <3>4. \A d \in Calls : pc'[d] = "restore" => d = c \/ pc[d] = "restore"
      BY <3>2
    <3>5. \A d \in Calls : pc[d] = "restore" => Project(d) \in restoring
      BY DEF Registry, RestoreIsExclusive
    <3>6. \A d, e \in Calls :
            pc'[d] = "restore" /\ pc'[e] = "restore" /\ Project(d) = Project(e) => d = e
      BY <3>1, <3>4, <3>5 DEF Registry, RestoreIsExclusive
    <3>7. restoring' = {Project(d) : d \in {e \in Calls : pc'[e] = "restore"}}
      BY <3>2 DEF Registry, RestoreIsExclusive
    <3> QED BY <3>3, <3>6, <3>7 DEF RestoreIsExclusive, Project
  <2>2. CASE ~(Active(c) # "none" /\ WorkspaceIdle(c))
    BY <2>2 DEF Registry, RestoreIsExclusive, Project, WorkspaceRuns
  <2> QED BY <2>1, <2>2
<1>8. MarkHasOwner'
  BY DEF Registry, MarkHasOwner, InTurn
<1> QED BY <1>5, <1>6, <1>7, <1>8 DEF Registry

LEMMA RewindReturnsRegistry ==
    ASSUME TypeOK, Registry, NEW c \in Calls, RewindReturns(c)
    PROVE  Registry'
<1> USE DEF RewindReturns, GoTo, TypeOK, chats
<1>1. Registered' /\ HasChat'
  BY DEF Registry, Registered, HasChat, InTurn, Fresh
<1>2. RestoreIsExclusive'
  <2>1. \A w \in restoring' : ~WorkspaceRuns(w)'
    BY DEF Registry, RestoreIsExclusive, WorkspaceRuns
  <2>2. \A d \in Calls : pc'[d] = "restore" <=> pc[d] = "restore" /\ d # c
    OBVIOUS
  <2>3. restoring' = {Project(d) : d \in {e \in Calls : pc'[e] = "restore"}}
    BY <2>2 DEF Registry, RestoreIsExclusive
  <2> QED BY <2>1, <2>2, <2>3 DEF Registry, RestoreIsExclusive, Project
<1>3. MarkHasOwner'
  BY DEF Registry, MarkHasOwner, InTurn
<1> QED BY <1>1, <1>2, <1>3 DEF Registry

LEMMA AskRegistry ==
    ASSUME TypeOK, Registry, NEW c \in Calls, Ask(c)
    PROVE  Registry'
<1> USE DEF Ask, chats, clients
<1>1. CASE Active(c) # "none"
  <2> DEFINE k == Active(c)
  <2>1. chat[c] # c /\ k \in Calls /\ k # c /\ chat[k] = k /\ Session[k] = Session[c]
    BY <1>1, FreshCall DEF Fresh
  <2>2. chat' = [chat EXCEPT ![c] = k] /\ chat'[k] = k /\ GoTo(c, "control")
    BY <1>1, <2>1 DEF TypeOK
  <2> HIDE DEF k
  <2> QED BY <2>1, <2>2, TakeStep DEF Phases, Fresh, InTurn
<1>2. CASE Active(c) = "none"
  <2> USE DEF GoTo, TypeOK
  <2>1. chat[c] # c /\ "none" \notin Calls
    BY FreshCall, ServiceAssumption DEF Fresh
  <2>2. \A d \in Calls : chat[d] = d => chat'[d] = d
    BY <2>1
  <2>3. Registered'
    BY <1>2, <2>1, <2>2 DEF Registry, Registered, Fresh
  <2>4. HasChat' /\ MarkHasOwner'
    BY <1>2 DEF Registry, HasChat, MarkHasOwner, InTurn
  <2>5. RestoreIsExclusive'
    BY <1>2 DEF Registry, RestoreIsExclusive, Project, WorkspaceRuns
  <2> QED BY <2>3, <2>4, <2>5 DEF Registry
<1> QED BY <1>1, <1>2

LEMMA RegistryStep ==
    ASSUME TypeOK, Registry, NEW c \in Calls, Start(c) \/ Continue(c) \/ TurnEnds(c)
    PROVE  Registry'
<1> USE DEF chats, clients
<1>1. CASE Send(c) \/ OpenSession(c)
  BY <1>1, QuietStep DEF Send, OpenSession, Phases, Fresh, Holding, InTurnPhases, InTurn
<1>2. CASE Close(c)
  <2>1. PICK p \in {"refused", "closing", "done"} :
          /\ GoTo(c, p)
          /\ \/ UNCHANGED retained
             \/ retained' = [retained EXCEPT ![Session[c]] = "none"]
    BY <1>2, SessionType, CloseChatQuiet DEF Close
  <2> QED BY <1>2, <2>1, QuietStep DEF Close, Phases, Fresh, Holding, InTurnPhases, InTurn
<1>3. CASE ReadHistory(c) \/ AskReturns(c)
  BY <1>3, QuietStep DEF ReadHistory, AskReturns, Phases, Fresh, Holding, InTurnPhases, InTurn
<1>4. CASE ChatClosed(c, "closing", "done")
  BY <1>4, QuietStep DEF ChatClosed, Forget, Phases, Fresh, Holding, InTurnPhases, InTurn
<1>5. CASE Connecting(c) \/ Turn(c) \/ TurnEnds(c) \/ Ask(c) \/ Rewind(c) \/ RewindReturns(c)
  BY <1>5, ConnectingRegistry, TurnRegistry, AskRegistry, RewindRegistry,
     RewindReturnsRegistry
<1> QED BY <1>1, <1>2, <1>3, <1>4, <1>5 DEF Start, Continue

-----------------------------------------------------------------------------
(* Theorems *)

LEMMA InitStep == Init => TypeOK /\ Registry
<1> SUFFICES ASSUME Init PROVE TypeOK /\ Registry
  OBVIOUS
<1>1. TypeOK
  BY ServiceAssumption DEF Init, TypeOK, Phases, Sends, Kinds
<1>2. Registry
  BY ServiceAssumption DEF Init, Registry, Registered, HasChat, RestoreIsExclusive,
                           MarkHasOwner, WorkspaceRuns, InTurn
<1> QED BY <1>1, <1>2

LEMMA Step == TypeOK /\ Registry /\ [Next]_vars => (TypeOK /\ Registry)'
<1> SUFFICES ASSUME TypeOK, Registry, [Next]_vars PROVE (TypeOK /\ Registry)'
  OBVIOUS
<1>1. CASE UNCHANGED vars
  <2>1. TypeOK'
    BY <1>1 DEF vars, requests, chats, clients, TypeOK
  <2>2. Registered' /\ HasChat' /\ MarkHasOwner'
    BY <1>1 DEF vars, requests, chats, clients, Registry, Registered, HasChat,
                MarkHasOwner, InTurn
  <2>3. RestoreIsExclusive'
    BY <1>1 DEF vars, requests, chats, clients, Registry, RestoreIsExclusive,
                WorkspaceRuns, Project
  <2> QED BY <2>1, <2>2, <2>3 DEF Registry
<1>2. ASSUME NEW c \in Calls, Start(c) \/ Continue(c) \/ TurnEnds(c)
      PROVE  (TypeOK /\ Registry)'
  BY <1>2, TypeStep, RegistryStep DEF Registry
<1> QED BY <1>1, <1>2 DEF Next

\* Every state of the service is well typed, and its registry consistent:
\* the inductive invariant.
THEOREM RegistryConsistent == Spec => [](TypeOK /\ Registry)
<1>1. Init => TypeOK /\ Registry
  BY InitStep
<1>2. TypeOK /\ Registry /\ [Next]_vars => (TypeOK /\ Registry)'
  BY Step
<1> QED BY <1>1, <1>2, PTL DEF Spec

\* Every state of the service is well typed, however its requests interleave.
THEOREM TypeCorrect == Spec => []TypeOK
BY RegistryConsistent, PTL

\* rewind_chat_files never overlaps another restore of the workspace nor a
\* chat of the workspace that is marked running.
THEOREM RestoreExclusive == Spec => []RestoreIsExclusive
<1>1. TypeOK /\ Registry => RestoreIsExclusive
  BY DEF Registry
<1> QED BY <1>1, RegistryConsistent, PTL

\* A retained chat that is marked running is the chat of a request that is
\* still to take the mark away.
THEOREM MarksOwned == Spec => []MarkHasOwner
<1>1. TypeOK /\ Registry => MarkHasOwner
  BY DEF Registry
<1> QED BY <1>1, RegistryConsistent, PTL

=============================================================================
