----------------------------- MODULE ChatClient -----------------------------
(***************************************************************************)
(* backend/claude_chat_client/client.py: one ClaudeChatClient, the wrapper *)
(* that turns the persistent connection of the Claude Agent SDK into one   *)
(* ordered event stream per human turn.                                    *)
(*                                                                         *)
(* Every task that runs inside the client is an actor with a phase in pc:  *)
(* a turn (a caller of send, which drives stream), a caller of close, a    *)
(* caller of a control method that only connects, a caller of              *)
(* rewind_files.  The producer (_produce_turn) of the running turn and the *)
(* permission callbacks (_can_use_tool) have phases of their own.  A step  *)
(* is what the code does between two suspension points.                    *)
(*                                                                         *)
(* The SDK and the Claude Code process behind it are not part of the       *)
(* repository: the actions Cli... say what the client relies on them for.  *)
(***************************************************************************)
EXTENDS Naturals, Sequences, FiniteSets

CONSTANTS
    Turns,          \* the calls of send, each one human turn
    Closing,        \* the turns whose on_complete closes this client
    Callers,        \* which of "closer", "control", "rewinder" there are
    Requests,       \* the calls of can_use_tool the SDK makes
    Tasks,          \* the background tasks Claude Code may start
    MaxConnections, \* bound: SDK connections that are ever opened
    MaxInjected,    \* bound: results of injected turns nobody asked for
    InboxBound      \* bound: messages the SDK holds before they are read

Actors == Turns \cup Callers

\* Those who call close.
Closers == Closing \cup (Callers \cap {"closer"})

ASSUME ClientAssumption ==
    /\ Callers \subseteq {"closer", "control", "rewinder"}
    /\ Turns \cap {"closer", "control", "rewinder", "producer", "none"} = {}
    /\ "none" \notin Requests \cup Tasks
    /\ Closing \subseteq Turns
    /\ MaxConnections \in Nat /\ MaxInjected \in Nat /\ InboxBound \in Nat

VARIABLES
    pc,         \* phase of every actor
    turnLock,   \* holder of _turn_lock
    connLock,   \* holder of _connect_lock
    sdk,        \* _sdk: the number of the connection in use, 0 for None
    opened,     \* how many connections were ever opened
    dropping,   \* the local sdk of a running disconnect, 0 if none
    live,       \* the connections whose transport is open
    probed,     \* the connections whose permission mode probe succeeded
    active,     \* the turn _active_queue and _active_factory belong to
    stopReq,    \* the _stop_requested event of the active turn is set
    submitted,  \* _query_submitted
    lastResult, \* _last_result: the turn that produced it
    prod,       \* phase of _produce_turn
    using,      \* the local sdk of the producer
    cancelled,  \* the producer was cancelled by the unwinding stream
    known,      \* active_task_ids of the producer
    background, \* background_chain_started
    deferred,   \* deferred_human_result
    chosen,     \* requested_result
    queue,      \* the event queue of every turn
    closed,     \* the turns whose queue is closed
    shown,      \* the events send forwarded to the handler of every turn
    held,       \* terminal_event of send
    returned,   \* what send returns: the turn that produced it
    cb,         \* phase of every permission callback
    cbTurn,     \* the queue and factory the callback captured
    pending,    \* the keys of _pending_permissions
    inbox,      \* messages the SDK holds for receive_response
    cliTurn,    \* the query Claude Code has not answered yet
    cliTask,    \* what every background task is doing
    injected,   \* how many injected results were sent
    cliStopped, \* Claude Code was interrupted since the last query
    cliDown     \* the process is gone

locks     == <<turnLock, connLock>>
control   == <<pc, locks>>
conn      == <<sdk, opened, dropping, live, probed>>
turnState == <<active, stopReq, submitted, lastResult>>
locals    == <<using, cancelled, known, background, deferred, chosen>>
producer  == <<prod, locals>>
delivered == <<closed, shown, held, returned>>
streams   == <<queue, delivered>>
callbacks == <<cb, cbTurn, pending>>
cli       == <<inbox, cliTurn, cliTask, injected, cliStopped, cliDown>>
inner     == <<conn, turnState, producer, streams, callbacks, cli>>
vars      == <<control, inner>>

-----------------------------------------------------------------------------
(* Values *)

Phases == {"idle", "turnlock", "connlock", "open", "probe", "stream", "ended",
           "drain", "clear", "quit", "complete", "closeturn", "closeconn",
           "disconnect", "forward", "call", "done"}

ProducerPhases == {"off", "query", "sent", "receive", "finish", "failing",
                   "discard", "ending", "finished"}

Event == [kind : {"started", "user", "proxy", "completed", "failed", "end"},
          req  : {"none"}]
         \cup [kind : {"requested", "resolved"}, req : Requests]

Ev(kind) == [kind |-> kind, req |-> "none"]
Ask(r)    == [kind |-> "requested", req |-> r]
\* Defect: an event name the protocol does not have.
Decision(r) == [kind |-> "answered", req |-> r]
Answer(r) == [kind |-> "resolved", req |-> r]

Terminal == {"completed", "failed"}

Origins == {"human", "task-notification", "other"}

\* A ResultMessage with the query it answers ("none" for an injected turn).
Result == [origin : Origins, turn : Turns \cup {"none"}]
NoResult == [origin |-> "other", turn |-> "none"]

\* TaskStarted, TaskProgress and a non-terminal TaskUpdated are "alive", a
\* terminal TaskUpdated is "ended", TaskNotification is "notified"/"stopped".
Message == [kind : {"alive", "ended", "notified", "stopped"}, task : Tasks]
           \cup [kind : {"result"}, result : Result]

TaskMessage(kind, k)  == [kind |-> kind, task |-> k]
ResultMessage(origin, t) ==
    [kind |-> "result", result |-> [origin |-> origin, turn |-> t]]

ControlType ==
    /\ pc \in [Actors -> Phases]
    /\ turnLock \in Actors \cup {"none"}
    /\ connLock \in Actors \cup {"producer", "none"}

ConnectionType ==
    /\ sdk \in Nat /\ opened \in Nat /\ dropping \in Nat
    /\ live \subseteq Nat /\ probed \subseteq Nat

TurnType ==
    /\ active \in Turns \cup {"none"}
    /\ stopReq \in BOOLEAN /\ submitted \in BOOLEAN
    /\ lastResult \in Turns \cup {"none"}

ProducerType ==
    /\ prod \in ProducerPhases /\ using \in Nat
    /\ cancelled \in BOOLEAN /\ background \in BOOLEAN
    /\ known \subseteq Tasks
    /\ deferred \in Result /\ chosen \in Result

StreamsType ==
    /\ queue \in [Turns -> Seq(Event)]
    /\ closed \subseteq Turns
    /\ shown \in [Turns -> SUBSET Event]
    /\ held \in [Turns -> Terminal \cup {"none"}]
    /\ returned \in [Turns -> Turns \cup {"none"}]

CallbacksType ==
    /\ cb \in [Requests -> {"none", "asking", "waiting", "answered", "done"}]
    /\ cbTurn \in [Requests -> Turns \cup {"none"}]
    /\ pending \subseteq Requests

CliType ==
    /\ inbox \in Seq(Message)
    /\ cliTurn \in Turns \cup {"none"}
    /\ cliTask \in [Tasks -> {"new", "running", "ended", "owed", "over"}]
    /\ injected \in Nat
    /\ cliStopped \in BOOLEAN /\ cliDown \in BOOLEAN

TypeOK ==
    /\ ControlType /\ ConnectionType /\ TurnType /\ ProducerType
    /\ StreamsType /\ CallbacksType /\ CliType

Init ==
    /\ pc = [a \in Actors |-> "idle"]
    /\ turnLock = "none" /\ connLock = "none"
    /\ sdk = 0 /\ opened = 0 /\ dropping = 0 /\ live = {} /\ probed = {}
    /\ active = "none" /\ stopReq = FALSE
    /\ submitted = FALSE /\ lastResult = "none"
    /\ prod = "off" /\ using = 0 /\ cancelled = FALSE
    /\ known = {} /\ background = FALSE
    /\ deferred = NoResult /\ chosen = NoResult
    /\ queue = [t \in Turns |-> <<>>] /\ closed = {}
    /\ shown = [t \in Turns |-> {}] /\ held = [t \in Turns |-> "none"]
    /\ returned = [t \in Turns |-> "none"]
    /\ cb = [r \in Requests |-> "none"]
    /\ cbTurn = [r \in Requests |-> "none"] /\ pending = {}
    /\ inbox = <<>> /\ cliTurn = "none"
    /\ cliTask = [k \in Tasks |-> "new"] /\ injected = 0
    /\ cliStopped = FALSE /\ cliDown = FALSE

-----------------------------------------------------------------------------
(* Parts of steps *)

GoTo(a, phase) == pc' = [pc EXCEPT ![a] = phase]

\* The locks are not reentrant.
\* Defect: nobody waits for the running turn.
TurnLockIgnored == TRUE
TurnLockFree == turnLock = "none"

ConnLockFree == connLock = "none"

Put(t, event) == queue' = [queue EXCEPT ![t] = Append(@, event)]

\* _deny_pending_permissions: every undecided request is answered.  The
\* callback itself runs later and only then removes its key.
DenyPending ==
    cb' = [r \in Requests |->
             IF r \in pending /\ cb[r] \in {"asking", "waiting"}
             THEN "answered" ELSE cb[r]]

\* interrupt: a stop that arrives before the query is submitted is only
\* remembered, the producer forwards it.
Interrupt ==
    IF sdk # 0 /\ active # "none"
    THEN /\ stopReq' = TRUE
         /\ DenyPending
         /\ cliStopped' = (cliStopped \/ submitted)
    ELSE UNCHANGED <<stopReq, cb, cliStopped>>

\* Defect: the connection is forgotten but stays open.
NothingClosed == live
OpenAfterHangup == live \ {dropping}

\* The transport closes: the SDK cancels its callbacks and forgets what it
\* read.  A callback that is cancelled while it still sends its request has
\* not reached the try that removes its key from _pending_permissions.
Hangup ==
    /\ live' = OpenAfterHangup
    /\ dropping' = 0
    /\ pending' = {r \in pending : cb[r] \notin {"waiting", "answered"}}
    /\ cb' = [r \in Requests |->
                IF cb[r] \in {"asking", "waiting", "answered"}
                THEN "done" ELSE cb[r]]
    /\ inbox' = <<>>
    /\ cliTurn' = "none"
    /\ cliTask' = [k \in Tasks |->
                     IF cliTask[k] = "new" THEN "new" ELSE "over"]
    /\ cliStopped' = FALSE
    /\ cliDown' = FALSE

\* stream, from the point where the connection is there to its first yield.
BeginTurn(t) ==
    /\ lastResult' = "none"
    /\ active' = t
    /\ stopReq' = FALSE
    /\ submitted' = FALSE
    /\ queue' = [queue EXCEPT ![t] = <<Ev("started"), Ev("user")>>]
    /\ prod' = "query"
    /\ using' = sdk
    /\ cancelled' = FALSE
    /\ known' = {} /\ background' = FALSE
    /\ deferred' = NoResult /\ chosen' = NoResult
    /\ UNCHANGED <<delivered>>

\* What a caller of connect does once it has its connection.
Connected(a) ==
    \/ /\ a \in Turns
       /\ GoTo(a, "stream")
       /\ BeginTurn(a)
    \/ /\ a = "control"
       /\ GoTo(a, "idle")
       /\ UNCHANGED <<turnState, producer, streams>>
    \/ /\ a = "rewinder"
       /\ GoTo(a, "call")
       /\ UNCHANGED <<turnState, producer, streams>>

-----------------------------------------------------------------------------
(* Callers of the client *)

\* send is called; its turn waits for _turn_lock.
Send(t) ==
    /\ pc[t] = "idle"
    /\ GoTo(t, "turnlock")
    /\ UNCHANGED <<locks, inner>>

\* rewind_files and preview_file_rewind refuse a client whose turn is active.
Rewind ==
    /\ "rewinder" \in Callers /\ pc["rewinder"] = "idle"
    /\ active = "none"
    /\ GoTo("rewinder", "turnlock")
    /\ UNCHANGED <<locks, inner>>

\* set_permission_mode, get_server_info, ... connect without _turn_lock.
ControlCall ==
    /\ "control" \in Callers /\ pc["control"] = "idle"
    /\ GoTo("control", "connlock")
    /\ UNCHANGED <<locks, inner>>

TakeTurnLock(a) ==
    /\ pc[a] = "turnlock"
    /\ TurnLockFree
    /\ turnLock' = a
    /\ GoTo(a, "connlock")
    /\ UNCHANGED <<connLock, inner>>

\* connect returns at once when a connection is there.
AlreadyConnected(a) ==
    /\ pc[a] = "connlock"
    /\ ConnLockFree
    /\ sdk # 0
    /\ Connected(a)
    /\ UNCHANGED <<locks, conn, callbacks, cli>>

Open(a) ==
    /\ pc[a] = "connlock"
    /\ ConnLockFree
    /\ sdk = 0
    /\ connLock' = a
    /\ GoTo(a, "open")
    /\ UNCHANGED <<turnLock, inner>>

\* sdk.connect succeeds; _sdk is set before the permission mode is tried.
OpenSucceeds(a) ==
    /\ pc[a] = "open"
    /\ opened < MaxConnections
    /\ opened' = opened + 1
    /\ sdk' = opened + 1
    /\ live' = live \cup {opened + 1}
    /\ GoTo(a, "probe")
    /\ UNCHANGED <<locks, dropping, probed, turnState, producer, streams,
                   callbacks, cli>>

ProbeSucceeds(a) ==
    /\ pc[a] = "probe"
    /\ ~cliDown
    /\ probed' = probed \cup {sdk}
    /\ connLock' = "none"
    /\ Connected(a)
    /\ UNCHANGED <<turnLock, sdk, opened, dropping, live, callbacks, cli>>

\* sdk.connect or the first set_permission_mode raises: every lock is
\* released; after a failed probe _sdk stays set.
ConnectRaises(a) ==
    /\ pc[a] \in {"open", "probe"}
    /\ connLock' = "none"
    /\ turnLock' = IF turnLock = a THEN "none" ELSE turnLock
    /\ GoTo(a, IF a \in Turns THEN "complete" ELSE "idle")
    /\ UNCHANGED inner

\* The rewind or preview request returns or raises.
RewindReturns ==
    /\ "rewinder" \in Callers /\ pc["rewinder"] = "call"
    /\ turnLock' = "none"
    /\ GoTo("rewinder", "idle")
    /\ UNCHANGED <<connLock, inner>>

RequestStop ==
    /\ Interrupt
    /\ UNCHANGED <<control, conn, active, submitted, lastResult, producer,
                   streams, cbTurn, pending, inbox, cliTurn, cliTask,
                   injected, cliDown>>

-----------------------------------------------------------------------------
(* close *)

Close(a) ==
    /\ \/ a = "closer" /\ pc[a] = "idle"
       \/ a \in Closing /\ pc[a] = "complete"
    /\ Interrupt
    /\ GoTo(a, "closeturn")
    /\ UNCHANGED <<locks, conn, active, submitted, lastResult, producer,
                   streams, cbTurn, pending, inbox, cliTurn, cliTask,
                   injected, cliDown>>

CloseTakesTurnLock(a) ==
    /\ pc[a] = "closeturn"
    /\ TurnLockFree
    /\ turnLock' = a
    /\ GoTo(a, "closeconn")
    /\ UNCHANGED <<connLock, inner>>

\* Where a caller of close goes on.
AfterClose(a) == IF a \in Turns THEN "forward" ELSE "idle"

\* _sdk is forgotten before the old connection is disconnected.
CloseTakesConnLock(a) ==
    /\ pc[a] = "closeconn"
    /\ ConnLockFree
    /\ sdk' = 0
    /\ IF sdk = 0
       THEN /\ turnLock' = "none"
            /\ GoTo(a, AfterClose(a))
            /\ UNCHANGED <<connLock, dropping>>
       ELSE /\ connLock' = a
            /\ dropping' = sdk
            /\ GoTo(a, "disconnect")
            /\ UNCHANGED turnLock
    /\ UNCHANGED <<opened, live, probed, turnState, producer, streams,
                   callbacks, cli>>

Disconnect(a) ==
    /\ pc[a] = "disconnect"
    /\ Hangup
    /\ turnLock' = "none" /\ connLock' = "none"
    /\ GoTo(a, AfterClose(a))
    /\ UNCHANGED <<sdk, opened, probed, turnState, producer, streams, cbTurn,
                   injected>>

-----------------------------------------------------------------------------
(* _produce_turn *)

\* The query reaches Claude Code; query has not returned yet.
SendQuery ==
    /\ prod = "query"
    /\ ~cliDown
    /\ prod' = "sent"
    /\ cliTurn' = active
    /\ cliStopped' = FALSE
    /\ UNCHANGED <<control, conn, turnState, locals, streams, callbacks,
                   inbox, cliTask, injected, cliDown>>

\* Defect: a stop that came before the query was submitted is forgotten.
StopForgotten == FALSE
StopToForward == stopReq

\* query returns; a stop that came before is forwarded now.
QueryReturns ==
    /\ prod = "sent"
    /\ submitted' = TRUE
    /\ prod' = "receive"
    /\ cliStopped' = (cliStopped \/ StopToForward)
    /\ UNCHANGED <<control, conn, active, stopReq, lastResult, locals,
                   streams, callbacks, inbox, cliTurn, cliTask, injected,
                   cliDown>>

\* The next message of receive_response is of one of the kinds.
Reads(kinds) ==
    /\ prod = "receive"
    /\ inbox # <<>>
    /\ Head(inbox).kind \in kinds
    /\ inbox' = Tail(inbox)
    /\ UNCHANGED <<control, conn, turnState, using, cancelled, delivered,
                   callbacks, cliTurn, cliTask, injected, cliStopped,
                   cliDown>>

ReadTaskAlive ==
    /\ Reads({"alive"})
    /\ known' = known \cup {Head(inbox).task}
    /\ background' = TRUE
    /\ UNCHANGED <<prod, deferred, chosen, queue>>

ReadTaskEnded ==
    /\ Reads({"ended"})
    /\ known' = known \ {Head(inbox).task}
    /\ UNCHANGED <<prod, background, deferred, chosen, queue>>

\* A stopped task of a stopped turn has no continuation: the deferred result
\* is taken, but receive_response goes on until its next ResultMessage.
ReadNotification ==
    /\ Reads({"notified", "stopped"})
    /\ known' = known \ {Head(inbox).task}
    /\ IF stopReq /\ Head(inbox).kind = "stopped"
       THEN /\ chosen' = IF known' = {} /\ deferred # NoResult
                         THEN deferred ELSE chosen
            /\ UNCHANGED background
       ELSE /\ background' = TRUE
            /\ UNCHANGED chosen
    /\ UNCHANGED <<prod, deferred, queue>>

\* The answer to the prompt while no background task is known.
ReadAnswer ==
    /\ Reads({"result"})
    /\ Head(inbox).result.origin = "human"
    /\ known = {} /\ chosen = NoResult
    /\ chosen' = Head(inbox).result
    /\ prod' = "finish"
    /\ UNCHANGED <<known, background, deferred, queue>>

\* Defect: a continuation ends the turn only if the answer was not deferred.
ContinuesUndeferred(result) ==
    /\ result.origin = "task-notification"
    /\ deferred = NoResult /\ background /\ known = {}

\* The continuation of the last background task ends a deferred turn.
EndsDeferred(result) ==
    /\ result.origin = "task-notification"
    /\ deferred # NoResult /\ background /\ known = {}

\* Any other result: an answer that must wait for background tasks, the
\* continuation that follows them, or a turn that was injected.
ReadOtherResult ==
    LET result == Head(inbox).result
        human  == result.origin = "human"
    IN  /\ Reads({"result"})
        /\ ~(human /\ known = {} /\ chosen = NoResult)
        /\ deferred' = IF human THEN result ELSE deferred
        /\ Put(active, Ev("proxy"))
        /\ chosen' = IF EndsDeferred(result) THEN result ELSE chosen
        /\ prod' = IF chosen' = NoResult THEN "receive" ELSE "finish"
        /\ UNCHANGED <<known, background>>

\* What the producer does first when anything raised in it.
Fail ==
    /\ prod' = "failing"
    /\ DenyPending

\* receive_response ends without a ResultMessage: the process is gone.
ResponseEnds ==
    /\ prod = "receive"
    /\ inbox = <<>> /\ cliDown
    /\ chosen' = IF deferred # NoResult /\ known = {} THEN deferred ELSE chosen
    /\ IF chosen' = NoResult THEN Fail ELSE prod' = "finish" /\ UNCHANGED cb
    /\ UNCHANGED <<control, conn, turnState, using, cancelled, known,
                   background, deferred, streams, cbTurn, pending, cli>>

\* query, interrupt or receive_response raises: the process is gone, or it
\* said something the SDK or the adapter cannot read.
ProducerRaises ==
    /\ prod \in {"query", "sent", "receive"}
    /\ Fail
    /\ UNCHANGED <<control, conn, turnState, locals, streams, cbTurn, pending,
                   cli>>

Complete ==
    /\ prod = "finish"
    /\ lastResult' = active
    /\ Put(active, Ev("completed"))
    /\ prod' = "ending"
    /\ UNCHANGED <<control, conn, active, stopReq, submitted, locals,
                   delivered, callbacks, cli>>

\* turn.failed is sent unless the producer was cancelled.
Failed ==
    /\ IF cancelled THEN UNCHANGED queue ELSE Put(active, Ev("failed"))
    /\ prod' = "ending"

\* Defect: the connection of a failed turn is kept for the next one.
NeverOwn == FALSE
OwnConnection == sdk = using

\* _discard_sdk takes _connect_lock and forgets the producer's own connection.
Discard ==
    /\ prod = "failing"
    /\ ConnLockFree
    /\ IF OwnConnection
       THEN /\ sdk' = 0 /\ dropping' = sdk
            /\ connLock' = "producer"
            /\ prod' = "discard"
            /\ UNCHANGED queue
       ELSE /\ Failed
            /\ UNCHANGED <<sdk, dropping, connLock>>
    /\ UNCHANGED <<pc, turnLock, opened, live, probed, turnState, locals,
                   delivered, callbacks, cli>>

DiscardReturns ==
    /\ prod = "discard"
    /\ Hangup
    /\ connLock' = "none"
    /\ Failed
    /\ UNCHANGED <<pc, turnLock, sdk, opened, probed, turnState, locals,
                   delivered, cbTurn, injected>>

\* The locals of a producer that does not run.
NoLocals ==
    /\ using' = 0 /\ cancelled' = FALSE
    /\ known' = {} /\ background' = FALSE
    /\ deferred' = NoResult /\ chosen' = NoResult

\* The finally of the producer: _STREAM_END is the last thing it sends.
EndStream ==
    /\ prod = "ending"
    /\ submitted' = FALSE
    /\ Put(active, Ev("end"))
    /\ prod' = "finished"
    /\ NoLocals
    /\ UNCHANGED <<control, conn, active, stopReq, lastResult, delivered,
                   callbacks, cli>>

-----------------------------------------------------------------------------
(* The consumer: stream's loop driven by send *)

Dequeue(t) ==
    /\ pc[t] = "stream"
    /\ queue[t] # <<>>
    /\ queue' = [queue EXCEPT ![t] = Tail(@)]
    /\ UNCHANGED <<locks, conn, turnState, producer, closed, returned,
                   callbacks, cli>>

\* Defect: the terminal event is forwarded before on_complete has run.
ForwardedAtOnce(event) == event.kind \in {}
HeldBack(event) == event.kind \in Terminal

\* Every event but the terminal one goes to the handler at once.
Consume(t) ==
    /\ Dequeue(t)
    /\ Head(queue[t]).kind # "end"
    /\ IF HeldBack(Head(queue[t]))
       THEN /\ held' = [held EXCEPT ![t] = Head(queue[t]).kind]
            /\ UNCHANGED shown
       ELSE /\ shown' = [shown EXCEPT ![t] = @ \cup {Head(queue[t])}]
            /\ UNCHANGED held
    /\ UNCHANGED pc

ConsumeEnd(t) ==
    /\ Dequeue(t)
    /\ Head(queue[t]).kind = "end"
    /\ GoTo(t, "ended")
    /\ UNCHANGED <<shown, held>>

\* The handler raises or the caller is cancelled: the generator is closed and
\* interrupts a producer that still runs.
Abandon(t) ==
    /\ pc[t] = "stream"
    /\ GoTo(t, "drain")
    /\ IF prod = "finished" THEN UNCHANGED <<stopReq, cb, cliStopped>>
                            ELSE Interrupt
    /\ UNCHANGED <<locks, conn, active, submitted, lastResult, producer,
                   streams, cbTurn, pending, inbox, cliTurn, cliTask,
                   injected, cliDown>>

\* Ten seconds after the interrupt the producer is cancelled.
DrainTimesOut(t) ==
    /\ pc[t] = "drain"
    /\ prod \in {"query", "sent", "receive"}
    /\ cancelled' = TRUE
    /\ Fail
    /\ UNCHANGED <<control, conn, turnState, using, known, background,
                   deferred, chosen, streams, cbTurn, pending, cli>>

CloseQueue(t) ==
    /\ pc[t] \in {"ended", "drain"}
    /\ prod = "finished"
    /\ closed' = closed \cup {t}
    /\ GoTo(t, IF pc[t] = "ended" THEN "clear" ELSE "quit")
    /\ UNCHANGED <<locks, conn, turnState, producer, queue, shown, held,
                   returned, callbacks, cli>>

\* Defect: on_complete runs while its turn still holds the lock.
LockKept     == turnLock
LockReleased == "none"

\* The stream is over, _turn_lock is released, and send reads _last_result
\* before anyone else can run.
LeaveStream(t) ==
    /\ pc[t] \in {"clear", "quit"}
    /\ active' = "none"
    /\ stopReq' = FALSE
    /\ submitted' = FALSE
    /\ turnLock' = LockReleased
    /\ prod' = "off"
    /\ queue' = [queue EXCEPT ![t] = <<>>]
    /\ returned' = IF pc[t] = "clear" /\ held[t] # "failed"
                   THEN [returned EXCEPT ![t] = lastResult] ELSE returned
    /\ GoTo(t, "complete")
    /\ UNCHANGED <<connLock, conn, lastResult, locals, closed, shown, held,
                   callbacks, cli>>

\* on_complete of a turn that does not close the client.
OnComplete(t) ==
    /\ pc[t] = "complete"
    /\ t \notin Closing
    /\ GoTo(t, "forward")
    /\ UNCHANGED <<locks, inner>>

ForwardTerminal(t) ==
    /\ pc[t] = "forward"
    /\ shown' = IF held[t] = "none" THEN shown
                ELSE [shown EXCEPT ![t] = @ \cup {Ev(held[t])}]
    /\ GoTo(t, "done")
    /\ UNCHANGED <<locks, conn, turnState, producer, queue, closed, held,
                   returned, callbacks, cli>>

-----------------------------------------------------------------------------
(* _can_use_tool *)

CallbackOpen(r) == cb[r] \in {"asking", "waiting", "answered"}

CliBusy ==
    /\ sdk # 0 /\ ~cliDown
    /\ \/ cliTurn # "none"
       \/ \E k \in Tasks : cliTask[k] \in {"running", "owed"}

\* A request outside an active stream is denied without anyone seeing it.
DenyOutsideStream(r) ==
    /\ cb[r] = "none" /\ CliBusy
    /\ active = "none"
    /\ cb' = [cb EXCEPT ![r] = "done"]
    /\ UNCHANGED <<control, conn, turnState, producer, streams, cbTurn,
                   pending, cli>>

\* The request is registered, then sent to the captured queue; a queue that
\* is closed already makes the send raise, and the key stays registered.
AskPermission(r) ==
    /\ cb[r] = "none" /\ CliBusy
    /\ active # "none"
    /\ pending' = pending \cup {r}
    /\ cbTurn' = [cbTurn EXCEPT ![r] = active]
    /\ IF active \in closed
       THEN /\ cb' = [cb EXCEPT ![r] = "done"]
            /\ UNCHANGED queue
       ELSE /\ cb' = [cb EXCEPT ![r] = "asking"]
            /\ Put(active, Ask(r))
    /\ UNCHANGED <<control, conn, turnState, producer, delivered, cli>>

AwaitDecision(r) ==
    /\ cb[r] = "asking"
    /\ cb' = [cb EXCEPT ![r] = "waiting"]
    /\ UNCHANGED <<control, conn, turnState, producer, streams, cbTurn,
                   pending, cli>>

\* resolve_permission and resolve_plan_approval: only an undecided request.
Resolve(r) ==
    /\ r \in pending
    /\ cb[r] \in {"asking", "waiting"}
    /\ Ask(r) \in shown[cbTurn[r]]
    /\ cb' = [cb EXCEPT ![r] = "answered"]
    /\ UNCHANGED <<control, conn, turnState, producer, streams, cbTurn,
                   pending, cli>>

\* The callback wakes, removes its key and reports to the queue it captured,
\* which raises when that turn's queue is closed.
ReportDecision(r) ==
    /\ cb[r] = "answered"
    /\ cb' = [cb EXCEPT ![r] = "done"]
    /\ pending' = pending \ {r}
    /\ IF cbTurn[r] \in closed THEN UNCHANGED queue ELSE Put(cbTurn[r], Answer(r))
    /\ UNCHANGED <<control, conn, turnState, producer, delivered, cbTurn,
                   cli>>

-----------------------------------------------------------------------------
(* The SDK and Claude Code, outside the repository *)

Emit(message) ==
    /\ sdk # 0 /\ ~cliDown
    /\ Len(inbox) < InboxBound
    /\ inbox' = Append(inbox, message)
    /\ UNCHANGED <<control, conn, turnState, producer, streams,
                   callbacks, cliStopped, cliDown>>

\* One result per query, once the tools of the turn are decided or the turn
\* was interrupted.
CliAnswer ==
    /\ cliTurn # "none"
    /\ \/ cliStopped
       \/ \E k \in Tasks : cliTask[k] = "running"
       \/ \A r \in Requests : ~CallbackOpen(r)
    /\ Emit(ResultMessage("human", cliTurn))
    /\ cliTurn' = "none"
    /\ UNCHANGED <<cliTask, injected>>

CliTaskStart(k) ==
    /\ cliTask[k] = "new" /\ ~cliStopped
    /\ cliTurn # "none" \/ \E other \in Tasks : cliTask[other] = "owed"
    /\ Emit(TaskMessage("alive", k))
    /\ cliTask' = [cliTask EXCEPT ![k] = "running"]
    /\ UNCHANGED <<cliTurn, injected>>

CliTaskEnd(k) ==
    /\ cliTask[k] = "running"
    /\ Emit(TaskMessage("ended", k))
    /\ cliTask' = [cliTask EXCEPT ![k] = "ended"]
    /\ UNCHANGED <<cliTurn, injected>>

\* A task reports; Claude Code then owes the continuation of the turn.
CliNotify(k) ==
    /\ cliTask[k] \in {"running", "ended"}
    /\ Emit(TaskMessage("notified", k))
    /\ cliTask' = [cliTask EXCEPT ![k] = "owed"]
    /\ UNCHANGED <<cliTurn, injected>>

\* A task an interrupt stopped reports so, and nothing follows.
CliNotifyStopped(k) ==
    /\ cliTask[k] \in {"running", "ended"} /\ cliStopped
    /\ Emit(TaskMessage("stopped", k))
    /\ cliTask' = [cliTask EXCEPT ![k] = "over"]
    /\ UNCHANGED <<cliTurn, injected>>

\* One injected turn continues after any number of notified tasks.
CliContinue ==
    /\ cliTurn = "none"
    /\ \E owed \in SUBSET {k \in Tasks : cliTask[k] = "owed"} :
         /\ owed # {}
         /\ cliTask' = [k \in Tasks |->
                          IF k \in owed THEN "over" ELSE cliTask[k]]
    /\ Emit(ResultMessage("task-notification", "none"))
    /\ UNCHANGED <<cliTurn, injected>>

\* The result of a turn nobody of this application asked for.
CliInject ==
    /\ injected < MaxInjected
    /\ injected' = injected + 1
    /\ Emit(ResultMessage("other", "none"))
    /\ UNCHANGED <<cliTurn, cliTask>>

CliDies ==
    /\ sdk # 0 /\ ~cliDown
    /\ cliDown' = TRUE
    /\ UNCHANGED <<control, conn, turnState, producer, streams, callbacks,
                   inbox, cliTurn, cliTask, injected, cliStopped>>

-----------------------------------------------------------------------------
Connecting(a) ==
    \/ AlreadyConnected(a) \/ Open(a) \/ OpenSucceeds(a)
    \/ ProbeSucceeds(a) \/ ConnectRaises(a)

ClosingStep(a) ==
    \/ CloseTakesTurnLock(a) \/ CloseTakesConnLock(a) \/ Disconnect(a)

Produce ==
    \/ SendQuery \/ QueryReturns
    \/ ReadTaskAlive \/ ReadTaskEnded \/ ReadNotification
    \/ ReadAnswer \/ ReadOtherResult
    \/ ResponseEnds
    \/ Complete \/ Discard \/ DiscardReturns \/ EndStream

StreamStep(t) ==
    \/ Consume(t) \/ ConsumeEnd(t) \/ CloseQueue(t) \/ LeaveStream(t)
    \/ OnComplete(t) \/ ForwardTerminal(t)

Callback(r) == AwaitDecision(r) \/ ReportDecision(r)

CliReports(k) == CliNotify(k) \/ CliNotifyStopped(k)

Next ==
    \/ \E t \in Turns : Send(t) \/ StreamStep(t) \/ Abandon(t) \/ DrainTimesOut(t)
    \/ \E a \in Actors : TakeTurnLock(a) \/ Connecting(a)
    \/ \E a \in Closers : Close(a) \/ ClosingStep(a)
    \/ Rewind \/ RewindReturns \/ ControlCall \/ RequestStop
    \/ Produce \/ ProducerRaises
    \/ \E r \in Requests : \/ DenyOutsideStream(r) \/ AskPermission(r)
                           \/ Callback(r) \/ Resolve(r)
    \/ \E k \in Tasks : CliTaskStart(k) \/ CliTaskEnd(k) \/ CliReports(k)
    \/ CliAnswer \/ CliContinue \/ CliInject \/ CliDies

Spec == Init /\ [][Next]_vars

-----------------------------------------------------------------------------
(* Fairness: the tasks of an event loop that can run do run; a lock that is *)
(* released again and again is granted to every waiter (anyio locks are     *)
(* first come, first served); a process that was asked answers, and one     *)
(* that is gone makes the producer raise. Callers, the user who decides on  *)
(* a request and the process that dies owe nothing.                         *)

ActorStep(a) ==
    \/ TakeTurnLock(a) \/ Connecting(a)
    \/ a \in Turns /\ (StreamStep(a) \/ DrainTimesOut(a))
    \/ a \in Closers /\ ClosingStep(a)
    \/ a \in Closing /\ Close(a)
    \/ a = "rewinder" /\ RewindReturns

CliWorks == CliAnswer \/ CliContinue \/ \E k \in Tasks : CliReports(k)

Fairness ==
    /\ WF_vars(Produce)
    /\ WF_vars(cliDown /\ ProducerRaises)
    /\ \A a \in Actors : SF_vars(ActorStep(a))
    /\ WF_vars(\E r \in Requests : Callback(r))
    /\ WF_vars(CliWorks)

FairSpec == Spec /\ Fairness

-----------------------------------------------------------------------------
(* Safety *)

StreamPhases == {"stream", "ended", "drain", "clear", "quit"}
InStream(t) == pc[t] \in StreamPhases

\* Human turns are serialized, and files are never restored or a checkpoint
\* previewed while a turn runs, although close, rewind_files and the turns
\* check the active queue and take _turn_lock at different moments.
OneTurnAtATime ==
    /\ \A t, u \in Turns : InStream(t) /\ InStream(u) => t = u
    /\ "rewinder" \in Callers /\ pc["rewinder"] = "call" =>
         \A t \in Turns : ~InStream(t)
    /\ \A t \in Turns : InStream(t) <=> active = t

\* At most one Claude Code process is connected at any time, and one that is
\* connected can still be reached to disconnect it.
OneConnection ==
    /\ \A c, d \in live : c = d
    /\ live \subseteq {sdk, dropping}

\* The connection a producer reads from is the client's connection for as
\* long as the producer uses it: nobody closes or replaces it underneath.
ProducerKeepsConnection ==
    prod \in {"query", "sent", "receive", "finish", "failing"}
        => sdk = using /\ sdk \in live

\* A turn is decided only by the answer to its own prompt: nothing an earlier
\* turn, abandoned or failed, left unread in the connection is taken for it.
AnswerIsOwn ==
    prod \in {"query", "sent", "receive", "finish"} =>
        \A result \in {deferred, chosen} :
            result.origin = "human" => result.turn = active

\* A stop reaches Claude Code, whether it came before the query was sent,
\* while it was being sent, or later.
StopIsForwarded == prod = "receive" /\ stopReq => cliStopped

\* The inductive invariant behind OneTurnAtATime, OneConnection and
\* ProducerKeepsConnection: which phases own which lock, who may be in them,
\* and what the locks protect.
Connects     == {"connlock", "open", "probe"}
Reading      == {"query", "sent", "receive", "finish", "failing"}

HoldsTurnLock(a) ==
    \/ pc[a] \in StreamPhases \cup {"call", "closeconn", "disconnect"}
    \/ pc[a] \in Connects /\ a # "control"

HoldsConnLock(a) == pc[a] \in {"open", "probe", "disconnect"}

LockOwners ==
    /\ \A a \in Actors : /\ HoldsTurnLock(a) <=> turnLock = a
                         /\ HoldsConnLock(a) <=> connLock = a
    /\ prod = "discard" <=> connLock = "producer"

ControlPhases ==
    "control" \in Callers => pc["control"] \in {"idle"} \cup Connects

ActiveTurn ==
    /\ \A t \in Turns : InStream(t) <=> active = t
    /\ active = "none" <=> prod = "off"
    /\ \A t \in Turns : pc[t] \in {"clear", "quit"} => prod = "finished"

ConnectionUse ==
    /\ sdk # 0 => sdk \in live
    /\ live \subseteq {sdk, dropping} \ {0}
    /\ dropping # 0 => /\ sdk = 0
                      /\ \/ connLock = "producer"
                         \/ \E a \in Actors : pc[a] = "disconnect"
    /\ \A a \in Actors : /\ pc[a] = "open" => sdk = 0
                         /\ pc[a] = "probe" => sdk # 0
    /\ prod \in Reading => sdk = using /\ sdk # 0

LockDiscipline == LockOwners /\ ControlPhases /\ ActiveTurn /\ ConnectionUse

\* What the handler of a turn hears and what send returns, mapped to the
\* stages of TurnProtocol.
Promise ==
    INSTANCE TurnProtocol WITH
        stage <- [t \in Turns |->
                    IF InStream(t) THEN "running"
                    ELSE IF pc[t] = "done" THEN "done"
                    ELSE IF pc[t] \in {"complete", "closeturn", "closeconn",
                                       "disconnect", "forward"}
                         THEN "over" ELSE "waiting"]

\* The client implements the turn protocol.
KeepsPromise == Promise!Spec

-----------------------------------------------------------------------------
(* Liveness *)

\* Every request for a permission that is shown is decided at some time.
UserDecides ==
    \A r \in Requests : []<>(cb[r] \notin {"asking", "waiting"})

\* Nobody stops a turn that has, or had, background tasks.
NoTaskIsStopped == [](stopReq => known = {} /\ ~background)

\* A running turn without background tasks that is stopped ends, whether or not
\* the user ever decides on what it asked.
StoppedTurnEnds ==
    NoTaskIsStopped => \A t \in Turns : (active = t /\ stopReq) ~> (active # t)

\* A turn that nobody stops ends as well, background tasks and their
\* continuations included, if the user decides on what it asks.
TurnEnds ==
    UserDecides /\ [](~stopReq) =>
        \A t \in Turns : (pc[t] # "idle") ~> (pc[t] = "done")

\* close returns, whether it is called beside a running turn, from the
\* on_complete of the turn itself (_run_scheduled_task does that), or from
\* both: it interrupts what runs and takes the turn lock and the connect lock
\* while callbacks wait for the user and answers are deferred.  As for
\* StoppedTurnEnds no turn with background tasks is stopped: close interrupts a
\* running turn, and one that waits for stopped tasks would keep it waiting.
CloseReturns ==
    UserDecides /\ NoTaskIsStopped => \A a \in Closers :
        (pc[a] = "closeturn") ~> (pc[a] = AfterClose(a))

-----------------------------------------------------------------------------
(* What the repository says, and the code does not do *)

\* A turn that is stopped ends, also when its answer was deferred until its
\* background tasks have ended.
EveryStoppedTurnEnds ==
    \A t \in Turns : (active = t /\ stopReq) ~> (active # t)

\* connect tries the permission mode so that an unsupported one raises: no
\* turn runs on a connection that did not accept its mode.
TurnRunsOnProbedConnection == active # "none" /\ sdk # 0 => sdk \in probed

=============================================================================
