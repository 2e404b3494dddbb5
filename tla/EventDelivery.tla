---------------------------- MODULE EventDelivery ---------------------------
(***************************************************************************)
(* How the events of a turn reach the page: ChatService emits them         *)
(* (_emit_chat_event), WebSocketEvents sends them to every connection, and  *)
(* the page, which reconnects and restores what it missed from             *)
(* get_active_chat, applies them (subscribeChatEvents, Workspace).  The     *)
(* page opens its session with two requests sent together, get_chat_session *)
(* and get_active_chat, answered at different instants.                    *)
(*                                                                         *)
(* One session and one page.  An event has an id, a kind and the           *)
(* permission it is about.  The client of the turn makes the events, one   *)
(* step at a time; what it does otherwise is modelled in ChatClient.       *)
(* Accepting a connection and registering it is one step.  Turns that were *)
(* over when the page asked for the session are left out of its history:    *)
(* they come before the story that is told here.                           *)
(***************************************************************************)
EXTENDS Naturals, SequencesExt

CONSTANTS
    Permissions,    \* what the turns ask the user, each once
    MaxConnections, \* how often the page connects
    MaxTurns,       \* how many turns there are
    MaxTexts,       \* how many texts a turn says, its turn.started included
    MaxTroubles     \* how many sends time out and requests of the page fail

ASSUME BoundsAssumption ==
    /\ {MaxTurns, MaxTexts, MaxTroubles} \subseteq Nat /\ MaxConnections \in Nat \ {0}
    /\ "none" \notin Permissions

VARIABLES
    turn,       \* the number of the turn, its phase and its texts
    made,       \* events the client made that are not emitted yet
    emitted,    \* active_chat.events
    sending,    \* the event that is sent, and to whom
    asks,       \* of every permission: "none", "pending", "denied",
                \* "answered" (decided, the callback has not returned), "over"
    opened,     \* the number of connections so far
    registered, \* WebSocketEvents._connections
    shut,       \* connections with EventConnection.closed
    alive,      \* connections whose transport works
    wire,       \* what is on its way to the page, of every connection
    socket,     \* the connection the page uses, 0 if none
    page,       \* what the page shows
    recovery,   \* the state of subscribeChatEvents, the answer it waits for, and
                \* whether the session was opened meanwhile
    load,       \* the session in the page: "asked", "answered" or "done"
    history,    \* whether get_chat_session answered, and the events it told
    troubles,   \* the sends that timed out and the requests that failed
    whole,      \* no request of the page failed since the last recovery, which the
                \* opening of the session did not overtake
    timely      \* the page took no turn from the history alone: of every turn the
                \* history told, get_active_chat had told as well

server == <<turn, made, emitted, sending, asks>>
net    == <<opened, registered, shut, alive, wire>>
ui     == <<socket, page, recovery, load, history>>
ghosts == <<troubles, whole, timely>>
vars   == <<server, net, ui, ghosts>>

Sockets == 1..MaxConnections
NoEvent == [id |-> <<0, 0>>, turn |-> 0, kind |-> "none", about |-> "none"]
None    == [events |-> <<>>, covered |-> {<<0, 0>>}, running |-> FALSE]
Idle    == [event |-> NoEvent, to |-> {}, ok |-> FALSE]
Unread  == [read |-> FALSE, events |-> <<>>]

MoreTrouble  == troubles.timeouts + troubles.failures < MaxTroubles
TimedOut     == MoreTrouble /\ troubles' = [troubles EXCEPT !.timeouts = @ + 1]
Failed       == MoreTrouble /\ troubles' = [troubles EXCEPT !.failures = @ + 1]

\* The page is connected, has opened the session and asked for what is there.
Init ==
    /\ turn = [number |-> 0, phase |-> "over", texts |-> 0, made |-> 0]
    /\ made = <<>> /\ emitted = <<>> /\ sending = Idle
    /\ asks = [p \in Permissions |-> "none"]
    /\ opened = 1 /\ registered = {1} /\ shut = {} /\ alive = {1}
    /\ wire = [c \in Sockets |-> <<>>] /\ socket = 1
    /\ page = [seen |-> {}, story |-> <<>>, dialogs |-> {}, over |-> {},
               busy |-> FALSE, active |-> 0]
    /\ recovery = [running |-> FALSE, answer |-> None, buffer |-> <<>>, covered |-> {}, crossed |-> FALSE]
    /\ load = [at |-> "asked", queue |-> <<>>, answer |-> None]
    /\ troubles = [timeouts |-> 0, failures |-> 0, aborts |-> FALSE] /\ whole = TRUE
    /\ history = Unread /\ timely = TRUE

-----------------------------------------------------------------------------
(* The turn *)

Numbered(changed) == [changed EXCEPT !.made = @ + 1]

\* The client makes an event and queues it; its number is part of its id.
Make(changed, kind, p) ==
    /\ turn' = Numbered(changed)
    /\ made' = Append(made, [id |-> <<turn'.number, turn'.made>>, turn |-> turn'.number,
                             kind |-> kind, about |-> p])

\* send_chat_message clears the events of the turn before.
Prompt ==
    /\ turn.phase = "over" /\ turn.number < MaxTurns
    /\ turn' = [number |-> turn.number + 1, phase |-> "running", texts |-> 0, made |-> 0]
    /\ emitted' = <<>>
    /\ UNCHANGED <<made, sending, asks, net, ui, ghosts>>

Say ==
    /\ turn.phase = "running" /\ turn.texts < MaxTexts
    /\ Make([turn EXCEPT !.texts = @ + 1], "text", "none")
    /\ UNCHANGED <<emitted, sending, asks, net, ui, ghosts>>

\* _can_use_tool registers the request before its event is queued.
Ask(p) ==
    /\ turn.phase = "running" /\ turn.texts > 0 /\ asks[p] = "none"
    /\ asks' = [asks EXCEPT ![p] = "pending"]
    /\ Make(turn, "requested", p)
    /\ UNCHANGED <<emitted, sending, net, ui, ghosts>>

\* resolve_permission raises for what is decided already.
Denied(ps) == [p \in Permissions |-> IF p \in ps /\ asks[p] = "pending" THEN "denied" ELSE asks[p]]

\* The callback returns what was decided.
AskReturns(p) ==
    /\ asks[p] \in {"answered", "denied"}
    /\ asks' = [asks EXCEPT ![p] = "over"]
    /\ Make(turn, "resolved", p)
    /\ UNCHANGED <<emitted, sending, net, ui, ghosts>>

\* interrupt: somebody, maybe at another page, stops the turn; the open
\* questions are denied.
Stop ==
    /\ turn.phase = "running" /\ asks # Denied(Permissions)
    /\ asks' = Denied(Permissions)
    /\ UNCHANGED <<turn, made, emitted, sending, net, ui, ghosts>>

Complete ==
    /\ turn.phase = "running" /\ turn.texts > 0 /\ \A p \in Permissions : asks[p] \in {"none", "over"}
    /\ Make([turn EXCEPT !.phase = "ending"], "completed", "none")
    /\ UNCHANGED <<emitted, sending, asks, net, ui, ghosts>>

\* send returns after its last event was emitted.
TurnOver ==
    /\ turn.phase = "ending" /\ made = <<>> /\ sending = Idle
    /\ turn' = [turn EXCEPT !.phase = "over"]
    /\ UNCHANGED <<made, emitted, sending, asks, net, ui, ghosts>>

-----------------------------------------------------------------------------
(* Emitting and sending *)

Pending(p) == asks[p] \in {"pending", "denied", "answered"}

\* Defect: what nobody can be shown is not denied.
NotDenied(e) == asks

\* _deny_undeliverable_permission
Undeliverable(e) == IF e.kind = "requested" THEN Denied({e.about}) ELSE asks

\* _emit_chat_event up to the sends: nothing comes between the append and
\* the look at the connections.
Emit ==
    /\ made # <<>> /\ sending = Idle
    /\ made' = Tail(made)
    /\ emitted' = Append(emitted, Head(made))
    /\ IF registered = {}
       THEN asks' = Undeliverable(Head(made)) /\ UNCHANGED sending
       ELSE sending' = [event |-> Head(made), to |-> registered, ok |-> FALSE] /\ UNCHANGED asks
    /\ UNCHANGED <<turn, net, ui, ghosts>>

Sent(c, ok) == sending' = [sending EXCEPT !.to = @ \ {c}, !.ok = @ \/ ok]
OnWire(c) == wire' = [wire EXCEPT ![c] = Append(@, sending.event)]

\* EventConnection.send; a connection that is lost may look as if it worked.
Send(c) ==
    /\ c \in sending.to
    /\ \/ c \in shut /\ Sent(c, FALSE) /\ UNCHANGED <<wire, shut>>
       \/ c \in alive \ shut /\ Sent(c, TRUE) /\ OnWire(c) /\ UNCHANGED shut
       \/ c \notin alive \cup shut /\ Sent(c, TRUE) /\ UNCHANGED <<wire, shut>>
       \/ c \notin alive \cup shut /\ Sent(c, FALSE) /\ shut' = shut \cup {c} /\ UNCHANGED wire
    /\ UNCHANGED <<turn, made, emitted, asks, opened, registered, alive, ui, ghosts>>

\* The send takes too long; its frame may arrive all the same.
SendTimesOut(c) ==
    /\ c \in sending.to \ shut /\ c \in alive /\ TimedOut
    /\ Sent(c, FALSE) /\ shut' = shut \cup {c}
    /\ OnWire(c) \/ UNCHANGED wire
    /\ UNCHANGED <<turn, made, emitted, asks, opened, registered, alive, ui, whole, timely>>

EmitReturns ==
    /\ sending # Idle /\ sending.to = {}
    /\ asks' = IF sending.ok THEN asks ELSE Undeliverable(sending.event)
    /\ sending' = Idle
    /\ UNCHANGED <<turn, made, emitted, net, ui, ghosts>>

\* Defect: the connection that goes is counted among those that stay.
StillCounted(c) == registered = {}

LastOf(c) == registered \ {c} = {}

\* The receive of chat_events raises; the last connection that goes takes
\* the open questions with it.
Disconnect(c) ==
    /\ c \in registered \ alive
    /\ registered' = registered \ {c} /\ shut' = shut \cup {c}
    /\ asks' = IF LastOf(c)
               THEN Denied({e.about : e \in Range(emitted)})
               ELSE asks
    /\ UNCHANGED <<turn, made, emitted, sending, opened, alive, wire, ui, ghosts>>

\* The transport breaks; some of what was on its way still arrives.
Break(c) ==
    /\ c \in alive
    /\ alive' = alive \ {c}
    /\ \E n \in 0..Len(wire[c]) : wire' = [wire EXCEPT ![c] = SubSeq(@, 1, n)]
    /\ UNCHANGED <<server, opened, registered, shut, ui, ghosts>>

-----------------------------------------------------------------------------
(* The page *)

\* The questions that events leave open, pendingPermissionsFromEvents; what is
\* asked after the end of its turn is not opened.
OpenIn(es) ==
    {es[i] : i \in {j \in DOMAIN es :
        /\ es[j].kind = "requested"
        /\ ~\E k \in DOMAIN es : \/ (k > j /\ es[k].kind = "resolved" /\ es[k].about = es[j].about)
                                \/ (es[k].kind = "completed" /\ es[k].turn = es[j].turn)}}

Ids(es) == {es[i].id : i \in DOMAIN es}
IsStory(e) == e.kind \in {"text", "completed"}

\* What of a sequence is in a set, in its order.
Only(es, S) ==
    LET kept[i \in 0..Len(es)] ==
            IF i = 0 THEN <<>>
            ELSE IF es[i] \in S THEN Append(kept[i - 1], es[i]) ELSE kept[i - 1]
    IN  kept[Len(es)]

\* Defect: what was applied is applied again.
NeverSeen(pg, e) == FALSE

Seen(pg, e) == e.id \in pg.seen

\* applyLiveEvent
ApplyEvent(pg, e) ==
    LET seen == [pg EXCEPT !.seen = @ \cup {e.id}] IN
    IF Seen(pg, e) THEN pg
    ELSE CASE e.kind = "requested" ->
                IF e.turn \in pg.over THEN seen ELSE [seen EXCEPT !.dialogs = @ \cup {e}]
           [] e.kind = "resolved"  -> [seen EXCEPT !.dialogs = {d \in @ : d.about # e.about}]
           [] e.kind = "completed" ->
                [seen EXCEPT !.story = Append(@, e), !.over = @ \cup {e.turn},
                             !.dialogs = {d \in @ : d.turn # e.turn}, !.busy = @ /\ pg.active # e.turn]
           [] OTHER ->
                [seen EXCEPT !.story = Append(@, e),
                             !.active = IF e.turn \in pg.over THEN @ ELSE e.turn,
                             !.busy = @ \/ e.turn \notin pg.over]

\* One event after the other; a recursive function, which can be reasoned about.
ApplyAll(pg, es) ==
    LET after[i \in 0..Len(es)] == IF i = 0 THEN pg ELSE ApplyEvent(after[i - 1], es[i])
    IN  after[Len(es)]

\* The handler of subscribeChatEvents' caller: while the session is opened,
\* events wait.
Handle(pg, opening, es) ==
    /\ page' = IF opening.at = "done" THEN ApplyAll(pg, es) ELSE pg
    /\ load' = IF opening.at = "done" THEN opening ELSE [opening EXCEPT !.queue = @ \o es]

\* Another websocket opens: the page restores what it missed.
Connect ==
    /\ socket = 0 /\ opened < MaxConnections
    /\ opened' = opened + 1 /\ socket' = opened + 1
    /\ registered' = registered \cup {opened + 1} /\ alive' = alive \cup {opened + 1}
    /\ recovery' = [recovery EXCEPT !.running = TRUE]
    /\ UNCHANGED <<server, shut, wire, page, load, history, ghosts>>

Receive ==
    /\ socket # 0 /\ wire[socket] # <<>>
    /\ wire' = [wire EXCEPT ![socket] = Tail(@)]
    /\ IF recovery.running
       THEN recovery' = [recovery EXCEPT !.buffer = Append(@, Head(wire[socket]))] /\ UNCHANGED <<page, load>>
       ELSE Handle(page, load, <<Head(wire[socket])>>) /\ UNCHANGED recovery
    /\ UNCHANGED <<server, opened, registered, shut, alive, socket, history, ghosts>>

\* Defect: only what is shown is covered.
CoveredShown(shown) == Ids(shown)

Covered(shown) == Ids(emitted)

\* get_active_chat, including a turn that is over
Snapshot ==
    LET shown == Only(emitted, {e \in Range(emitted) : e.kind # "requested" \/ Pending(e.about)})
    IN  [events  |-> shown, covered |-> Covered(shown),
         running |-> turn.phase # "over"
                     /\ \A i \in DOMAIN emitted : emitted[i].kind # "completed"]

Answer ==
    /\ recovery.running /\ recovery.answer = None
    /\ recovery' = [recovery EXCEPT !.answer = Snapshot]
    /\ UNCHANGED <<server, net, socket, page, load, history, ghosts>>

\* What waited for a recovery and is not covered is applied.
Resume(pg, opening, covered) ==
    /\ recovery' = [running |-> FALSE, answer |-> None, buffer |-> <<>>, covered |-> covered,
                     crossed |-> FALSE]
    /\ Handle(pg, opening, Only(recovery.buffer, {e \in Range(recovery.buffer) : e.id \notin covered}))

\* The answer of a recovery arrives.
Recover ==
    LET a  == recovery.answer
        pg == IF load.at = "done" THEN ApplyAll(page, a.events) ELSE page
    IN  /\ recovery.running /\ a # None
        /\ Resume([pg EXCEPT !.busy = a.running, !.dialogs = OpenIn(a.events)],
                  IF load.at = "done" THEN load ELSE [load EXCEPT !.queue = @ \o a.events], a.covered)
        /\ whole' = ~recovery.crossed
        /\ UNCHANGED <<server, net, socket, history, troubles, timely>>

\* The session could not be opened: what waited is dropped.
NotOpened == IF load.at = "done" THEN load ELSE [at |-> "done", queue |-> <<>>, answer |-> None]

\* The requests that are under way fail: a recovery resumes with what waited.
Abort ==
    /\ history' = Unread
    /\ IF recovery.running
       THEN Resume(page, NotOpened, recovery.covered)
       ELSE load' = NotOpened /\ UNCHANGED <<page, recovery>>

UnderWay == recovery.running \/ load.at # "done"

\* The close event of the websocket, after its last message, aborts the requests.
Noticed ==
    /\ socket # 0 /\ socket \notin alive /\ wire[socket] = <<>>
    /\ socket' = 0 /\ Abort
    /\ troubles' = [troubles EXCEPT !.aborts = @ \/ UnderWay] /\ whole' = (whole /\ ~UnderWay)
    /\ UNCHANGED <<server, net, timely>>

RecoverFails ==
    /\ recovery.running /\ Failed /\ whole' = FALSE
    /\ Resume(page, load, recovery.covered)
    /\ UNCHANGED <<server, net, socket, history, timely>>

\* A request waits for the connection.
LoadAnswered ==
    /\ load.at = "asked" /\ socket # 0
    /\ load' = [load EXCEPT !.at = "answered", !.answer = Snapshot]
    /\ UNCHANGED <<server, net, socket, page, recovery, history, ghosts>>

\* What the history tells of a turn: its texts and, also of a turn that still
\* runs, a completion (_history_turn_completed); it knows of no question.
Tale(n, texts) ==
    [i \in 1..(texts + 1) |-> [id |-> <<n, i>>, turn |-> n, about |-> "none",
                               kind |-> IF i <= texts THEN "text" ELSE "completed"]]

\* get_chat_session reads the transcript, which may be behind the turn.
ReadHistory ==
    /\ load.at # "done" /\ socket # 0 /\ ~history.read
    /\ \E n \in Nat \cap {turn.number - 1, turn.number} :
        \E texts \in [1..n -> 1..MaxTexts] :
            /\ n = turn.number /\ n > 0 => turn.texts > 0 /\ texts[n] <= turn.texts
            /\ history' = [read   |-> TRUE,
                           events |-> FlattenSeq([k \in 1..n |-> Tale(k, texts[k])])]
    /\ UNCHANGED <<server, net, socket, page, recovery, load, ghosts>>

\* Defect: what both answers tell is told twice.
InHistory(events) == Range(history.events)

\* The turns that only the history tells
OnlyInHistory(events) ==
    {e \in Range(history.events) : \A f \in Range(events) : f.turn # e.turn}

\* The session is opened: the page shows both answers and then what waited.
Loaded ==
    LET a    == load.answer
        told == Only(history.events, OnlyInHistory(a.events))
        all  == told \o a.events
        last == a.events[Len(a.events)].turn
        pg   == [seen |-> a.covered \cup Ids(told),
                 story |-> Only(all, {e \in Range(all) : IsStory(e)}),
                 dialogs |-> OpenIn(a.events),
                 over |-> {e.turn : e \in {f \in Range(all) : f.kind = "completed"}},
                 busy |-> a.running, active |-> IF a.running /\ a.events # <<>> THEN last ELSE page.active]
    IN  /\ load.at = "answered" /\ history.read
        /\ page' = ApplyAll(pg, load.queue)
        /\ load' = [at |-> "done", queue |-> <<>>, answer |-> None]
        /\ history' = Unread
        /\ recovery' = [recovery EXCEPT !.crossed = @ \/ recovery.running]
        /\ timely' = (timely /\ told = <<>>)
        /\ UNCHANGED <<server, net, socket, troubles, whole>>

LoadFails ==
    /\ load.at # "done" /\ Failed /\ whole' = FALSE /\ load' = NotOpened
    /\ history' = Unread
    /\ UNCHANGED <<server, net, socket, page, recovery, timely>>

\* The user decides on what is shown, respond_chat_permission; what was decided
\* otherwise stays as it was, and so does the dialog.
Respond(p) ==
    /\ asks[p] = "pending" /\ p \in {d.about : d \in page.dialogs}
    /\ asks' = [asks EXCEPT ![p] = "answered"]
    /\ page' = [page EXCEPT !.dialogs = {d \in @ : d.about # p}]
    /\ UNCHANGED <<turn, made, emitted, sending, net, socket, recovery, load, history, ghosts>>

-----------------------------------------------------------------------------
Turns   == Prompt \/ Say \/ Stop \/ Complete \/ TurnOver \/ \E p \in Permissions : Ask(p)
Returns == \E p \in Permissions : AskReturns(p)
Deliver == Emit \/ EmitReturns \/ \E c \in Sockets : Send(c) \/ Disconnect(c)
Trouble == \E c \in Sockets : SendTimesOut(c) \/ Break(c)
Show    == Noticed \/ Receive \/ LoadAnswered \/ ReadHistory \/ Loaded \/ Answer \/ Recover
Failure == LoadFails \/ RecoverFails
Decide  == \E p \in Permissions : Respond(p)

Next == Turns \/ Returns \/ Deliver \/ Trouble \/ Connect \/ Show \/ Failure \/ Decide

Spec == Init /\ [][Next]_vars

\* The event loop goes on, sends are bounded by five seconds, a broken transport
\* is noticed, the page handles what arrives and its requests are answered,
\* and the user decides on what is shown.  Turns and troubles are not forced.
FairSpec == Spec /\ WF_vars(Deliver) /\ WF_vars(Show) /\ WF_vars(Decide)

-----------------------------------------------------------------------------
(* Properties *)

\* The events of a turn are emitted in the order of their numbers, and what the
\* page was told of a turn is applied in that order and nothing twice, although
\* the retained events, the history, live events and the events of an earlier
\* connection overlap and the answers of the two opening requests come at
\* different instants; only a failed restoring request may disturb the order.
InOrder ==
    /\ \A i \in DOMAIN emitted : emitted[i].id = <<turn.number, i>>
    /\ troubles.failures = 0 /\ ~troubles.aborts =>
        \A i, j \in DOMAIN page.story : i < j /\ page.story[i].turn = page.story[j].turn =>
            page.story[i].id[2] < page.story[j].id[2]

\* The page is connected and everything on its way has been handled; the
\* events of a turn did not arrive after those of the next, and the page took no
\* turn from the history alone (see RunningIsOpen).
Quiet ==
    /\ made = <<>> /\ sending = Idle /\ socket \in alive \ shut /\ wire[socket] = <<>>
    /\ ~recovery.running /\ load.at = "done" /\ whole /\ timely
    /\ \A i, j \in DOMAIN page.story : i < j => page.story[i].turn <= page.story[j].turn

\* A turn that runs counts as open in the page.  It does not always: when
\* get_active_chat answers before a turn begins and the history is read after,
\* the page takes the completion that the history adds for the end of the turn,
\* drops its questions and is never busy.  No recovery repairs this.
RunningIsOpen == turn.phase = "running" => turn.number \notin page.over

\* Once a connected page is quiet it shows the whole turn, knows whether the
\* turn runs, offers every question that waits for the user, and none of a
\* turn that is over, whatever connections broke and sends timed out before.
\* On its first connection it offers no question that is settled either; after
\* a recovery a request that comes late may open one again.
QuietIsUpToDate ==
    Quiet =>
        /\ {e \in Range(page.story) : e.turn = turn.number} = {e \in Range(emitted) : IsStory(e)}
        /\ emitted # <<>> => page.busy = (turn.phase = "running")
        /\ {p \in Permissions : asks[p] = "pending"} \subseteq {d.about : d \in page.dialogs}
        /\ ~page.busy => page.dialogs = {}
        /\ opened = 1 => \A d \in page.dialogs : asks[d.about] # "over"

\* When no page is connected no question waits: the event that cannot be
\* delivered and the last connection that goes both deny it.
NobodyWaits ==
    registered = {} /\ sending = Idle =>
        \A e \in Range(emitted) : e.kind = "requested" => asks[e.about] # "pending"

\* A question is decided in the end, by the user or because nobody can be
\* asked, however often the page loses its connection.  A send that times out
\* leaves a connection that is never used again and never closed, a failed
\* recovery is not repeated, and a page that took a running turn for closed
\* drops its questions: none of the three is covered.
AskedIsDecided ==
    [](troubles.timeouts + troubles.failures = 0 /\ timely)
        => \A p \in Permissions : asks[p] = "pending" ~> asks[p] # "pending"

=============================================================================
