------------------------------- MODULE History -----------------------------
(***************************************************************************)
(* assemble_session_messages of claude_chat_client/history.py: the         *)
(* messages that Claude Code wrote down, of a session and of its           *)
(* subagents, become turns of the same events that were sent live.         *)
(*                                                                         *)
(* A message of a user has text of a kind, "human", "notification" or      *)
(* "stdout", or results of tools.  Command envelopes are human texts.      *)
(***************************************************************************)
EXTENDS SubagentUsage

\* _history_user_origin
Origin(m) ==
    IF m.parent # Main \/ \A i \in DOMAIN m.content : m.content[i].kind # "text" THEN "none"
    ELSE CASE m.said = "human"        -> "human"
           [] m.said = "notification" -> "task-notification"
           [] m.said = "stdout"       -> "none"

\* _to_sdk_message
ToMessage(m) ==
    IF m.type = "user" THEN [origin |-> Origin(m)] @@ m ELSE m

\* Defect: what a task says of itself starts a turn.
AnyText(m) ==
    /\ m.type = "user" /\ m.parent = Main
    /\ \E i \in DOMAIN m.content : m.content[i].kind = "text"

\* _starts_human_turn
StartsTurn(m) == AnyText(m) /\ m.said = "human"

\* _group_subagent_messages
MessagesOf(subagents, tool) == SelectSeq(subagents, LAMBDA m : m.parent = tool)

RECURSIVE AdaptAll(_, _, _, _)

AppendChild(done, e, child) ==
    [ad |-> [done.ad EXCEPT !.changes = child.ad.changes],
     events |-> Append(done.events, e) \o child.events]

\* A subagent's files are gathered with its parent's.
Started(ad) == [ad |-> NewAdapter(ad.changes), events |-> <<>>]

\* The messages of a subagent follow the event that started it, unless they
\* would contain themselves.
PutEvents(subagents, ancestors, before, now) ==
    LET put(done, e) ==
            IF e.event # "subagent.started" \/ e.data.tool \in ancestors
            THEN [done EXCEPT !.events = Append(@, e)]
            ELSE AppendChild(done, e,
                     AdaptAll(subagents, ancestors \union {e.data.tool}, Started(done.ad),
                              MessagesOf(subagents, e.data.tool)))
    IN  FoldLeft(put, [ad |-> now.ad, events |-> before], now.events)

\* _adapt_history_message
AdaptMessage(subagents, ancestors, before, m) ==
    PutEvents(subagents, ancestors, before.events, Adapt(before.ad, ToMessage(m)))

AdaptAll(subagents, ancestors, before, messages) ==
    FoldLeft(LAMBDA done, m : AdaptMessage(subagents, ancestors, done, m), before, messages)

\* The command that was typed last
Typed(events) ==
    LET typed == SelectSeq(events, LAMBDA e : e.event = "user.message" /\ e.data.text[1] \in Commands)
    IN  IF typed = <<>> THEN "none" ELSE Last(typed).data.text[1]

HasPrinted(events) ==
    LET proxies == SelectSeq(events, LAMBDA e : e.event = "user.proxy.message")
    IN  proxies # <<>> /\ Last(proxies).data.text = Output

\* Defect: what the command printed is shown although it has a text of its own.
PrintedFirst(events) == IF HasPrinted(events) THEN <<Output>> ELSE <<>>

\* _history_command_result: the text of a command that answers nothing, or what
\* the command printed, stands for a reply.
CommandResult(events) ==
    IF HasPrinted(events) THEN Get(EmptyResults, Typed(events), <<Output>>) ELSE <<>>

Content(turn) ==
    IF turn.ad.mainText = <<>> THEN CommandResult(turn.events) ELSE turn.ad.mainText

\* _history_turn_completed
TurnCompleted(turn) ==
    [event |-> "turn.completed", parent |-> Main,
     data |-> [text |-> Content(turn), usage |-> UsageOf(turn.events)]]

NewTurn == [ad |-> NewAdapter(NoChanges), events |-> <<>>]

\* A message starts a turn or belongs to the last one.
PutMessage(subagents, turns, m) ==
    LET new == turns = <<>> \/ StartsTurn(m)
        k   == IF new THEN Len(turns) + 1 ELSE Len(turns)
    IN  (k :> AdaptMessage(subagents, {}, IF new THEN NewTurn ELSE turns[k], m)) @@ turns

Completed(turns) ==
    [i \in DOMAIN turns |-> Append(turns[i].events, TurnCompleted(turns[i]))]

\* assemble_session_messages, one sequence of events for every turn.
Assemble(messages, subagents) ==
    Completed(FoldLeft(LAMBDA turns, m : PutMessage(subagents, turns, m), <<>>, messages))

=============================================================================
