--------------------------- MODULE MessageAdapter --------------------------
(***************************************************************************)
(* _MessageAdapter of claude_chat_client/message_adapter.py: the messages  *)
(* of the SDK, one after another, become the events of one turn.           *)
(*                                                                         *)
(* An adapter is a record, Adapt gives the next adapter and the events.    *)
(* A text is a sequence of pieces, "blank" or a word.  Main is the parent  *)
(* of what no subagent said.  Not modelled: messages without state (tasks  *)
(* apart: hooks, limits, modes), tools of the server, approved plan modes. *)
(***************************************************************************)
EXTENDS FileChanges, SequencesExt

CONSTANT Main

Get(f, k, default) == IF k \in DOMAIN f THEN f[k] ELSE default
Over(f, g) == [k \in DOMAIN f \cup DOMAIN g |-> IF k \in DOMAIN f THEN f[k] ELSE g[k]]
Put(f, k, v) == [j \in DOMAIN f \cup {k} |-> IF j = k THEN v ELSE f[j]]

\* What a slash command prints, _local_command_stdout of history.py.
Output == <<"stdout">>

\* Slash commands, and EMPTY_COMMAND_RESULTS: what those are told to have done
\* that answer nothing.
Commands     == {"/cost", "/compact"}
EmptyResults == [c \in {"/compact"} |-> << <<"compacted">> >>]

HasText(t) == \E i \in DOMAIN t : t[i] # "blank"

Event(name, m, data) == [event |-> name, parent |-> m.parent, data |-> data]

\* _MessageAdapter.__init__; subagents in a history share the file changes.
NewAdapter(changes) ==
    [tools |-> <<>>, changes |-> changes, streams |-> <<>>, blocks |-> <<>>,
     replies |-> <<>>, envelopes |-> <<>>, mainText |-> <<>>]

-----------------------------------------------------------------------------
(* Complete messages *)

\* The name of an event of the main agent, or of a subagent.
Named(parent, mains, subagents) == IF parent = Main THEN mains ELSE subagents

ToolRequested(name, parent) ==
    CASE name = "Agent"           -> "subagent.started"
      [] name = "AskUserQuestion" -> "ask_user.requested"
      [] name = "ExitPlanMode"    -> "plan.approval.requested"
      [] OTHER -> Named(parent, "tool.requested", "subagent.tool.requested")

ToolCompleted(name, parent) ==
    CASE name = "Agent"           -> "subagent.completed"
      [] name = "AskUserQuestion" -> "ask_user.completed"
      [] name = "ExitPlanMode"    -> "plan.approval.completed"
      [] OTHER -> Named(parent, "tool.completed", "subagent.tool.completed")

BlockEvents(m, i, b) ==
    CASE b.kind = "text" ->
            IF HasText(b.text)
            THEN <<Event(Named(m.parent, "assistant.reply.completed", "subagent.reply.completed"), m,
                    [block |-> <<m.message, i>>, text |-> b.text])>>
            ELSE <<>>
      [] b.kind = "thinking" ->
            <<Event(Named(m.parent, "assistant.thinking.completed", "subagent.thinking.completed"), m,
                    [block |-> <<m.message, i>>, text |-> b.text])>>
      [] b.kind = "tool" ->
            <<Event(ToolRequested(b.name, m.parent), m, [tool |-> b.tool])>>

\* Defect: the blocks of every envelope are counted from zero.
FromZero(known, m) == 0

\* An envelope continues the blocks of its message; one that comes again
\* keeps its place.
Offset(known, m) == Get(known.offsets, m.uuid, known.next)

\* The texts that an envelope of the main agent shows, and the tools it calls.
ShownTexts(m) ==
    {i \in DOMAIN m.content : /\ m.parent = Main /\ m.content[i].kind = "text"
                              /\ HasText(m.content[i].text)}
Calls(m) ==
    LET calls == {i \in DOMAIN m.content : m.content[i].kind = "tool"}
    IN  [t \in {m.content[i].tool : i \in calls} |->
            [name |-> m.content[CHOOSE i \in calls : m.content[i].tool = t].name, parent |-> m.parent]]

InBlockOrder(texts) ==
    LET order == SetToSortSeq(DOMAIN texts, <)
    IN  [j \in DOMAIN order |-> texts[order[j]]]

\* _assistant_message.  Blank texts are counted but not shown; the text of the
\* turn is that of the last message of the main agent that has any.
AdaptAssistant(ad, m) ==
    LET key    == <<m.parent, m.message>>
        known  == Get(ad.envelopes, key, [next |-> 0, offsets |-> <<>>, texts |-> <<>>])
        offset == Offset(known, m)
        at(i)  == offset + i - 1
        texts  == Over([k \in {at(i) : i \in ShownTexts(m)} |-> m.content[k - offset + 1].text], known.texts)
    IN  [ad |-> [ad EXCEPT
                    !.envelopes = Put(@, key, [next    |-> IF m.uuid \in DOMAIN known.offsets THEN known.next
                                                           ELSE known.next + Len(m.content),
                                               offsets |-> Put(known.offsets, m.uuid, offset),
                                               texts   |-> texts]),
                    !.tools = Over(Calls(m), @),
                    !.mainText = IF ShownTexts(m) = {} THEN @ ELSE InBlockOrder(texts)],
         events |-> FlattenSeq([i \in DOMAIN m.content |-> BlockEvents(m, at(i), m.content[i])])
                    \o <<Event("assistant.message.completed", m,
                               [message |-> m.message, usage |-> m.usage, stop |-> m.stop])>>]

\* _tool_result: who asked says what the result is called.
ToolResult(ad, m, b) ==
    LET call   == Get(ad.tools, b.tool, [name |-> "none", parent |-> Main])
        parent == IF m.parent = Main THEN call.parent ELSE m.parent
    IN  [event |-> ToolCompleted(call.name, parent), parent |-> parent,
         data  |-> [tool |-> b.tool, error |-> b.error, edit |-> b.edit]]

UserText(m) ==
    IF m.parent # Main THEN "subagent.user.message"
    ELSE IF m.origin = "human" THEN "user.message" ELSE "user.proxy.message"

\* _user_message
AdaptUser(ad, m) ==
    [ad |-> ad,
     events |-> [i \in DOMAIN m.content |->
        IF m.content[i].kind = "result" THEN ToolResult(ad, m, m.content[i])
        ELSE Event(UserText(m), m, [text |-> m.content[i].text, note |-> m.note])]]

-----------------------------------------------------------------------------
(* Streams *)

\* _clear_stream_blocks
Without(ad, stream) ==
    LET others(f) == {k \in DOMAIN f : k[1] # stream}
    IN  [ad EXCEPT !.blocks = Restrict(@, others(@)), !.replies = Restrict(@, others(@))]

\* _stream_state: a new message ends what was streamed before; without one the
\* first frame names the stream.
WithStream(ad, m) ==
    LET new == [stream |-> m.uuid, message |-> IF m.raw = "message_start" THEN m.message ELSE m.uuid]
        old == IF m.raw = "message_start" /\ m.parent \in DOMAIN ad.streams
               THEN Without(ad, ad.streams[m.parent].stream) ELSE ad
    IN  IF m.raw # "message_start" /\ m.parent \in DOMAIN ad.streams THEN ad
        ELSE [old EXCEPT !.streams = Put(@, m.parent, new)]

\* _finish_stream
FinishStream(ad, m) ==
    Without([ad EXCEPT !.streams = Restrict(@, DOMAIN @ \ {m.parent})], ad.streams[m.parent].stream)

StreamData(s, m, text) ==
    [stream |-> s.stream, message |-> s.message, block |-> <<s.message, m.index>>, text |-> text]

\* _stream_block_start: the start of a reply is kept until it has text.
BlockStart(ad, s, m) ==
    LET key  == <<s.stream, m.index>>
        open == [ad EXCEPT !.blocks = Put(@, key, m.kind)]
    IN  CASE m.kind = "text" ->
                [ad |-> [open EXCEPT !.replies = Put(@, key, [start |-> TRUE, pending |-> <<>>, visible |-> FALSE])],
                 events |-> <<>>]
          [] m.kind = "thinking" ->
                [ad |-> open, events |-> <<Event("assistant.thinking.started", m, StreamData(s, m, <<>>))>>]
          [] m.kind = "tool" -> [ad |-> open, events |-> <<>>]

\* Defect: blank text that came first is dropped.
OnlyThis(reply, m) == m.text

\* The text that came before any could be seen is shown with it.
Revealed(reply, m) == reply.pending \o m.text

TextDelta(ad, s, m) ==
    LET key     == <<s.stream, m.index>>
        reply   == Get(ad.replies, key, [start |-> FALSE, pending |-> <<>>, visible |-> FALSE])
        text    == IF reply.visible THEN m.text ELSE Revealed(reply, m)
        started == IF reply.start THEN <<Event("assistant.reply.started", m, StreamData(s, m, <<>>))>> ELSE <<>>
        saved(r) == [ad EXCEPT !.replies = Put(@, key, r)]
    IN  IF reply.visible \/ HasText(text)
        THEN [ad |-> saved([start |-> FALSE, pending |-> <<>>, visible |-> TRUE]),
              events |-> started \o <<Event("assistant.reply.delta", m, StreamData(s, m, text))>>]
        ELSE [ad |-> saved([reply EXCEPT !.pending = text]), events |-> <<>>]

\* _stream_block_delta
BlockDelta(ad, s, m) ==
    CASE m.kind = "text" -> TextDelta(ad, s, m)
      [] m.kind = "thinking" ->
            [ad |-> ad, events |-> <<Event("assistant.thinking.delta", m, StreamData(s, m, m.text))>>]
      [] m.kind = "tool" ->
            [ad |-> ad, events |-> <<Event(Named(m.parent, "tool.input.delta", "subagent.tool.input.delta"), m,
                                       StreamData(s, m, <<>>))>>]

\* _stream_block_stop: the end of a reply that had no text is not told.
BlockStop(ad, s, m) ==
    LET key   == <<s.stream, m.index>>
        kind  == Get(ad.blocks, key, "none")
        reply == Get(ad.replies, key, [visible |-> FALSE])
        ends(name) == <<Event(name, m, StreamData(s, m, <<>>))>>
    IN  CASE kind = "text" ->
                [ad |-> [ad EXCEPT !.replies = Restrict(@, DOMAIN @ \ {key})],
                 events |-> IF reply.visible THEN ends("assistant.reply.stopped") ELSE <<>>]
          [] kind = "thinking" -> [ad |-> ad, events |-> ends("assistant.thinking.stopped")]
          [] OTHER -> [ad |-> ad, events |-> <<>>]

\* _stream_event
AdaptStream(before, m) ==
    LET ad == WithStream(before, m)
        s  == ad.streams[m.parent]
        told(name) == <<Event(name, m, StreamData(s, m, <<>>))>>
    IN  CASE m.raw = "message_start"       -> [ad |-> ad, events |-> told("assistant.message.started")]
          [] m.raw = "content_block_start" -> BlockStart(ad, s, m)
          [] m.raw = "content_block_delta" -> BlockDelta(ad, s, m)
          [] m.raw = "content_block_stop"  -> BlockStop(ad, s, m)
          [] m.raw = "message_stop" -> [ad |-> FinishStream(ad, m), events |-> told("assistant.message.stopped")]

-----------------------------------------------------------------------------
\* Whether an event tells that a tool which was asked for has succeeded.
Succeeded(tools, e) ==
    /\ e.event \in {"tool.completed", "subagent.tool.completed"}
    /\ ~e.data.error /\ e.data.tool \in DOMAIN tools

\* The changes with what one event tells, and with what all of them tell.
WithEdit(changes, tools, e) ==
    IF Succeeded(tools, e)
    THEN ApplyEdit(changes, tools[e.data.tool].name,
                   Over([tool |-> e.data.tool, restorable |-> e.parent = Main], e.data.edit))
    ELSE changes

Gathered(done) ==
    LET after[n \in 0..Len(done.events)] ==
            IF n = 0 THEN done.ad.changes ELSE WithEdit(after[n - 1], done.ad.tools, done.events[n])
    IN  after[Len(done.events)]

\* adapt: they are shown when there are new ones.
WithChanges(done) ==
    IF Gathered(done) = done.ad.changes THEN done
    ELSE [ad |-> [done.ad EXCEPT !.changes = Gathered(done)],
          events |-> Append(done.events,
              [event |-> "files.changed", parent |-> Main, data |-> [files |-> Snapshot(Gathered(done))]])]

Adapt(ad, m) ==
    CASE m.type = "stream"    -> AdaptStream(ad, m)
      [] m.type = "assistant" -> WithChanges(AdaptAssistant(ad, m))
      [] m.type = "user"      -> WithChanges(AdaptUser(ad, m))
      [] m.type = "task"      -> [ad |-> ad, events |-> <<Event(m.event, m, [task |-> m.task, tool |-> m.tool, usage |-> m.usage])>>]

=============================================================================
