---------------------------- MODULE Conversation ---------------------------
(***************************************************************************)
(* A conversation: Claude Code works on prompts with subagents and tools,  *)
(* streams what it says, sends complete messages in pieces and writes them *)
(* down; the adapter of the running turn makes events of them.             *)
(*                                                                         *)
(* Claude Code is external: a script says what every agent will say in     *)
(* every turn, this module in which order that may arrive.  A subagent is  *)
(* called by the tool with its name.  A frame of a stream may be lost, an  *)
(* envelope may come twice, a tool may not tell what was in its file, and  *)
(* somebody else may change a file.                                        *)
(***************************************************************************)
EXTENDS SubagentUsage

CONSTANTS
    Agents,         \* Main and the subagents
    Scripts,        \* turn -> agent -> messages -> blocks, which turns are
                    \* commands, who is streamed, and how many frames are lost,
                    \* envelopes repeated, files not told, and changes made by
                    \* somebody else
    Contents,       \* what may be in a file
    MaxBlocks       \* the most blocks of a message

IsSeq(s) == s \in Seq(Range(s))

\* What an agent says in a turn: messages of blocks, the text of a block in pieces.
IsSaid(messages) ==
    /\ IsSeq(messages)
    /\ \A n \in DOMAIN messages : IsSeq(messages[n]) /\ \A i \in DOMAIN messages[n] :
         messages[n][i].kind \in {"text", "thinking", "tool"} /\ IsSeq(messages[n][i].text)

\* A subagent has the name of the tool call that started it, so no other turn
\* has one of its name.
ASSUME ScriptsAssumption ==
    /\ Main \in Agents /\ "frame" \notin Agents
    /\ \A s \in Scripts :
         /\ IsSeq(s.turns) /\ s.turns # <<>>
         /\ \A k \in DOMAIN s.turns, a \in Agents : IsSaid(s.turns[k][a])
         /\ \A j, k \in DOMAIN s.turns, a \in Agents \ {Main} :
              s.turns[j][a] # <<>> /\ s.turns[k][a] # <<>> => j = k

VARIABLES
    script,         \* the script of this conversation
    turn,           \* the number of the running turn
    at,             \* how far every agent is
    asked, answered,\* the tools that were asked for, and that answered
    background,     \* the subagents that do not keep their parent waiting
    adapter,        \* the live adapter of the turn
    events,         \* the events of the turn
    told,           \* the turns that are over: their events and their end
    main, subs,     \* what is written down, of the session and of subagents
    disk,           \* the files
    edited,         \* of every file: what the tools of the turn really did
    count           \* frames and envelopes so far, and what went wrong

work == <<script, turn, at, asked, answered, background>>
live == <<adapter, events>>
kept == <<main, subs>>
disks == <<disk, edited>>
vars == <<work, live, told, kept, disks, count>>

-----------------------------------------------------------------------------
NotBegun == [n |-> 0, closed |-> TRUE, open |-> 0, piece |-> 0, done |-> 0, sent |-> 0]
NotEdited == [first |-> Unknown, last |-> Unknown, joined |-> TRUE]
NoEdit == [file |-> Unknown]

Script    == script.turns
Said(a)   == Script[turn][a]
Blocks(a) == Said(a)[at[a].n]
ToolBlocks(bs) == {bs[i] : i \in {j \in DOMAIN bs : bs[j].kind = "tool"}}
CallsOf(s) ==
    UNION {UNION {ToolBlocks(s.turns[k][a][n]) : n \in DOMAIN s.turns[k][a]} :
              k \in DOMAIN s.turns, a \in Agents}

\* A tool call has a name of its own, and a file tool writes something into a file.
ASSUME CallsAssumption ==
    \A s \in Scripts : \A b, c \in CallsOf(s) :
        /\ b.tool = c.tool => b.name = c.name
        /\ b.name \in FileTools => b.file \in Files /\ b.content # Unknown

ToolsOf(a) == UNION {ToolBlocks(Said(a)[k]) : k \in 1..at[a].n}
Finished(a) ==
    /\ at[a].n = Len(Said(a)) /\ at[a].closed
    /\ \A b \in ToolsOf(a) : b.tool \in answered

\* What the user typed, a command or a prompt.
Entered(k) == Get(script.commands, k, "prompt")

Prompt(k) ==
    [type |-> "user", parent |-> Main, uuid |-> <<"prompt", k>>, said |-> "human", note |-> NoNote,
     content |-> <<[kind |-> "text", text |-> <<Entered(k)>>]>>]

Init ==
    /\ script \in Scripts /\ turn = 1 /\ at = [a \in Agents |-> NotBegun]
    /\ asked = {} /\ answered = {} /\ background = {}
    /\ adapter = NewAdapter(NoChanges) /\ events = <<>> /\ told = <<>>
    /\ main = <<Prompt(1)>> /\ subs = <<>>
    /\ disk = [f \in Files |-> CHOOSE c \in Contents : \A d \in Contents : c <= d]
    /\ edited = [f \in Files |-> NotEdited]
    /\ count = [frame |-> 0, packet |-> 0, lost |-> 0, repeats |-> 0, untold |-> 0, foreign |-> 0]

-----------------------------------------------------------------------------
Deliver(m) ==
    LET now == Adapt(adapter, m)
    IN  adapter' = now.ad /\ events' = events \o now.events

WriteDown(a, m) ==
    IF a = Main THEN main' = Append(main, m) /\ UNCHANGED subs
    ELSE subs' = Append(subs, m) /\ UNCHANGED main

Moves(a, to) == at' = [at EXCEPT ![a] = to]

\* One frame of the stream of an agent arrives, or is lost.
Frame(a, raw, index, kind, text) ==
    LET m == [type |-> "stream", raw |-> raw, parent |-> a, uuid |-> <<"frame", count.frame>>,
              message |-> <<a, at'[a].n>>, index |-> index, kind |-> kind, text |-> text]
    IN  \/ /\ Deliver(m)
           /\ count' = [count EXCEPT !.frame = @ + 1]
        \/ /\ count.lost < script.lost
           /\ count' = [count EXCEPT !.frame = @ + 1, !.lost = @ + 1]
           /\ UNCHANGED live

Calm == UNCHANGED <<script, turn, asked, answered, background, told, kept, disks>>

\* The tools of the last message answered: the next one may begin.
MayBegin(a) ==
    /\ Len(told) < turn
    /\ a = Main \/ a \in asked
    /\ at[a].closed /\ at[a].n < Len(Said(a))
    /\ \A b \in ToolsOf(a) : b.tool \in answered

Begun(a) == [NotBegun EXCEPT !.n = at[a].n + 1, !.closed = FALSE]

Begin(a) ==
    /\ a \in script.streamed /\ MayBegin(a)
    /\ Moves(a, Begun(a))
    /\ Frame(a, "message_start", 0, "none", <<>>)
    /\ Calm

OpenBlock(a) ==
    /\ a \in script.streamed /\ ~at[a].closed /\ at[a].open = 0 /\ at[a].done < Len(Blocks(a))
    /\ Moves(a, [at[a] EXCEPT !.open = at[a].done + 1, !.piece = 0])
    /\ Frame(a, "content_block_start", at[a].done, Blocks(a)[at[a].done + 1].kind, <<>>)
    /\ Calm

Piece(a) ==
    /\ at[a].open > 0
    /\ LET b == Blocks(a)[at[a].open]
       IN  /\ at[a].piece < Len(b.text)
           /\ Moves(a, [at[a] EXCEPT !.piece = @ + 1])
           /\ Frame(a, "content_block_delta", at[a].done, b.kind, <<b.text[at[a].piece + 1]>>)
    /\ Calm

CloseBlock(a) ==
    /\ at[a].open > 0 /\ at[a].piece = Len(Blocks(a)[at[a].open].text)
    /\ Moves(a, [at[a] EXCEPT !.open = 0, !.done = @ + 1])
    /\ Frame(a, "content_block_stop", at[a].done, "none", <<>>)
    /\ Calm

CloseMessage(a) ==
    /\ ~at[a].closed /\ a \in script.streamed /\ at[a].sent = Len(Blocks(a))
    /\ Moves(a, [at[a] EXCEPT !.closed = TRUE])
    /\ Frame(a, "message_stop", 0, "none", <<>>)
    /\ Calm

\* The envelope with the blocks from..to of message n of an agent.
Envelope(a, n, from, to) ==
    [type |-> "assistant", parent |-> a, uuid |-> <<"packet", count.packet>>, message |-> <<a, n>>,
     content |-> SubSeq(Said(a)[n], from, to), stop |-> to = Len(Said(a)[n]), usage |-> to]

\* An envelope with the blocks that are complete, or with some of them.  What
\* is not streamed begins with its first envelope and ends with its last.
SendEnvelope(a, to) ==
    LET whole == a \notin script.streamed
        now   == IF whole /\ MayBegin(a) THEN Begun(a) ELSE at[a]
        m     == Envelope(a, now.n, now.sent + 1, to)
    IN  /\ ~now.closed /\ now.sent < to
        /\ to <= (IF whole THEN Len(Said(a)[now.n]) ELSE now.done)
        /\ Deliver(m) /\ WriteDown(a, m)
        /\ asked' = asked \union {b.tool : b \in ToolBlocks(m.content)}
        /\ Moves(a, [now EXCEPT !.sent = to, !.closed = whole /\ to = Len(Said(a)[now.n])])
        /\ count' = [count EXCEPT !.packet = @ + 1]
        /\ UNCHANGED <<script, turn, answered, background, told, disks>>

\* The last envelope of an agent comes once more.
RepeatEnvelope(a) ==
    /\ Len(told) < turn /\ count.repeats < script.repeats
    /\ LET all == IF a = Main THEN main ELSE subs
       IN  /\ all # <<>> /\ all[Len(all)].type = "assistant" /\ all[Len(all)].message = <<a, at[a].n>>
           /\ Deliver(all[Len(all)])
    /\ count' = [count EXCEPT !.repeats = @ + 1]
    /\ UNCHANGED <<work, told, kept, disks>>

-----------------------------------------------------------------------------
Answers(a, b, edit) ==
    LET m == [type |-> "user", parent |-> a, uuid |-> <<"result", b.tool>>, said |-> "none",
              note |-> NoNote, origin |-> "none",
              content |-> <<[kind |-> "result", tool |-> b.tool, error |-> FALSE, edit |-> edit]>>]
    IN  /\ Deliver(m) /\ WriteDown(a, m)
        /\ answered' = answered \union {b.tool}

Pending(a, b) == b \in ToolsOf(a) /\ b.tool \in asked \ answered

\* A file tool has run.
FileAnswers(a, b, tells) ==
    /\ Pending(a, b) /\ b.name \in FileTools
    /\ tells \/ count.untold < script.untold
    /\ LET f == b.file
           before == disk[f]
       IN  /\ Answers(a, b, [file |-> f, before |-> IF tells THEN before ELSE Unknown,
                             after |-> b.content, created |-> FALSE])
           /\ disk' = [disk EXCEPT ![f] = b.content]
           /\ edited' = [edited EXCEPT ![f] =
                [first  |-> IF @ = NotEdited THEN before ELSE @.first,
                 last   |-> b.content,
                 joined |-> @.joined /\ (@ = NotEdited \/ @.last = before)]]
    /\ count' = [count EXCEPT !.untold = @ + (IF tells THEN 0 ELSE 1)]
    /\ UNCHANGED <<script, turn, at, asked, background, told>>

\* Any other tool; only a subagent in the background answers before its end.
ToolAnswers(a, b) ==
    /\ Pending(a, b) /\ b.name \notin FileTools
    /\ b.name = "Agent" => b.tool \in background \/ Finished(b.tool)
    /\ Answers(a, b, NoEdit)
    /\ UNCHANGED <<script, turn, at, asked, background, told, disks, count>>

Task(name, b, tool, usage) ==
    [type |-> "task", event |-> name, parent |-> Main, task |-> <<"task", b.tool>>,
     tool |-> tool, usage |-> usage]

\* A subagent starts in the background.
Launch(a, b, tool) ==
    /\ Pending(a, b) /\ b.name = "Agent" /\ b.tool \notin background
    /\ at[b.tool] = NotBegun
    /\ Deliver(Task("task.started", b, tool, NoUsage))
    /\ background' = background \union {b.tool}
    /\ UNCHANGED <<script, turn, at, asked, answered, told, kept, disks, count>>

Tokens(a) == Len(FlattenSeq(Said(a)))

\* The end of a subagent in the background is told and written down.
Notify(b) ==
    /\ b.tool \in background \intersect answered /\ Finished(b.tool)
    /\ Deliver(Task("task.completed", b, b.tool, Tokens(b.tool)))
    /\ WriteDown(Main,
          [type |-> "user", parent |-> Main, uuid |-> <<"note", b.tool>>, said |-> "notification",
           content |-> <<[kind |-> "text", text |-> <<"notification">>]>>,
           note |-> [task |-> <<"task", b.tool>>, tool |-> b.tool, total |-> Tokens(b.tool)]])
    /\ background' = background \ {b.tool}
    /\ UNCHANGED <<script, turn, at, asked, answered, told, disks, count>>

\* Somebody else changes a file.
Foreign(f, c) ==
    /\ count.foreign < script.foreign /\ disk[f] # c /\ edited[f] # NotEdited
    /\ disk' = [disk EXCEPT ![f] = c]
    /\ count' = [count EXCEPT !.foreign = @ + 1]
    /\ UNCHANGED <<work, live, told, kept, edited>>

-----------------------------------------------------------------------------
IsCommand(k) == Script[k][Main] = <<>>

\* A slash command prints something and calls no model.
PrintOutput ==
    /\ IsCommand(turn) /\ main[Len(main)].said = "human"
    /\ WriteDown(Main,
          [type |-> "user", parent |-> Main, uuid |-> <<"print", turn>>, said |-> "stdout",
           note |-> NoNote, content |-> <<[kind |-> "text", text |-> Output]>>])
    /\ UNCHANGED <<work, live, told, disks, count>>

\* The texts of the last message of the main agent that has any.
LastReplies(k) ==
    LET replies(bs) == SelectSeq(bs, LAMBDA b : b.kind = "text" /\ HasText(b.text))
        said == SelectSeq(Script[k][Main], LAMBDA bs : replies(bs) # <<>>)
        last == IF said = <<>> THEN <<>> ELSE replies(Last(said))
    IN  [i \in DOMAIN last |-> last[i].text]

NoResult    == [given |-> FALSE, text |-> <<>>]
Given(text) == [given |-> TRUE, text |-> text]

\* What Claude Code says the result of a turn is, if it says so: the last reply,
\* what a command printed, or nothing when the command answers nothing.
Results(k) ==
    IF ~IsCommand(k) THEN {NoResult, Given(LastReplies(k))}
    ELSE IF Entered(k) \in DOMAIN EmptyResults THEN {NoResult, Given(<<>>)}
    ELSE {Given(<<Output>>)}

\* Defect: a command that answers nothing is told to have said nothing.
AsGiven(result) == IF result.given THEN result.text ELSE adapter.mainText

\* The text that the turn is told to end with: what Claude Code gives, else what
\* the adapter kept, else the text of the command.
TurnContent(result) ==
    LET content == IF result.given THEN result.text ELSE adapter.mainText
    IN  IF \E i \in DOMAIN content : HasText(content[i]) THEN content
        ELSE Get(EmptyResults, Entered(turn), content)

\* The result of the turn arrives.
EndTurn ==
    /\ Len(told) < turn /\ Finished(Main) /\ background = {}
    /\ IsCommand(turn) => main[Len(main)].said = "stdout"
    /\ \E result \in Results(turn) :
         told' = Append(told, [events |-> events, usage |-> UsageOf(events), text |-> TurnContent(result)])
    /\ UNCHANGED <<work, live, kept, disks, count>>

NextPrompt ==
    /\ Len(told) = turn /\ turn < Len(Script)
    /\ turn' = turn + 1 /\ at' = [a \in Agents |-> NotBegun]
    /\ asked' = {} /\ answered' = {} /\ background' = {}
    /\ adapter' = NewAdapter(NoChanges) /\ events' = <<>>
    /\ main' = Append(main, Prompt(turn + 1))
    /\ edited' = [f \in Files |-> NotEdited]
    /\ UNCHANGED <<script, told, subs, disk, count>>

Says(a) ==
    \/ Begin(a) \/ OpenBlock(a) \/ Piece(a) \/ CloseBlock(a) \/ CloseMessage(a)
    \/ \E to \in 1..MaxBlocks : SendEnvelope(a, to)
    \/ RepeatEnvelope(a)

Works(a) ==
    \E b \in ToolsOf(a) :
        \/ \E tells \in BOOLEAN : FileAnswers(a, b, tells)
        \/ ToolAnswers(a, b) \/ Notify(b)
        \/ \E tool \in {b.tool, NoTool} : Launch(a, b, tool)

Next ==
    \/ \E a \in Agents : Says(a) \/ Works(a)
    \/ \E f \in Files, c \in Contents : Foreign(f, c)
    \/ PrintOutput \/ EndTurn \/ NextPrompt

Spec == Init /\ [][Next]_vars

-----------------------------------------------------------------------------
(* What the frontend relies on *)

\* Whether an event tells of a reply that is streamed.
TellsReply(e) ==
    /\ "stream" \in DOMAIN e.data
    /\ e.event \in {"assistant.reply.started", "assistant.reply.delta", "assistant.reply.stopped"}

\* What is told of the reply in a block of a stream after one more event: how
\* often it began, and its text.
Telling(reply, e, stream, index) ==
    IF TellsReply(e) /\ e.data.stream = stream /\ e.data.block[2] = index
    THEN [begun |-> reply.begun + (IF e.event = "assistant.reply.started" THEN 1 ELSE 0),
          text  |-> reply.text \o e.data.text]
    ELSE reply

\* What the first n events tell of it, for every n.
ReplyTold(es, stream, index) ==
    LET reply[n \in 0..Len(es)] ==
            IF n = 0 THEN [begun |-> 0, text |-> <<>>] ELSE Telling(reply[n - 1], es[n], stream, index)
    IN  reply

\* What an agent said in block k, an agent's message with an index.
Block(k) == Script[turn][k[1][1]][k[1][2]][k[2] + 1]

\* What an event shows under a name is of the block with that name.
NamesItsBlock(e) ==
    "block" \in DOMAIN e.data /\ e.data.block[1][1] \in Agents =>
        /\ e.data.block[1][1] = e.parent
        /\ IF "stream" \in DOMAIN e.data
           THEN Range(e.data.text) \subseteq Range(Block(e.data.block).text)
           ELSE e.data.text = Block(e.data.block).text

\* A block has one name, however its message was cut into envelopes, streamed
\* or repeated, and two messages are never taken for one, even when one
\* frame between them is lost: what an event shows under a name is what the block of
\* that name says, piece by piece or complete.  Only running streams have
\* blocks: what ended leaves no name to the next message.  Whoever loses both
\* the end of a message and the beginning of the next takes them for one.
BlocksHaveOneName ==
    count.lost <= 1 =>
        /\ \A k \in DOMAIN adapter.blocks :
              \E a \in DOMAIN adapter.streams : adapter.streams[a].stream = k[1]
        /\ \A i \in DOMAIN events : NamesItsBlock(events[i])

\* A streamed reply is told when it has text and not before, and what is held
\* back is blank, whatever is lost.  It begins no more than once, even when one
\* frame is lost; when none is, it begins before it goes on or ends, shows no more
\* than its block, in order, and when it ends all of it, also the blank pieces
\* it held back.  Who loses both the end of a message and the beginning of the
\* next takes their replies for one, which may begin twice.
RepliesAreWhole ==
    /\ \A k \in DOMAIN adapter.replies : ~HasText(adapter.replies[k].pending)
    /\ \A i \in DOMAIN events :
        LET e     == events[i]
            reply == ReplyTold(events, e.data.stream, e.data.block[2])[i]
            said  == Block(e.data.block).text
        IN  TellsReply(e) /\ e.event # "assistant.reply.started" =>
                /\ HasText(reply.text)
                /\ count.lost <= 1 => reply.begun <= 1
                /\ count.lost = 0 =>
                    /\ reply.begun = 1 /\ IsPrefix(reply.text, said)
                    /\ e.event = "assistant.reply.stopped" => reply.text = said

\* The files that a sequence of events showed last.
LastShown(es) ==
    LET shown == {i \in DOMAIN es : es[i].event = "files.changed"}
    IN  IF shown = {} THEN {} ELSE es[Max(shown)].data.files

True(files) ==
    \A f \in Files :
        LET s == {p \in files : p[1] = f} IN
        /\ \A p \in s : p[2].complete =>
              /\ edited[f].joined
              /\ p[2].before = edited[f].first /\ p[2].after = edited[f].last
        /\ s = {} => edited[f].first = edited[f].last

\* A change of a file that is shown as complete, or not shown because nothing
\* changed, is what the tools of the turn did to it, and contains no change that
\* somebody else made.
LiveChangesAreTrue == True(LastShown(events))

=============================================================================
