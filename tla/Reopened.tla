------------------------------ MODULE Reopened ------------------------------
(***************************************************************************)
(* What a reopened session shows: the history makes events of what was     *)
(* written down in a conversation.  It is to tell what was told live.      *)
(***************************************************************************)
EXTENDS Conversation, History

\* What is told of an agent, without what is told twice and what is only
\* told live.
Lasting == {"assistant.reply.completed", "assistant.thinking.completed",
            "subagent.reply.completed", "subagent.thinking.completed",
            "assistant.message.completed", "tool.requested", "tool.completed",
            "subagent.tool.requested", "subagent.tool.completed",
            "subagent.started", "subagent.completed",
            "ask_user.requested", "ask_user.completed",
            "plan.approval.requested", "plan.approval.completed"}

Story(es, a) ==
    FoldLeft(LAMBDA seen, e : IF e \in Range(seen) THEN seen ELSE Append(seen, e), <<>>,
             SelectSeq(es, LAMBDA e : e.event \in Lasting /\ e.parent = a))

Live(k) == IF k <= Len(told) THEN told[k].events ELSE events

Agrees(history) ==
    /\ Len(history) = turn
    /\ \A k \in DOMAIN history, a \in Agents : Story(history[k], a) = Story(Live(k), a)

\* At any time the history of a session tells of every agent what was told
\* live, in the same order and under the same names.
HistoryAgrees == Agrees(Assemble(main, subs))

Texts(k) == IF IsCommand(k) THEN Get(EmptyResults, Entered(k), <<Output>>) ELSE LastReplies(k)
Helpers(k) == {a \in Agents \ {Main} : Script[k][a] # <<>>}
Spent(k)   == FoldSet(LAMBDA a, sum : sum + Len(FlattenSeq(Script[k][a])), 0, Helpers(k))

EndsAlike(history) ==
    \A k \in DOMAIN told :
        LET end == history[k][Len(history[k])].data
        IN  /\ end = [text |-> told[k].text, usage |-> told[k].usage]
            /\ end.text = Texts(k)
            /\ end.usage = [count |-> Cardinality(Helpers(k)), total |-> Spent(k)]

\* A turn that is over ends in the history, which has no result to read, as it
\* ended live, where Claude Code may have given one: with the last text of the
\* main agent, with what a command printed, or with the text of a command that
\* answers nothing, and with every subagent's tokens counted once.  It rests on
\* what Claude Code gives (Results).
TurnsEndAlike == EndsAlike(Assemble(main, subs))

\* A tool writes what a file held before an earlier edit of the turn.
EditsOf(f) ==
    SelectSeq(events, LAMBDA e : /\ e.event \in {"tool.completed", "subagent.tool.completed"}
                                 /\ e.data.edit.file = f)
ComesBack(f) ==
    \E i, j \in DOMAIN EditsOf(f) :
        i < j /\ EditsOf(f)[j].data.edit.after = EditsOf(f)[i].data.edit.before

\* What is shown live of changes is true, and so is what the history shows of
\* the last turn, as long as no text comes back.  The history puts the edits of
\* a subagent where it started, before edits of its parent that were earlier: a
\* text that came back may then join what did not follow on each other.
ChangesAreTrue ==
    /\ LiveChangesAreTrue
    /\ (\A f \in Files : ~ComesBack(f)) => True(LastShown(Assemble(main, subs)[turn]))

\* What is refuted: the same whatever the tools write.  The main agent writes 1
\* for 0, somebody else 2, and a subagent in the background 0 again: the history
\* shows that the turn changed 2 to 1.
HistoryChangesAreTrue == True(LastShown(Assemble(main, subs)[turn]))

=============================================================================
