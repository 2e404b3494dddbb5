--------------------------- MODULE SubagentUsage ---------------------------
(***************************************************************************)
(* _subagent_usage of claude_chat_client/usage.py: how many subagents a    *)
(* turn had and how many tokens they used, computed from its events.       *)
(*                                                                         *)
(* A usage is the number of tokens of one message; NoUsage is a message or *)
(* a task that does not tell.  A note is what a task notification says.    *)
(***************************************************************************)
EXTENDS MessageAdapter

CONSTANTS NoUsage, NoTool, NoNote

NothingUsed ==
    [taskAgent |-> <<>>, agents |-> {}, reported |-> {}, final |-> {},
     messages |-> <<>>, tasks |-> <<>>]

\* A task that was counted under its own name is counted under its tool's.
Renamed(u, task, agent) ==
    IF agent # NoTool /\ Get(u.taskAgent, task, agent) # agent
    THEN [u EXCEPT !.agents = @ \ {u.taskAgent[task]}] ELSE u

\* user.proxy.message with a notification
Notified(u, n) ==
    LET agent == IF n.tool # NoTool THEN n.tool ELSE Get(u.taskAgent, n.task, n.task)
    IN  [Renamed(u, n.task, n.tool) EXCEPT
            !.taskAgent = (n.task :> agent) @@ @, !.agents = @ \union {agent},
            !.final = @ \union {agent}, !.tasks = (agent :> n.total) @@ @]

TaskStarted(u, d) ==
    LET agent == IF d.tool # NoTool THEN d.tool ELSE d.task
    IN  [u EXCEPT !.taskAgent = (d.task :> agent) @@ @, !.agents = @ \union {agent}]

TaskCompleted(u, d) ==
    LET agent == IF d.tool # NoTool THEN d.tool ELSE Get(u.taskAgent, d.task, NoTool)
        known == Renamed(u, d.task, d.tool)
    IN  IF agent = NoTool THEN known
        ELSE [known EXCEPT
                !.taskAgent = IF d.task \in DOMAIN @ THEN (d.task :> agent) @@ @ ELSE @,
                !.agents = @ \union {agent}, !.final = @ \union {agent},
                !.tasks = IF d.usage = NoUsage THEN @ ELSE (agent :> d.usage) @@ @]

\* Defect: every snapshot of a message is counted.
EverySnapshot(u, e) == <<e.data.message, e.data.usage>>

\* The newest snapshot of a message counts.
UsageKey(u, e) == e.data.message

\* assistant.message.completed of a subagent
Reported(u, e) ==
    LET counted == IF e.data.usage = NoUsage THEN u
                   ELSE [u EXCEPT !.reported = @ \union {e.parent},
                                  !.messages = (UsageKey(u, e) :>
                                      [agent |-> e.parent, usage |-> e.data.usage]) @@ @]
    IN  IF e.data.stop
        THEN [counted EXCEPT !.final = @ \union {e.parent}, !.agents = @ \union {e.parent}]
        ELSE counted

CountEvent(u, e) ==
    CASE e.event = "user.proxy.message" ->
            IF e.data.note = NoNote THEN u ELSE Notified(u, e.data.note)
      [] e.event = "task.started"     -> TaskStarted(u, e.data)
      [] e.event = "task.completed"   -> TaskCompleted(u, e.data)
      [] e.event = "subagent.started" -> [u EXCEPT !.agents = @ \union {e.data.tool}]
      [] e.event = "assistant.message.completed" /\ e.parent # Main -> Reported(u, e)
      [] OTHER -> u

\* Nothing is told before every subagent that reported has finished; what a
\* task says of itself counts instead of its messages.
UsageOf(events) ==
    LET u == FoldLeft(CountEvent, NothingUsed, events)
        total(m, sum) == u.messages[m].usage + sum
        detailed == {m \in DOMAIN u.messages : u.messages[m].agent \notin DOMAIN u.tasks}
    IN  IF u.agents = {} \/ ~(u.reported \subseteq u.final) THEN [count |-> 0, total |-> 0]
        ELSE [count |-> Cardinality(u.agents),
              total |-> FoldSet(total, 0, detailed) + FoldSet(LAMBDA a, sum : u.tasks[a] + sum, 0, DOMAIN u.tasks)]

=============================================================================
