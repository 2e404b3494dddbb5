----------------------------- MODULE Scheduling -----------------------------
(***************************************************************************)
(* backend/service/scheduling/service.py with service/tools/scheduler.py:  *)
(* tasks in a persistent job store, the scheduler of this process that     *)
(* serves them, and the prompt that a task sends when its time has come    *)
(* (_run_scheduled_task of service/chat/service.py).                       *)
(*                                                                         *)
(* Time is how the next run of a task stands to now: in the future, due,   *)
(* or more than misfire_grace_time late.  A version stands for the prompt  *)
(* and the schedule that one request gave.  Not modelled: requests with    *)
(* wrong arguments or of another workspace, which change nothing, the      *)
(* syntax of intervals and cron expressions, users who open or prompt the  *)
(* session of a task (ChatService has them), and what a failed connect     *)
(* leaves of its process (ChatClient has that).                            *)
(***************************************************************************)
EXTENDS Naturals

CONSTANTS
    Tasks,
    Instances,      \* the runs of one task at a time: max_instances
    MaxVersion,     \* bound on the versions of a task
    Chats,          \* the clients of one session, also those left behind
    Nobody,
    MaxTroubles     \* bound on crashes, shutdowns, failed writes, stalls

ASSUME SchedulingAssumption ==
    /\ Nobody \notin Tasks /\ Nobody \notin Chats
    /\ MaxVersion \in Nat \ {0} /\ MaxTroubles \in Nat

VARIABLES
    app,            \* "down", "up" or "closing"
    scheduler,      \* _scheduler is there and runs
    executor,       \* _task_executor is set
    store,          \* the job store: what a task is, and when it runs next
    used,           \* the tasks that were ever created
    updating,       \* the task between the two writes of an update
    torn,           \* tasks whose update failed between its writes
    run,            \* the runs of every task
    registered,     \* _active_chats: the chat of every task's session
    running,        \* the tasks whose registered chat is marked as running
    shut,           \* those whose registered chat was handed to aclose
    conn,           \* the connected clients of every session
    kept,           \* history: a run was refused after it had a client
    raced,          \* history: a run passed the check before another's mark
    troubles

jobs  == <<store, used, updating, torn>>
chats == <<registered, running, shut, conn, kept, raced>>
vars  == <<app, scheduler, executor, jobs, run, chats, troubles>>

-----------------------------------------------------------------------------
Kinds == {"once", "again"}
Times == {"future", "due", "late"}
Job   == [kind : Kinds, args : 1..MaxVersion, trigger : 1..MaxVersion, time : Times]
NoJob == [kind |-> "none"]
NoRun == [at |-> "none"]

\* A run works on chat and closes victim; whole says whether the prompt and the
\* schedule it was started with are of one request.
Unmarked == {"provider", "evict", "create", "prepared"}
Marked   == {"queued", "turn", "closing"}
Run == [at : {"begin", "closed"} \union Unmarked \union Marked,
        whole : BOOLEAN,
        chat : Chats \union {Nobody}, victim : Chats \union {Nobody}]

NoRuns == [t \in Tasks |-> [i \in Instances |-> NoRun]]
Nothing == [t \in Tasks |-> {}]

Stored == {t \in Tasks : store[t] # NoJob}

\* Only a running application has a scheduler, an executor, runs and clients; a
\* run that has its client knows it.
TypeOK ==
    /\ app \in {"down", "up", "closing"}
    /\ scheduler \in BOOLEAN /\ executor \in BOOLEAN
    /\ (scheduler => app # "down") /\ (executor <=> app = "up")
    /\ store \in [Tasks -> Job \union {NoJob}]
    /\ used \subseteq Tasks /\ Stored \subseteq used
    /\ updating \in Stored \union {Nobody} /\ torn \subseteq used
    /\ run \in [Tasks -> [Instances -> Run \union {NoRun}]]
    /\ \A t \in Tasks, i \in Instances :
          run[t][i].at \in {"prepared", "queued", "turn"} => run[t][i].chat \in Chats
    /\ registered \in [Tasks -> Chats \union {Nobody}]
    /\ running \subseteq Tasks /\ shut \subseteq Tasks
    /\ conn \in [Tasks -> SUBSET Chats]
    /\ kept \subseteq Tasks /\ raced \subseteq Tasks
    /\ app = "down" => run = NoRuns /\ conn = Nothing
    /\ troubles \in 0..MaxTroubles

Init ==
    /\ app = "up" /\ executor = TRUE /\ scheduler = FALSE
    /\ store = [t \in Tasks |-> NoJob] /\ used = {}
    /\ updating = Nobody /\ torn = {}
    /\ run = NoRuns
    /\ registered = [t \in Tasks |-> Nobody] /\ running = {} /\ shut = {}
    /\ conn = Nothing /\ kept = {} /\ raced = {}
    /\ troubles = 0

-----------------------------------------------------------------------------
Trouble == troubles < MaxTroubles /\ troubles' = troubles + 1

\* Defect: an update lets other work of the event loop run between its writes.
AnyTime == TRUE

\* The event loop runs something else only when no update is under way.
LoopFree == updating = Nobody

\* A request of the UI, or of an agent, whose tools work until its client is
\* closed by the shutdown.
Asked == app \in {"up", "closing"} /\ LoopFree

\* _get_scheduler: every request creates and starts the scheduler.
GetScheduler == scheduler' = TRUE

-----------------------------------------------------------------------------
(* Requests *)

Add(t, k) ==
    /\ Asked /\ t \notin used
    /\ GetScheduler
    /\ used' = used \union {t}
    /\ store' = [store EXCEPT ![t] =
                    [kind |-> k, args |-> 1, trigger |-> 1, time |-> "future"]]
    /\ UNCHANGED <<app, executor, updating, torn, run, chats, troubles>>

List ==
    /\ Asked
    /\ GetScheduler
    /\ UNCHANGED <<app, executor, jobs, run, chats, troubles>>

\* modify_job writes the new arguments ...
UpdateTask(t) ==
    /\ Asked /\ t \in Stored /\ store[t].args < MaxVersion
    /\ GetScheduler
    /\ store' = [store EXCEPT ![t].args = @ + 1]
    /\ updating' = t
    /\ UNCHANGED <<app, executor, used, torn, run, chats, troubles>>

\* ... and reschedule_job the new trigger.
Reschedule(t, k) ==
    /\ updating = t
    /\ store' = [store EXCEPT ![t] =
                    [@ EXCEPT !.kind = k, !.trigger = store[t].args, !.time = "future"]]
    /\ updating' = Nobody /\ torn' = torn \ {t}
    /\ UNCHANGED <<app, scheduler, executor, used, run, chats, troubles>>

\* The second write raises.
RescheduleFails ==
    /\ updating # Nobody /\ Trouble
    /\ updating' = Nobody /\ torn' = torn \union {updating}
    /\ UNCHANGED <<app, scheduler, executor, store, used, run, chats>>

Delete(t) ==
    /\ Asked /\ t \in Stored
    /\ GetScheduler
    /\ store' = [store EXCEPT ![t] = NoJob]
    /\ UNCHANGED <<app, executor, used, updating, torn, run, chats, troubles>>

-----------------------------------------------------------------------------
(* Time and the scheduler *)

\* The time of a run comes; only a scheduler that stalls, or that is not
\* there, lets it become late.
Comes(t) ==
    /\ t \in Stored /\ store[t].time = "future"
    /\ store' = [store EXCEPT ![t].time = "due"]
    /\ UNCHANGED <<app, scheduler, executor, used, updating, torn, run, chats, troubles>>

Passes(t) ==
    /\ t \in Stored /\ store[t].time = "due"
    /\ IF scheduler THEN Trouble ELSE UNCHANGED troubles
    /\ store' = [store EXCEPT ![t].time = "late"]
    /\ UNCHANGED <<app, scheduler, executor, used, updating, torn, run, chats>>

\* After its time a task is scheduled again, or removed.
AfterRun(t) ==
    IF store[t].kind = "again" THEN [store[t] EXCEPT !.time = "future"] ELSE NoJob

Free(t) == {i \in Instances : run[t][i] = NoRun}

\* A due task runs, unless too many of its runs are under way or there is no
\* executor; either way its time is over.
Fire(t) ==
    /\ scheduler /\ LoopFree
    /\ t \in Stored /\ store[t].time = "due"
    /\ store' = [store EXCEPT ![t] = AfterRun(t)]
    /\ IF executor /\ Free(t) # {}
       THEN \E i \in Free(t) :
              run' = [run EXCEPT ![t][i] =
                        [at |-> "begin", whole |-> store[t].args = store[t].trigger,
                         chat |-> Nobody, victim |-> Nobody]]
       ELSE UNCHANGED run
    /\ UNCHANGED <<app, scheduler, executor, used, updating, torn, chats, troubles>>

\* A late run is left out.
Misfire(t) ==
    /\ scheduler /\ LoopFree
    /\ t \in Stored /\ store[t].time = "late"
    /\ store' = [store EXCEPT ![t] = AfterRun(t)]
    /\ UNCHANGED <<app, scheduler, executor, used, updating, torn, run, chats, troubles>>

-----------------------------------------------------------------------------
(* A run: _run_scheduled_task, the send_chat_message it calls and the        *)
(* _get_or_create_chat that this calls                                       *)

At(t, i, from) ==
    /\ LoopFree
    /\ run[t][i] # NoRun /\ run[t][i].at = from
    /\ UNCHANGED <<app, scheduler, executor, jobs, troubles>>

Becomes(t, i, r)    == run' = [run EXCEPT ![t][i] = r]
GoTo(t, i, to)      == Becomes(t, i, [run[t][i] EXCEPT !.at = to, !.victim = Nobody])
Takes(t, i, c, to)  == Becomes(t, i, [run[t][i] EXCEPT !.at = to, !.chat = c])
Closes(t, i, c, to) == Becomes(t, i, [run[t][i] EXCEPT !.at = to, !.victim = c])
Leave(t, i)         == Becomes(t, i, NoRun)

\* The registered chat is forgotten.
Forgotten(t) ==
    /\ registered' = [registered EXCEPT ![t] = Nobody]
    /\ running' = running \ {t} /\ shut' = shut \ {t} /\ kept' = kept \ {t}

\* _close_active_chat: the first caller's aclose waits for the client, for a
\* later one nothing is left to close.
CloseChat(t, i, closing, next) ==
    IF t \in shut
    THEN Forgotten(t) /\ GoTo(t, i, next)
    ELSE /\ Closes(t, i, registered[t], closing)
         /\ shut' = shut \union {t}
         /\ UNCHANGED <<registered, running, kept>>

\* A turn holds the turn lock of its client.
Locked(t, c) == \E j \in Instances : run[t][j] # NoRun /\ run[t][j].at = "turn" /\ run[t][j].chat = c

\* The client is closed; only the chat that was closed is forgotten.
ChatClosed(t, i, closing) ==
    LET c == run[t][i].victim IN
    /\ At(t, i, closing) /\ ~Locked(t, c)
    /\ conn' = [conn EXCEPT ![t] = @ \ {c}]
    /\ IF registered[t] = c THEN Forgotten(t) ELSE UNCHANGED <<registered, running, shut, kept>>
    /\ UNCHANGED raced

\* Defect: the mark of the session is not looked at.
NotSeen(t) == FALSE
Seen(t) == t \in running

\* The session does not run.
Begin(t, i) ==
    /\ At(t, i, "begin") /\ ~Seen(t)
    /\ GoTo(t, i, "provider")
    /\ raced' = IF \E j \in Instances : run[t][j] # NoRun /\ run[t][j].at \in Unmarked
                THEN raced \union {t} ELSE raced
    /\ UNCHANGED <<registered, running, shut, conn, kept>>

\* The session runs already, its folder is restored, or there is no provider.
RunRefused(t, i) ==
    /\ At(t, i, "begin") \/ At(t, i, "provider")
    /\ Leave(t, i)
    /\ UNCHANGED chats

\* The registered client has the configuration of the task; its permission mode
\* may have to be changed, and a command to be looked up.
Reuse(t, i) ==
    /\ At(t, i, "provider") /\ registered[t] # Nobody
    /\ \/ /\ Takes(t, i, registered[t], "queued")
          /\ running' = running \union {t}
       \/ /\ Takes(t, i, registered[t], "prepared")
          /\ UNCHANGED running
    /\ UNCHANGED <<registered, shut, conn, kept, raced>>

\* It has another one.
Evict(t, i) ==
    /\ At(t, i, "provider") /\ registered[t] # Nobody
    /\ CloseChat(t, i, "evict", "create")
    /\ UNCHANGED <<conn, raced>>

Evicted(t, i) ==
    /\ ChatClosed(t, i, "evict")
    /\ GoTo(t, i, "create") \/ Leave(t, i)

Create(t, i) ==
    /\ At(t, i, "provider") /\ registered[t] = Nobody
    /\ GoTo(t, i, "create")
    /\ UNCHANGED chats

ConnectFails(t, i) ==
    /\ At(t, i, "create")
    /\ Leave(t, i)
    /\ UNCHANGED chats

\* A chat that is neither connected nor in anybody's hands.
NewChats(t) ==
    {c \in Chats \ conn[t] :
        \A j \in Instances : run[t][j] # NoRun => c \notin {run[t][j].chat, run[t][j].victim}}

\* The new client is connected and registered, whatever is registered now: the
\* prompt is sent, a command is looked up, or a restore began meanwhile.
Register(t, i) ==
    /\ At(t, i, "create") /\ NewChats(t) # {}
    /\ LET c == CHOOSE c \in NewChats(t) : TRUE IN
       /\ registered' = [registered EXCEPT ![t] = c]
       /\ conn' = [conn EXCEPT ![t] = @ \union {c}]
       /\ \/ /\ Takes(t, i, c, "queued")
             /\ running' = running \union {t} /\ kept' = kept \ {t}
          \/ /\ Takes(t, i, c, "prepared")
             /\ running' = running \ {t} /\ kept' = kept \ {t}
          \/ /\ Leave(t, i)
             /\ running' = running \ {t} /\ kept' = kept \union {t}
    /\ shut' = shut \ {t}
    /\ UNCHANGED raced

\* The client answered, and was connected for that if it was closed meanwhile;
\* its chat is marked.
Submit(t, i) ==
    /\ At(t, i, "prepared")
    /\ conn' = [conn EXCEPT ![t] = @ \union {run[t][i].chat}]
    /\ GoTo(t, i, "queued")
    /\ running' = IF registered[t] = run[t][i].chat THEN running \union {t} ELSE running
    /\ UNCHANGED <<registered, shut, kept, raced>>

\* An unknown command, a mode the model has not, or a restore that began
\* meanwhile: nobody is told to release the client.
PromptRefused(t, i) ==
    /\ At(t, i, "prepared")
    /\ \/ UNCHANGED conn
       \/ conn' = [conn EXCEPT ![t] = @ \union {run[t][i].chat}]
    /\ Leave(t, i)
    /\ kept' = kept \union {t}
    /\ UNCHANGED <<registered, running, shut, raced>>

TurnStarts(t, i) ==
    /\ At(t, i, "queued") /\ ~Locked(t, run[t][i].chat)
    /\ conn' = [conn EXCEPT ![t] = @ \union {run[t][i].chat}]
    /\ GoTo(t, i, "turn")
    /\ UNCHANGED <<registered, running, shut, kept, raced>>

\* The turn is over and close_scheduled_chat closes what is registered now.
Complete(t, i) ==
    /\ At(t, i, "turn")
    /\ IF registered[t] = Nobody
       THEN GoTo(t, i, "closed") /\ UNCHANGED <<registered, running, shut, kept>>
       ELSE CloseChat(t, i, "closing", "closed")
    /\ UNCHANGED <<conn, raced>>

Released(t, i) ==
    /\ ChatClosed(t, i, "closing")
    /\ GoTo(t, i, "closed")

\* Defect: a run that ends is counted on.
Counted(t, i) == UNCHANGED run
Ended(t, i)   == Leave(t, i)

\* The finally of send_chat_message: only the chat of the run loses its mark.
RunEnds(t, i) ==
    /\ At(t, i, "closed")
    /\ Ended(t, i)
    /\ running' = IF registered[t] = run[t][i].chat THEN running \ {t} ELSE running
    /\ UNCHANGED <<registered, shut, conn, kept, raced>>

-----------------------------------------------------------------------------
(* The application stops, dies and starts *)

NothingRuns ==
    /\ run' = NoRuns
    /\ registered' = [t \in Tasks |-> Nobody] /\ running' = {} /\ shut' = {}
    /\ conn' = Nothing /\ kept' = {} /\ raced' = {}

\* shutdown_scheduler: runs that are under way are cancelled.  What they close
\* on their way out, or leave, shutdown_clients closes, too.
Shutdown ==
    /\ app = "up" /\ LoopFree /\ Trouble
    /\ app' = "closing" /\ scheduler' = FALSE /\ executor' = FALSE
    /\ run' = NoRuns
    /\ UNCHANGED <<jobs, chats>>

\* The clients are closed and the process ends.
Exit ==
    /\ app = "closing" /\ LoopFree
    /\ app' = "down" /\ scheduler' = FALSE
    /\ NothingRuns
    /\ UNCHANGED <<executor, jobs, troubles>>

\* The process dies anywhere, also between the writes of an update.
Crash ==
    /\ app # "down" /\ Trouble
    /\ app' = "down" /\ scheduler' = FALSE /\ executor' = FALSE
    /\ updating' = Nobody
    /\ torn' = IF updating = Nobody THEN torn ELSE torn \union {updating}
    /\ NothingRuns
    /\ UNCHANGED <<store, used>>

\* Only the executor is set again.
StartApp ==
    /\ app = "down"
    /\ app' = "up" /\ executor' = TRUE
    /\ UNCHANGED <<scheduler, jobs, run, chats, troubles>>

Request ==
    \/ List
    \/ \E t \in Tasks : UpdateTask(t) \/ Delete(t) \/ \E k \in Kinds : Add(t, k)

RunStep(t, i) ==
    \/ Begin(t, i) \/ RunRefused(t, i)
    \/ Reuse(t, i) \/ Evict(t, i) \/ Evicted(t, i)
    \/ Create(t, i) \/ ConnectFails(t, i) \/ Register(t, i)
    \/ Submit(t, i) \/ PromptRefused(t, i)
    \/ TurnStarts(t, i) \/ Complete(t, i) \/ Released(t, i) \/ RunEnds(t, i)

Due(t) == Fire(t) \/ Misfire(t)

Next ==
    \/ Request \/ RescheduleFails
    \/ \E t \in Tasks : (\E k \in Kinds : Reschedule(t, k)) \/ Comes(t) \/ Passes(t) \/ Due(t)
    \/ \E t \in Tasks, i \in Instances : RunStep(t, i)
    \/ Shutdown \/ Exit \/ Crash \/ StartApp

Spec == Init /\ [][Next]_vars

\* Time goes on, the event loop comes to what is due and to every run, a turn
\* ends, and a shutdown is carried out.
FairSpec ==
    /\ Spec
    /\ WF_vars(RescheduleFails \/ \E t \in Tasks, k \in Kinds : Reschedule(t, k))
    /\ \A t \in Tasks :
          /\ WF_vars(Comes(t)) /\ WF_vars(Due(t))
          /\ \A i \in Instances : WF_vars(RunStep(t, i))
    /\ WF_vars(Exit)

-----------------------------------------------------------------------------
(* What users of scheduled tasks rely on *)

\* A run that starts sends the prompt of the schedule that made it due: nobody
\* sees an update half done, unless the process died or the store failed in the
\* middle of it; the next update of the task repairs it.
RunIsAsScheduled ==
    [][\A t \in Tasks \ torn, i \in Instances :
          run[t][i] = NoRun /\ run'[t][i] # NoRun => run'[t][i].whole]_vars

\* "Execute a scheduled prompt and release its dedicated client"
\* (service/chat/service.py:435): when the runs of a task are over none of its
\* clients is left, whatever was refused, failed, reused or evicted on the way,
\* and although a second run may come at any time.  Left out are what the code
\* leaves: the client of a prompt that was refused after it had one, which the
\* next run finds (kept), and tasks one run of which passed the check of the
\* mark while another had passed it and not set its own (raced).
ClientsReleased ==
    \A t \in Tasks \ raced :
        app = "up" /\ Free(t) = Instances =>
            conn[t] \subseteq (IF t \in kept THEN {registered[t]} ELSE {})

\* Without the second exception: two runs that both found no client create one
\* each, the second registration replaces the first, and the client of the
\* first is left for ever (not true of the code, see the README).
EveryClientIsReleased ==
    \A t \in Tasks :
        app = "up" /\ Free(t) = Instances =>
            conn[t] \subseteq (IF t \in kept THEN {registered[t]} ELSE {})

\* A repeated task is started again and again while the scheduler is there:
\* neither refused prompts, nor overlapping runs, nor late times use up its
\* instances.  Every turn is taken to end, and a run that is refused counts as
\* begun.
KeepsRunning ==
    \A t \in Tasks :
        (scheduler /\ executor /\ store[t].kind = "again") ~>
            (\/ ~scheduler \/ store[t].kind # "again"
             \/ \E i \in Instances : run[t][i].at = "begin")

\* While the application runs, the time of a task does not pass with nobody
\* there to serve it ("when the time comes the system starts a turn by
\* itself", service/tools/scheduler.py:14).
TasksAreServed ==
    [][\A t \in Stored :
          /\ app = "up" /\ store[t].time = "due"
          /\ store'[t] = [store[t] EXCEPT !.time = "late"]
          => scheduler]_vars

=============================================================================
