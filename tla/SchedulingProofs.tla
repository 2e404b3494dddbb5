-------------------------- MODULE SchedulingProofs --------------------------
(* Theorems about Scheduling for any number of tasks, of runs at a time, of    *)
(* versions and of troubles.                                                   *)
EXTENDS Scheduling, TLAPS

\* Outside an update, and unless one failed in its middle, a stored task has
\* the prompt and the schedule of the same request.
StoredAgree ==
    \A t \in Stored \ torn : t # updating => store[t].args = store[t].trigger

Works == Unmarked \union Marked

\* What holds of a task none of whose runs passed the check before another's
\* mark: one run works on its session, with the registered client or before
\* there is one; the mark and the close belong to that run; and a client that
\* is there without such a run was kept by a refused prompt.
OneWorks(t) ==
    \A i, j \in Instances : run[t][i].at \in Works /\ run[t][j].at \in Works => i = j

NobodyWorks(t) == \A i \in Instances : run[t][i].at \notin Works

Quiet(t) ==
    /\ t \notin running /\ t \notin shut
    /\ registered[t] # Nobody => t \in kept

Holds(t, i) ==
    LET r == run[t][i] IN
    /\ r.at = "provider" => Quiet(t)
    /\ r.at = "evict" => r.victim = registered[t] /\ t \notin running
    /\ r.at = "create" => registered[t] = Nobody
    /\ r.at \in {"prepared", "queued", "turn", "closing"} =>
          r.chat = registered[t] /\ r.chat # Nobody
    /\ r.at = "prepared" => t \notin running /\ t \notin shut
    /\ r.at \in Marked => t \in running
    /\ r.at \in {"queued", "turn"} => t \notin shut
    /\ r.at = "closing" => r.victim = registered[t]
    /\ r.at = "closed" => r.chat # registered[t] /\ r.chat # Nobody

TaskHeld(t) ==
    /\ OneWorks(t)
    /\ conn[t] \subseteq {registered[t]}
    /\ registered[t] = Nobody => t \notin running /\ t \notin shut
    /\ \A i \in Instances : Holds(t, i)
    /\ NobodyWorks(t) => Quiet(t)

ClientsHeld == app # "closing" => \A t \in Tasks \ raced : TaskHeld(t)

-----------------------------------------------------------------------------
(* Parts of the type invariant *)

\* What a stored task, and what an empty place, look like.
LEMMA JobOrNot ==
    ASSUME TypeOK, NEW t \in Tasks
    PROVE  /\ store[t] # NoJob <=> store[t] \in Job
           /\ store[t] # NoJob => store[t].kind \in Kinds
<1>1. \A j \in Job : j.kind \in Kinds /\ j # NoJob
  BY DEF Job, Kinds, NoJob
<1> QED BY <1>1 DEF TypeOK

\* A run that has its client knows it.
HasChat(r) == r.at \in {"prepared", "queued", "turn"} => r.chat \in Chats

\* The run that Fire starts.
New(t) == [at |-> "begin", whole |-> store[t].args = store[t].trigger,
           chat |-> Nobody, victim |-> Nobody]

LEMMA RunOrNot ==
    ASSUME TypeOK, NEW t \in Tasks, NEW i \in Instances
    PROVE  /\ run[t][i] = NoRun \/ run[t][i] \in Run
           /\ run[t][i] \in Run => run[t][i].at # "none" /\ run[t][i] # NoRun
<1>1. \A r \in Run : r.at # "none" /\ r # NoRun
  BY DEF Run, NoRun, Unmarked, Marked
<1>2. run[t] \in [Instances -> Run \union {NoRun}]
  BY DEF TypeOK
<1> QED BY <1>1, <1>2

\* A step of a run changes this run, which is there, and nothing of the jobs.
LEMMA AtRun ==
    ASSUME TypeOK, NEW t \in Tasks, NEW i \in Instances, NEW from, At(t, i, from)
    PROVE  /\ app # "down" /\ run[t][i] \in Run /\ run[t][i].at = from
           /\ UNCHANGED <<app, scheduler, executor, store, used, updating, torn, troubles>>
<1>1. run[t][i] \in Run /\ run[t][i].at = from
  BY RunOrNot DEF At
<1>2. app # "down"
  BY <1>1, RunOrNot DEF TypeOK, NoRuns
<1> QED BY <1>1, <1>2 DEF At, jobs

\* Where the step of a run takes it.
Steps(t, i) == \E r \in Run \union {NoRun} : Becomes(t, i, r) /\ HasChat(r)

LEMMA NoRunHasChat == HasChat(NoRun)
BY DEF HasChat, NoRun

Phases == {"begin", "closed"} \union Works

\* Going to a phase, taking a chat, closing one and leaving are such steps.
LEMMA Moves ==
    ASSUME TypeOK, NEW t \in Tasks, NEW i \in Instances, run[t][i] \in Run
    PROVE  /\ Leave(t, i) => Steps(t, i)
           /\ \A to \in Phases :
                 (to \in {"prepared", "queued", "turn"} => run[t][i].chat \in Chats)
                    /\ GoTo(t, i, to) => Steps(t, i)
           /\ \A to \in Phases, c \in Chats : Takes(t, i, c, to) => Steps(t, i)
           /\ \A to \in {"evict", "closing"}, c \in Chats \union {Nobody} :
                 Closes(t, i, c, to) => Steps(t, i)
<1>1. Leave(t, i) => Steps(t, i)
  BY NoRunHasChat DEF Leave, Steps
<1>2. ASSUME NEW to \in Phases, GoTo(t, i, to),
             to \in {"prepared", "queued", "turn"} => run[t][i].chat \in Chats
      PROVE  Steps(t, i)
  <2> DEFINE g == [run[t][i] EXCEPT !.at = to, !.victim = Nobody]
  <2>1. g \in Run /\ g.at = to /\ g.chat = run[t][i].chat
    BY DEF Run, Phases, Works
  <2> HIDE DEF g
  <2>2. HasChat(g)
    BY <1>2, <2>1 DEF HasChat
  <2>3. Becomes(t, i, g)
    BY <1>2 DEF GoTo, g
  <2> QED BY <2>1, <2>2, <2>3 DEF Steps
<1>3. ASSUME NEW to \in Phases, NEW c \in Chats, Takes(t, i, c, to)
      PROVE  Steps(t, i)
  <2> DEFINE g == [run[t][i] EXCEPT !.at = to, !.chat = c]
  <2>1. g \in Run /\ g.at = to /\ g.chat = c
    BY DEF Run, Phases, Works
  <2> HIDE DEF g
  <2>2. HasChat(g)
    BY <2>1 DEF HasChat
  <2>3. Becomes(t, i, g)
    BY <1>3 DEF Takes, g
  <2> QED BY <2>1, <2>2, <2>3 DEF Steps
<1>4. ASSUME NEW to \in {"evict", "closing"}, NEW c \in Chats \union {Nobody}, Closes(t, i, c, to)
      PROVE  Steps(t, i)
  <2> DEFINE g == [run[t][i] EXCEPT !.at = to, !.victim = c]
  <2>1. g \in Run /\ g.at = to
    BY DEF Run, Works, Unmarked, Marked
  <2> HIDE DEF g
  <2>2. HasChat(g)
    BY <2>1 DEF HasChat
  <2>3. Becomes(t, i, g)
    BY <1>4 DEF Closes, g
  <2> QED BY <2>1, <2>2, <2>3 DEF Steps
<1> QED BY <1>1, <1>2, <1>3, <1>4

LEMMA RequestType ==
    ASSUME TypeOK, Request PROVE TypeOK'
<1> USE SchedulingAssumption DEF jobs, chats
<1>1. CASE List
  BY <1>1 DEF List, Asked, LoopFree, GetScheduler, TypeOK, Stored
<1>2. ASSUME NEW t \in Tasks, UpdateTask(t) PROVE TypeOK'
  <2>1. store[t] \in Job /\ store[t].args + 1 \in 1..MaxVersion
    BY <1>2, JobOrNot DEF UpdateTask, Stored, Job
  <2>2. [store[t] EXCEPT !.args = @ + 1] \in Job
    BY <2>1 DEF Job
  <2>3. store' \in [Tasks -> Job \union {NoJob}] /\ Stored' = Stored
    <3>1. store' = [store EXCEPT ![t] = [store[t] EXCEPT !.args = @ + 1]]
      BY <1>2 DEF UpdateTask
    <3>2. [store[t] EXCEPT !.args = @ + 1] # NoJob
      BY <2>2 DEF Job, NoJob
    <3> QED BY <1>2, <2>2, <3>1, <3>2 DEF TypeOK, Stored, UpdateTask
  <2> QED BY <1>2, <2>3 DEF UpdateTask, Asked, LoopFree, GetScheduler, TypeOK, Stored
<1>3. ASSUME NEW t \in Tasks, Delete(t) PROVE TypeOK'
  BY <1>3 DEF Delete, Asked, LoopFree, GetScheduler, TypeOK, Stored
<1>4. ASSUME NEW t \in Tasks, NEW k \in Kinds, Add(t, k) PROVE TypeOK'
  <2>1. [kind |-> k, args |-> 1, trigger |-> 1, time |-> "future"] \in Job
    BY DEF Job, Times
  <2>2. store' \in [Tasks -> Job \union {NoJob}] /\ Stored' \subseteq Stored \union {t}
    BY <1>4, <2>1 DEF Add, TypeOK, Stored
  <2> QED BY <1>4, <2>2 DEF Add, Asked, LoopFree, GetScheduler, TypeOK
<1> QED BY <1>1, <1>2, <1>3, <1>4 DEF Request

\* A task whose time moves on is a task, or it is removed.
LEMMA AfterRunType ==
    ASSUME TypeOK, NEW t \in Stored
    PROVE  AfterRun(t) \in Job \union {NoJob}
BY JobOrNot DEF AfterRun, Stored, Job, Times

LEMMA TimeType ==
    ASSUME TypeOK, NEW t \in Tasks,
           (\E k \in Kinds : Reschedule(t, k)) \/ Comes(t) \/ Passes(t) \/ Due(t)
    PROVE  TypeOK'
<1> USE SchedulingAssumption DEF jobs, chats
<1>1. ASSUME NEW k \in Kinds, Reschedule(t, k) PROVE TypeOK'
  <2>1. t \in Stored /\ store[t] \in Job
    BY <1>1, JobOrNot DEF Reschedule, TypeOK, Stored
  <2>2. [store[t] EXCEPT !.kind = k, !.trigger = store[t].args, !.time = "future"] \in Job
    BY <2>1 DEF Job, Times
  <2>3. store' = [store EXCEPT ![t] =
                    [store[t] EXCEPT !.kind = k, !.trigger = store[t].args, !.time = "future"]]
    BY <1>1 DEF Reschedule
  <2>4. store' \in [Tasks -> Job \union {NoJob}] /\ Stored' \subseteq Stored
    BY <2>1, <2>2, <2>3 DEF TypeOK, Stored
  <2> QED BY <1>1, <2>4 DEF Reschedule, TypeOK
<1>2. CASE Comes(t) \/ Passes(t)
  <2>1. t \in Stored /\ store[t] \in Job
    BY <1>2, JobOrNot DEF Comes, Passes, Stored
  <2>2. \A time \in Times : [store[t] EXCEPT !.time = time] \in Job
    BY <2>1 DEF Job
  <2>3. \A j \in Job : j # NoJob
    BY DEF Job, NoJob
  <2>4. PICK time \in Times : store' = [store EXCEPT ![t] = [store[t] EXCEPT !.time = time]]
    BY <1>2 DEF Comes, Passes, Times
  <2>5. store' \in [Tasks -> Job \union {NoJob}] /\ Stored' = Stored
    BY <2>1, <2>2, <2>3, <2>4 DEF TypeOK, Stored
  <2>6. troubles' \in 0..MaxTroubles
    BY <1>2 DEF Comes, Passes, Trouble, TypeOK
  <2> QED BY <1>2, <2>5, <2>6 DEF Comes, Passes, TypeOK
<1>3. CASE Due(t)
  <2>1. t \in Stored /\ AfterRun(t) \in Job \union {NoJob}
    BY <1>3, AfterRunType DEF Due, Fire, Misfire
  <2>2. store' \in [Tasks -> Job \union {NoJob}] /\ Stored' \subseteq Stored
    <3>1. store' = [store EXCEPT ![t] = AfterRun(t)]
      BY <1>3 DEF Due, Fire, Misfire
    <3> QED BY <2>1, <3>1 DEF TypeOK, Stored
  <2>3. /\ run' \in [Tasks -> [Instances -> Run \union {NoRun}]] /\ updating' = Nobody
        /\ \A u \in Tasks, j \in Instances : HasChat(run'[u][j])
    <3>1. New(t) \in Run /\ HasChat(New(t))
      BY DEF New, Run, HasChat
    <3>2. CASE run' = run
      BY <1>3, <3>2 DEF Due, Fire, Misfire, LoopFree, TypeOK, HasChat
    <3>3. CASE \E i \in Instances :
                 run' = [run EXCEPT ![t][i] = New(t)]
      <4>1. updating' = Nobody
        BY <1>3 DEF Due, Fire, Misfire, LoopFree
      <4> QED BY <3>1, <3>3, <4>1 DEF TypeOK, HasChat
    <3>4. CASE Fire(t)
      BY <3>2, <3>3, <3>4 DEF Fire, Free, New
    <3>5. CASE Misfire(t)
      BY <3>2, <3>5 DEF Misfire
    <3> QED BY <1>3, <3>4, <3>5 DEF Due
  <2>4. /\ app # "down"
        /\ UNCHANGED <<app, scheduler, executor, used, torn, chats, troubles>>
    BY <1>3 DEF Due, Fire, Misfire, TypeOK
  <2> QED BY <2>2, <2>3, <2>4 DEF TypeOK, HasChat
<1> QED BY <1>1, <1>2, <1>3

LEMMA RunStepMoves ==
    ASSUME TypeOK, NEW t \in Tasks, NEW i \in Instances, RunStep(t, i)
    PROVE  /\ run[t][i] \in Run /\ Steps(t, i) /\ app # "down"
           /\ UNCHANGED <<app, scheduler, executor, store, used, updating, torn, troubles>>
<1>1. PICK from : At(t, i, from)
  BY DEF RunStep, Begin, RunRefused, Reuse, Evict, Evicted, Create, ConnectFails, Register,
         Submit, PromptRefused, TurnStarts, Complete, Released, RunEnds, ChatClosed
<1>2. /\ run[t][i] \in Run /\ app # "down"
      /\ UNCHANGED <<app, scheduler, executor, store, used, updating, torn, troubles>>
  BY <1>1, AtRun
<1> USE DEF Phases, Works, Unmarked, Marked
<1>3. CASE Leave(t, i)
  BY <1>2, <1>3, Moves
<1>4. CASE \E to \in {"provider", "create", "closed"} : GoTo(t, i, to)
  BY <1>2, <1>4, Moves
<1>5. CASE Evict(t, i) \/ Complete(t, i)
  <2>1. \/ \E to \in {"create", "closed"} : GoTo(t, i, to)
        \/ \E to \in {"evict", "closing"} : Closes(t, i, registered[t], to)
    BY <1>5 DEF Evict, Complete, CloseChat
  <2>2. registered[t] \in Chats \union {Nobody}
    BY DEF TypeOK
  <2> QED BY <1>2, <1>4, <2>1, <2>2, Moves
<1>6. CASE Reuse(t, i)
  <2>1. registered[t] \in Chats
    BY <1>6 DEF Reuse, TypeOK
  <2>2. \E to \in {"queued", "prepared"} : Takes(t, i, registered[t], to)
    BY <1>6 DEF Reuse
  <2> QED BY <1>2, <2>1, <2>2, Moves
<1>7. CASE Register(t, i)
  <2> DEFINE c == CHOOSE c \in NewChats(t) : TRUE
  <2>1. c \in Chats
    BY <1>7 DEF Register, NewChats
  <2>2. Leave(t, i) \/ \E to \in {"queued", "prepared"} : Takes(t, i, c, to)
    BY <1>7 DEF Register
  <2> HIDE DEF c
  <2> QED BY <1>2, <1>3, <2>1, <2>2, Moves
<1>8. CASE Submit(t, i) \/ TurnStarts(t, i)
  <2>1. run[t][i].at \in {"prepared", "queued"}
    BY <1>8 DEF Submit, TurnStarts, At
  <2>2. run[t][i].chat \in Chats
    BY <2>1 DEF TypeOK
  <2>3. GoTo(t, i, "queued") \/ GoTo(t, i, "turn")
    BY <1>8 DEF Submit, TurnStarts
  <2> QED BY <1>2, <2>2, <2>3, Moves
<1>9. CASE RunEnds(t, i) \/ RunRefused(t, i) \/ ConnectFails(t, i) \/ PromptRefused(t, i)
  BY <1>3, <1>9 DEF RunEnds, Ended, RunRefused, ConnectFails, PromptRefused
<1>10. CASE Begin(t, i) \/ Evicted(t, i) \/ Create(t, i) \/ Released(t, i)
  <2>1. Leave(t, i) \/ \E to \in {"provider", "create", "closed"} : GoTo(t, i, to)
    BY <1>10 DEF Begin, Evicted, Create, Released
  <2> QED BY <1>3, <1>4, <2>1
<1> QED BY <1>2, <1>5, <1>6, <1>7, <1>8, <1>9, <1>10 DEF RunStep

ChatsOK ==
    /\ registered \in [Tasks -> Chats \union {Nobody}]
    /\ running \subseteq Tasks /\ shut \subseteq Tasks
    /\ conn \in [Tasks -> SUBSET Chats]
    /\ kept \subseteq Tasks /\ raced \subseteq Tasks

LEMMA CloseChatsOK ==
    ASSUME ChatsOK, NEW t \in Tasks, NEW i, NEW closing, NEW next,
           \/ CloseChat(t, i, closing, next) /\ UNCHANGED <<conn, raced>>
           \/ ChatClosed(t, i, closing)
    PROVE  ChatsOK'
BY DEF CloseChat, ChatClosed, Forgotten, ChatsOK

LEMMA RunStepType ==
    ASSUME TypeOK, NEW t \in Tasks, NEW i \in Instances, RunStep(t, i)
    PROVE  TypeOK'
<1>1. /\ run[t][i] \in Run /\ Steps(t, i) /\ app # "down"
      /\ UNCHANGED <<app, scheduler, executor, store, used, updating, torn, troubles>>
  BY RunStepMoves
<1>2. /\ run' \in [Tasks -> [Instances -> Run \union {NoRun}]]
      /\ \A u \in Tasks, j \in Instances : HasChat(run'[u][j])
  BY <1>1 DEF Steps, Becomes, HasChat, TypeOK
<1>3. Stored' = Stored
  BY <1>1 DEF Stored
<1>4. ChatsOK
  BY DEF ChatsOK, TypeOK
<1>5. ChatsOK'
  <2> USE DEF chats
  <2>1. CASE Evict(t, i) \/ Evicted(t, i) \/ Released(t, i)
    BY <1>4, <2>1, CloseChatsOK DEF Evict, Evicted, Released
  <2>2. CASE Complete(t, i)
    BY <1>4, <2>2, CloseChatsOK DEF Complete, ChatsOK
  <2>3. CASE Begin(t, i) \/ RunRefused(t, i) \/ Reuse(t, i) \/ Create(t, i)
             \/ ConnectFails(t, i) \/ RunEnds(t, i)
    BY <1>4, <2>3 DEF Begin, RunRefused, Reuse, Create, ConnectFails, RunEnds, ChatsOK
  <2>4. CASE Register(t, i)
    <3> DEFINE c == CHOOSE c \in NewChats(t) : TRUE
    <3>1. c \in Chats
      BY <2>4 DEF Register, NewChats
    <3>2. registered' = [registered EXCEPT ![t] = c] /\ conn' = [conn EXCEPT ![t] = @ \union {c}]
      BY <2>4 DEF Register
    <3>3. registered' \in [Tasks -> Chats \union {Nobody}] /\ conn' \in [Tasks -> SUBSET Chats]
      BY <1>4, <3>1, <3>2 DEF ChatsOK
    <3> QED BY <1>4, <2>4, <3>3 DEF Register, ChatsOK
  <2>5. CASE Submit(t, i) \/ PromptRefused(t, i) \/ TurnStarts(t, i)
    <3>1. run[t][i].chat \in Chats
      BY <2>5 DEF Submit, PromptRefused, TurnStarts, At, TypeOK
    <3> QED BY <1>4, <2>5, <3>1 DEF Submit, PromptRefused, TurnStarts, ChatsOK
  <2> QED BY <2>1, <2>2, <2>3, <2>4, <2>5 DEF RunStep
<1> QED BY <1>1, <1>2, <1>3, <1>5 DEF ChatsOK, TypeOK, HasChat

LEMMA NoRunsType ==
    /\ NoRuns \in [Tasks -> [Instances -> Run \union {NoRun}]]
    /\ Nothing \in [Tasks -> SUBSET Chats]
BY DEF NoRuns, Nothing

LEMMA LifeType ==
    ASSUME TypeOK, RescheduleFails \/ Shutdown \/ Exit \/ Crash \/ StartApp
    PROVE  TypeOK'
<1> USE SchedulingAssumption DEF jobs, chats, Trouble
<1>1. CASE RescheduleFails
  BY <1>1 DEF RescheduleFails, TypeOK, Stored
<1>2. run' = NoRuns => /\ run' \in [Tasks -> [Instances -> Run \union {NoRun}]]
                       /\ \A t \in Tasks, i \in Instances : HasChat(run'[t][i])
  BY NoRunsType, NoRunHasChat DEF NoRuns
<1>3. CASE Shutdown
  <2>1. troubles' \in 0..MaxTroubles
    BY <1>3 DEF Shutdown, TypeOK
  <2> QED BY <1>2, <1>3, <2>1 DEF Shutdown, TypeOK, Stored, HasChat
<1>4. CASE Exit
  BY <1>2, <1>4, NoRunsType DEF Exit, LoopFree, NothingRuns, TypeOK, Stored, HasChat
<1>5. CASE Crash
  <2>1. troubles' \in 0..MaxTroubles
    BY <1>5 DEF Crash, NothingRuns, TypeOK
  <2>2. torn' \subseteq used' /\ Stored' = Stored /\ executor' = FALSE /\ app' = "down"
    BY <1>5 DEF Crash, TypeOK, Stored
  <2> QED BY <1>2, <1>5, <2>1, <2>2, NoRunsType DEF Crash, NothingRuns, TypeOK, HasChat
<1>6. CASE StartApp
  BY <1>6 DEF StartApp, TypeOK, Stored
<1> QED BY <1>1, <1>3, <1>4, <1>5, <1>6

LEMMA TypeStep == TypeOK /\ [Next]_vars => TypeOK'
<1> SUFFICES ASSUME TypeOK, [Next]_vars PROVE TypeOK'
  OBVIOUS
<1>1. CASE UNCHANGED vars
  BY <1>1 DEF vars, jobs, chats, TypeOK, Stored
<1>2. CASE Next
  BY <1>2, RequestType, TimeType, RunStepType, LifeType DEF Next
<1> QED BY <1>1, <1>2

LEMMA InitType == Init => TypeOK
<1> SUFFICES ASSUME Init PROVE TypeOK
  OBVIOUS
<1>1. Stored = {} /\ store \in [Tasks -> Job \union {NoJob}]
  BY DEF Init, Stored
<1>2. run \in [Tasks -> [Instances -> Run \union {NoRun}]] /\ troubles \in 0..MaxTroubles
  BY SchedulingAssumption, NoRunsType DEF Init
<1>3. \A t \in Tasks, i \in Instances : HasChat(run[t][i])
  BY NoRunHasChat DEF Init, NoRuns
<1> QED BY <1>1, <1>2, <1>3, NoRunsType DEF Init, TypeOK, HasChat

\* TypeOK holds: only an application that runs has a scheduler, an executor,
\* runs and clients, and a run that has its client knows it.
THEOREM TypeCorrect == Spec => []TypeOK
BY InitType, TypeStep, PTL DEF Spec

-----------------------------------------------------------------------------
(* Runs are as scheduled *)

LEMMA StoredAgreeStep ==
    ASSUME TypeOK, StoredAgree, [Next]_vars PROVE StoredAgree'
<1> USE SchedulingAssumption DEF jobs, chats
<1>1. CASE UNCHANGED vars
  BY <1>1 DEF vars, StoredAgree, Stored
<1>2. CASE UNCHANGED jobs
  BY <1>2 DEF StoredAgree, Stored
<1>3. ASSUME NEW t \in Tasks, UpdateTask(t) PROVE StoredAgree'
  <2>1. \A u \in Tasks \ {t} : store'[u] = store[u]
    BY <1>3 DEF UpdateTask, TypeOK
  <2> QED BY <1>3, <2>1 DEF UpdateTask, Asked, LoopFree, StoredAgree, Stored
<1>4. ASSUME NEW t \in Tasks, Delete(t) PROVE StoredAgree'
  BY <1>4 DEF Delete, StoredAgree, Stored
<1>5. ASSUME NEW t \in Tasks, NEW k \in Kinds, Add(t, k) PROVE StoredAgree'
  BY <1>5 DEF Add, StoredAgree, Stored, TypeOK
<1>6. ASSUME NEW t \in Tasks, NEW k \in Kinds, Reschedule(t, k) PROVE StoredAgree'
  <2>1. store[t] \in Job
    BY <1>6, JobOrNot DEF Reschedule, TypeOK, Stored
  <2>2. store'[t].args = store'[t].trigger
    BY <1>6, <2>1 DEF Reschedule, TypeOK, Job
  <2>3. \A u \in Tasks \ {t} : store'[u] = store[u] /\ (u \in torn' <=> u \in torn)
    BY <1>6 DEF Reschedule, TypeOK
  <2> QED BY <1>6, <2>2, <2>3 DEF Reschedule, StoredAgree, Stored
<1>7. CASE RescheduleFails
  BY <1>7 DEF RescheduleFails, StoredAgree, Stored
<1>8. ASSUME NEW t \in Tasks, Comes(t) \/ Passes(t) \/ Due(t) PROVE StoredAgree'
  <2>1. t \in Stored /\ store[t] \in Job
    BY <1>8, JobOrNot DEF Comes, Passes, Due, Fire, Misfire, Stored
  <2>2. \/ store'[t] = NoJob
        \/ store'[t].args = store[t].args /\ store'[t].trigger = store[t].trigger
    BY <1>8, <2>1 DEF Comes, Passes, Due, Fire, Misfire, AfterRun, TypeOK, Job
  <2>3. /\ \A u \in Tasks \ {t} : store'[u] = store[u]
        /\ torn' = torn /\ updating' = updating
    BY <1>8 DEF Comes, Passes, Due, Fire, Misfire, TypeOK
  <2> QED BY <2>1, <2>2, <2>3 DEF StoredAgree, Stored
<1>9. CASE Crash
  BY <1>9 DEF Crash, StoredAgree, Stored
<1>10. CASE List \/ Shutdown \/ Exit \/ StartApp
  BY <1>2, <1>10 DEF List, Shutdown, Exit, StartApp
<1>11. ASSUME NEW t \in Tasks, NEW i \in Instances, RunStep(t, i) PROVE StoredAgree'
  BY <1>11, RunStepMoves DEF StoredAgree, Stored
<1> QED BY <1>1, <1>3, <1>4, <1>5, <1>6, <1>7, <1>8, <1>9, <1>10, <1>11 DEF Next, Request

LEMMA StartsAsScheduled ==
    ASSUME TypeOK, StoredAgree, [Next]_vars,
           NEW t \in Tasks \ torn, NEW i \in Instances,
           run[t][i] = NoRun, run'[t][i] # NoRun
    PROVE  run'[t][i].whole
<1> USE SchedulingAssumption DEF jobs, chats
<1>1. CASE run' = run
  BY <1>1
<1>2. CASE run' = NoRuns
  BY <1>2 DEF NoRuns
<1>3. ASSUME NEW u \in Tasks, Fire(u) PROVE run'[t][i].whole
  <2>1. store[u].args = store[u].trigger \/ u # t
    BY <1>3 DEF Fire, LoopFree, StoredAgree, TypeOK
  <2>2. PICK j \in Instances :
           run' = [run EXCEPT ![u][j] = New(u)]
    BY <1>1, <1>3 DEF Fire, Free, New
  <2>3. u = t /\ j = i
    BY <2>2 DEF TypeOK
  <2> QED BY <2>1, <2>2, <2>3 DEF TypeOK, New
<1>4. ASSUME NEW u \in Tasks, NEW j \in Instances, RunStep(u, j)
      PROVE  run'[t][i].whole
  <2>1. run[u][j] # NoRun /\ \E r : run' = [run EXCEPT ![u][j] = r]
    BY <1>4, RunStepMoves, RunOrNot DEF Steps, Becomes
  <2>2. run'[t][i] = run[t][i]
    BY <2>1 DEF TypeOK
  <2> QED BY <2>2
<1>5. CASE Request \/ RescheduleFails \/ StartApp \/ UNCHANGED vars
  BY <1>1, <1>5 DEF Request, List, UpdateTask, Delete, Add, RescheduleFails, StartApp, vars
<1>6. CASE Shutdown \/ Exit \/ Crash
  BY <1>2, <1>6 DEF Shutdown, Exit, Crash, NothingRuns
<1>7. ASSUME NEW u \in Tasks, NEW k \in Kinds, Reschedule(u, k)
      PROVE  run'[t][i].whole
  BY <1>1, <1>7 DEF Reschedule
<1>8. ASSUME NEW u \in Tasks, Comes(u) \/ Passes(u) \/ Misfire(u)
      PROVE  run'[t][i].whole
  BY <1>1, <1>8 DEF Comes, Passes, Misfire
<1> QED BY <1>3, <1>4, <1>5, <1>6, <1>7, <1>8 DEF Next, Due

\* RunIsAsScheduled holds: a run that starts sends the prompt of the schedule
\* that made it due, unless an update of its task failed half way.
THEOREM RunsAsScheduled == Spec => RunIsAsScheduled
<1>1. Init => TypeOK /\ StoredAgree
  BY InitType DEF Init, StoredAgree, Stored
<1>2. TypeOK /\ StoredAgree /\ [Next]_vars => TypeOK' /\ StoredAgree'
  BY TypeStep, StoredAgreeStep
<1>3. TypeOK /\ StoredAgree /\ [Next]_vars =>
        \A t \in Tasks \ torn, i \in Instances :
          run[t][i] = NoRun /\ run'[t][i] # NoRun => run'[t][i].whole
  BY StartsAsScheduled
<1> QED BY <1>1, <1>2, <1>3, PTL DEF Spec, RunIsAsScheduled

-----------------------------------------------------------------------------
(* Clients are released *)

\* What is the same for a task that a step does not concern.
Same(t) ==
    /\ run'[t] = run[t] /\ registered'[t] = registered[t] /\ conn'[t] = conn[t]
    /\ (t \in running' <=> t \in running) /\ (t \in shut' <=> t \in shut)
    /\ (t \in kept' <=> t \in kept) /\ (t \in raced' <=> t \in raced)

LEMMA SameHeld ==
    ASSUME NEW t \in Tasks, Same(t), TaskHeld(t) PROVE TaskHeld(t)'
BY DEF Same, TaskHeld, OneWorks, NobodyWorks, Quiet, Holds

LEMMA OtherTasks ==
    ASSUME TypeOK, NEW t \in Tasks, NEW i \in Instances, RunStep(t, i),
           NEW u \in Tasks, u # t
    PROVE  Same(u)
<1>1. run'[u] = run[u]
  BY RunStepMoves DEF Steps, Becomes, TypeOK
<1>2. CASE Evict(t, i) \/ Evicted(t, i) \/ Complete(t, i) \/ Released(t, i)
  BY <1>1, <1>2 DEF Evict, Evicted, Complete, Released, CloseChat, ChatClosed, Forgotten, Same, TypeOK
<1>3. CASE Register(t, i)
  <2>1. PICK c : registered' = [registered EXCEPT ![t] = c] /\ conn' = [conn EXCEPT ![t] = @ \union {c}]
    BY <1>3 DEF Register
  <2> QED BY <1>1, <1>3, <2>1 DEF Register, Same, TypeOK
<1>4. CASE Begin(t, i) \/ RunRefused(t, i) \/ Reuse(t, i) \/ Create(t, i) \/ ConnectFails(t, i) \/ RunEnds(t, i)
  BY <1>1, <1>4 DEF Begin, RunRefused, Reuse, Create, ConnectFails, RunEnds, chats, Same
<1>5. CASE Submit(t, i) \/ PromptRefused(t, i) \/ TurnStarts(t, i)
  BY <1>1, <1>5 DEF Submit, PromptRefused, TurnStarts, Same, TypeOK
<1> QED BY <1>2, <1>3, <1>4, <1>5 DEF RunStep

\* The run that makes a step, and the others.
LEMMA OwnRun ==
    ASSUME TypeOK, NEW t \in Tasks, NEW i \in Instances, run[t][i] \in Run, NEW r,
           Becomes(t, i, r)
    PROVE  run'[t][i] = r /\ \A j \in Instances : j # i => run'[t][j] = run[t][j]
BY DEF Becomes, TypeOK

LEMMA OwnTask ==
    ASSUME TypeOK, NEW t \in Tasks, NEW i \in Instances, RunStep(t, i),
           t \notin raced', TaskHeld(t)
    PROVE  TaskHeld(t)'
<1> USE DEF Works, Unmarked, Marked
<1>1. run[t][i] \in Run
  BY RunStepMoves
<1> DEFINE R == run[t][i]
<1>2. R.chat \in Chats \union {Nobody} /\ registered[t] \in Chats \union {Nobody}
  BY <1>1 DEF Run, TypeOK
<1>3. /\ OneWorks(t) /\ conn[t] \subseteq {registered[t]}
      /\ registered[t] = Nobody => t \notin running /\ t \notin shut
      /\ \A j \in Instances : Holds(t, j)
      /\ NobodyWorks(t) => Quiet(t)
  BY DEF TaskHeld
<1>4. R.at \in Works => \A j \in Instances : j # i => run[t][j].at \notin Works
  BY <1>3 DEF OneWorks
\* What a step that leaves the session alone, or is the only one to work on it, has to show.
<1>5. ASSUME \A j \in Instances : j # i => run'[t][j] = run[t][j],
             \A j \in Instances : j # i => run[t][j].at \notin Works,
             conn'[t] \subseteq {registered'[t]},
             registered'[t] = Nobody => t \notin running' /\ t \notin shut',
             Holds(t, i)',
             \A j \in Instances : j # i /\ run[t][j].at = "closed" => run[t][j].chat # registered'[t],
             run'[t][i].at \notin Works => Quiet(t)'
      PROVE  TaskHeld(t)'
  <2>1. OneWorks(t)'
    BY <1>5 DEF OneWorks
  <2>2. \A j \in Instances : Holds(t, j)'
    BY <1>3, <1>5 DEF Holds
  <2>3. NobodyWorks(t)' => Quiet(t)'
    BY <1>5 DEF NobodyWorks
  <2> QED BY <1>5, <2>1, <2>2, <2>3 DEF TaskHeld
<1>6. \A j \in Instances : run[t][j].at = "closed" =>
          run[t][j].chat # registered[t] /\ run[t][j].chat # Nobody
  BY <1>3 DEF Holds
<1>7. ASSUME NEW to, GoTo(t, i, to)
      PROVE  /\ run'[t][i].at = to /\ run'[t][i].chat = R.chat
             /\ \A j \in Instances : j # i => run'[t][j] = run[t][j]
  <2> DEFINE g == [R EXCEPT !.at = to, !.victim = Nobody]
  <2>1. g.at = to /\ g.chat = R.chat
    BY <1>1 DEF Run
  <2>2. Becomes(t, i, g)
    BY <1>7 DEF GoTo
  <2> HIDE DEF g
  <2> QED BY <1>1, <2>1, <2>2, OwnRun
<1>8. ASSUME Leave(t, i)
      PROVE  /\ run'[t][i].at = "none"
             /\ \A j \in Instances : j # i => run'[t][j] = run[t][j]
  BY <1>1, <1>8, OwnRun DEF Leave, NoRun
<1>9. ASSUME NEW c, NEW to, Takes(t, i, c, to)
      PROVE  /\ run'[t][i].at = to /\ run'[t][i].chat = c
             /\ \A j \in Instances : j # i => run'[t][j] = run[t][j]
  <2> DEFINE g == [R EXCEPT !.at = to, !.chat = c]
  <2>1. g.at = to /\ g.chat = c
    BY <1>1 DEF Run
  <2>2. Becomes(t, i, g)
    BY <1>9 DEF Takes
  <2> HIDE DEF g
  <2> QED BY <1>1, <2>1, <2>2, OwnRun
<1>10. ASSUME NEW c, NEW to, Closes(t, i, c, to)
       PROVE  /\ run'[t][i].at = to /\ run'[t][i].chat = R.chat /\ run'[t][i].victim = c
              /\ \A j \in Instances : j # i => run'[t][j] = run[t][j]
  <2> DEFINE g == [R EXCEPT !.at = to, !.victim = c]
  <2>1. g.at = to /\ g.chat = R.chat /\ g.victim = c
    BY <1>1 DEF Run
  <2>2. Becomes(t, i, g)
    BY <1>10 DEF Closes
  <2> HIDE DEF g
  <2> QED BY <1>1, <2>1, <2>2, OwnRun
<1>11. CASE Begin(t, i)
  <2>1. R.at = "begin" /\ t \notin running /\ GoTo(t, i, "provider")
    BY <1>11 DEF Begin, At, Seen
  <2>2. \A j \in Instances : run[t][j].at \notin Unmarked
    BY <1>11 DEF Begin, NoRun
  <2>3. NobodyWorks(t)
    BY <1>3, <2>1, <2>2 DEF NobodyWorks, Holds
  <2>4. Quiet(t)' /\ UNCHANGED <<registered, running, shut, conn, kept>>
    BY <1>3, <1>11, <2>3 DEF Begin, Quiet
  <2>5. Holds(t, i)'
    BY <1>7, <2>1, <2>4 DEF Holds
  <2> QED BY <1>3, <1>5, <1>6, <1>7, <2>1, <2>3, <2>4, <2>5 DEF NobodyWorks
<1>12. CASE RunRefused(t, i) \/ ConnectFails(t, i)
  <2>1. R.at \in {"begin", "provider", "create"} /\ Leave(t, i) /\ UNCHANGED chats
    BY <1>12 DEF RunRefused, ConnectFails, At
  <2>2. Holds(t, i)' /\ OneWorks(t)'
    BY <1>3, <1>8, <2>1 DEF Holds, OneWorks
  <2>3. \A j \in Instances : Holds(t, j)'
    <3>1. UNCHANGED <<registered, running, shut, kept>>
      BY <2>1 DEF chats
    <3>2. ASSUME NEW j \in Instances, j # i PROVE Holds(t, j)'
      <4>1. Holds(t, j) /\ run'[t][j] = run[t][j]
        BY <1>3, <1>8, <2>1, <3>2
      <4> QED BY <3>1, <4>1 DEF Holds, Quiet
    <3> QED BY <2>2, <3>2
  <2>4. NobodyWorks(t)' => Quiet(t)'
    <3>1. R.at \notin Works => (NobodyWorks(t)' => NobodyWorks(t))
      BY <1>8, <2>1 DEF NobodyWorks
    <3>2. R.at = "provider" => Quiet(t)
      BY <1>3 DEF Holds
    <3>3. R.at = "create" => Quiet(t)
      BY <1>3 DEF Holds, Quiet
    <3> QED BY <1>3, <2>1, <3>1, <3>2, <3>3 DEF Quiet, chats
  <2> QED BY <1>3, <2>1, <2>2, <2>3, <2>4 DEF TaskHeld, chats
<1>13. CASE Reuse(t, i)
  <2>1. /\ R.at = "provider" /\ Quiet(t) /\ registered[t] # Nobody
        /\ UNCHANGED <<registered, shut, conn, kept>>
    BY <1>3, <1>13 DEF Reuse, At, Holds
  <2>2. \/ Takes(t, i, registered[t], "queued") /\ t \in running'
        \/ Takes(t, i, registered[t], "prepared") /\ running' = running
    BY <1>13 DEF Reuse
  <2>3. Holds(t, i)' /\ run'[t][i].at \in Works
    BY <1>9, <2>1, <2>2 DEF Holds, Quiet
  <2>4. \A j \in Instances : j # i => run'[t][j] = run[t][j]
    BY <1>9, <2>2
  <2> QED BY <1>3, <1>4, <1>5, <1>6, <2>1, <2>3, <2>4
<1>14. CASE Evict(t, i)
  <2>1. /\ R.at = "provider" /\ Quiet(t) /\ registered[t] # Nobody
        /\ UNCHANGED <<registered, running, conn, kept>>
        /\ Closes(t, i, registered[t], "evict")
    BY <1>3, <1>14 DEF Evict, CloseChat, At, Holds, Quiet
  <2>2. Holds(t, i)' /\ run'[t][i].at \in Works
    BY <1>10, <2>1 DEF Holds, Quiet
  <2> QED BY <1>3, <1>4, <1>5, <1>6, <1>10, <2>1, <2>2
<1>15. ASSUME NEW closing \in {"evict", "closing"}, ChatClosed(t, i, closing)
       PROVE  /\ R.at = closing /\ conn'[t] = {} /\ registered'[t] = Nobody /\ Quiet(t)'
              /\ R.at = "closing" => R.chat # Nobody
  <2>1. R.at = closing /\ R.victim = registered[t]
    BY <1>3, <1>15 DEF ChatClosed, At, Holds
  <2>2. Forgotten(t) /\ conn' = [conn EXCEPT ![t] = conn[t] \ {registered[t]}]
    BY <1>15, <2>1 DEF ChatClosed
  <2>3. conn'[t] = {} /\ registered'[t] = Nobody
    BY <1>3, <2>2 DEF Forgotten, TypeOK
  <2> QED BY <1>3, <2>1, <2>2, <2>3 DEF Forgotten, Quiet, Holds
<1>16. CASE Evicted(t, i)
  <2>1. ChatClosed(t, i, "evict") /\ (GoTo(t, i, "create") \/ Leave(t, i))
    BY <1>16 DEF Evicted
  <2>2. R.at = "evict" /\ conn'[t] = {} /\ registered'[t] = Nobody /\ Quiet(t)'
    BY <1>15, <2>1
  <2>3. Holds(t, i)'
    BY <1>7, <1>8, <2>1, <2>2 DEF Holds
  <2>4. \A j \in Instances : j # i => run'[t][j] = run[t][j]
    BY <1>7, <1>8, <2>1
  <2> QED BY <1>4, <1>5, <1>6, <2>2, <2>3, <2>4 DEF Quiet
<1>17. CASE Create(t, i)
  <2>1. R.at = "provider" /\ registered[t] = Nobody /\ GoTo(t, i, "create") /\ UNCHANGED chats
    BY <1>17 DEF Create, At
  <2>2. Holds(t, i)' /\ run'[t][i].at \in Works
    BY <1>7, <2>1 DEF Holds, chats
  <2> QED BY <1>3, <1>4, <1>5, <1>6, <1>7, <2>1, <2>2 DEF chats
<1>18. CASE Register(t, i)
  <2> DEFINE c == CHOOSE c \in NewChats(t) : TRUE
  <2>1. c \in NewChats(t)
    BY <1>18 DEF Register
  <2>2. R.at = "create" /\ registered[t] = Nobody /\ t \notin shut'
    BY <1>3, <1>18 DEF Register, At, Holds
  <2>3. registered' = [registered EXCEPT ![t] = c] /\ conn' = [conn EXCEPT ![t] = @ \union {c}]
    BY <1>18 DEF Register
  <2>4. \/ Takes(t, i, c, "queued") /\ t \in running'
        \/ Takes(t, i, c, "prepared") /\ t \notin running'
        \/ Leave(t, i) /\ t \notin running' /\ t \in kept'
    BY <1>18 DEF Register
  <2> HIDE DEF c
  <2>5. c \in Chats /\ c # Nobody /\
        \A j \in Instances : run[t][j].at = "closed" => run[t][j].chat # c
    <3>1. \A j \in Instances : run[t][j].at = "closed" => run[t][j] # NoRun
      BY DEF NoRun
    <3> QED BY <2>1, <3>1, SchedulingAssumption DEF NewChats
  <2>6. registered'[t] = c /\ conn'[t] \subseteq {c}
    BY <1>3, <2>2, <2>3, SchedulingAssumption DEF TypeOK
  <2>7. \A j \in Instances : j # i => run'[t][j] = run[t][j]
    BY <1>8, <1>9, <2>4
  <2>8. Holds(t, i)' /\ (run'[t][i].at \notin Works => Quiet(t)')
    BY <1>8, <1>9, <2>2, <2>4, <2>5, <2>6 DEF Holds, Quiet
  <2> QED BY <1>4, <1>5, <2>2, <2>5, <2>6, <2>7, <2>8
<1>19. CASE Submit(t, i) \/ TurnStarts(t, i)
  <2>1. /\ R.at \in {"prepared", "queued"} /\ R.chat = registered[t] /\ R.chat # Nobody
        /\ UNCHANGED <<registered, shut, kept>> /\ t \notin shut
    BY <1>3, <1>19 DEF Submit, TurnStarts, At, Holds
  <2>2. t \in running' /\ (GoTo(t, i, "queued") \/ GoTo(t, i, "turn"))
    BY <1>3, <1>19, <2>1 DEF Submit, TurnStarts, At, Holds
  <2>3. conn'[t] = conn[t] \union {R.chat}
    BY <1>19 DEF Submit, TurnStarts, TypeOK
  <2>4. Holds(t, i)' /\ run'[t][i].at \in Works
    BY <1>7, <2>1, <2>2 DEF Holds
  <2>5. \A j \in Instances : j # i => run'[t][j] = run[t][j]
    BY <1>7, <2>2
  <2> QED BY <1>3, <1>4, <1>5, <1>6, <2>1, <2>3, <2>4, <2>5
<1>20. CASE PromptRefused(t, i)
  <2>1. /\ R.at = "prepared" /\ R.chat = registered[t] /\ R.chat # Nobody
        /\ t \notin running /\ t \notin shut
        /\ Leave(t, i) /\ t \in kept' /\ UNCHANGED <<registered, running, shut>>
    BY <1>3, <1>20 DEF PromptRefused, At, Holds
  <2>2. conn'[t] \subseteq conn[t] \union {R.chat}
    BY <1>20 DEF PromptRefused, TypeOK
  <2>3. Holds(t, i)' /\ Quiet(t)'
    BY <1>8, <2>1 DEF Holds, Quiet
  <2> QED BY <1>3, <1>4, <1>5, <1>6, <1>8, <2>1, <2>2, <2>3
<1>21. CASE Complete(t, i)
  <2>1. /\ R.at = "turn" /\ R.chat = registered[t] /\ R.chat # Nobody
        /\ t \in running /\ t \notin shut
    BY <1>3, <1>21 DEF Complete, At, Holds
  <2>2. Closes(t, i, registered[t], "closing") /\ UNCHANGED <<registered, running, conn, kept>>
    BY <1>21, <2>1 DEF Complete, CloseChat
  <2>3. Holds(t, i)' /\ run'[t][i].at \in Works
    BY <1>10, <2>1, <2>2 DEF Holds
  <2> QED BY <1>3, <1>4, <1>5, <1>6, <1>10, <2>1, <2>2, <2>3
<1>22. CASE Released(t, i)
  <2>1. ChatClosed(t, i, "closing") /\ GoTo(t, i, "closed")
    BY <1>22 DEF Released
  <2>2. /\ R.at = "closing" /\ conn'[t] = {} /\ registered'[t] = Nobody /\ Quiet(t)'
        /\ R.chat # Nobody
    BY <1>15, <2>1
  <2>3. Holds(t, i)'
    BY <1>7, <2>1, <2>2 DEF Holds
  <2> QED BY <1>4, <1>5, <1>6, <1>7, <2>1, <2>2, <2>3 DEF Quiet
<1>23. CASE RunEnds(t, i)
  <2>1. R.at = "closed" /\ Leave(t, i) /\ UNCHANGED <<registered, shut, conn, kept>>
    BY <1>23 DEF RunEnds, Ended, At
  <2>2. running' = running
    BY <1>6, <1>23, <2>1 DEF RunEnds
  <2>3. \A j \in Instances : Holds(t, j)'
    BY <1>3, <1>8, <2>1, <2>2 DEF Holds, Quiet
  <2>4. OneWorks(t)'
    BY <1>3, <1>8, <2>1 DEF OneWorks
  <2>5. NobodyWorks(t)' => Quiet(t)'
    BY <1>3, <1>8, <2>1, <2>2 DEF NobodyWorks, Quiet
  <2> QED BY <1>3, <2>1, <2>2, <2>3, <2>4, <2>5 DEF TaskHeld
<1> QED BY <1>11, <1>12, <1>13, <1>14, <1>16, <1>17, <1>18, <1>19, <1>20, <1>21, <1>22, <1>23 DEF RunStep

LEMMA ClientsHeldStep ==
    ASSUME TypeOK, ClientsHeld, [Next]_vars PROVE ClientsHeld'
<1> USE DEF jobs, chats
<1>1. CASE run' = run /\ UNCHANGED chats /\ (app' = app \/ app' = "closing" \/ app # "closing")
  BY <1>1, SameHeld DEF ClientsHeld, Same
<1>2. CASE NothingRuns
  <2>1. ASSUME NEW t \in Tasks PROVE TaskHeld(t)'
    <3>1. \A i \in Instances : run'[t][i].at = "none"
      BY <1>2 DEF NothingRuns, NoRuns, NoRun
    <3>2. registered'[t] = Nobody /\ conn'[t] = {} /\ t \notin running' /\ t \notin shut'
      BY <1>2 DEF NothingRuns, Nothing
    <3> QED BY <3>1, <3>2 DEF TaskHeld, OneWorks, NobodyWorks, Quiet, Holds, Works, Unmarked, Marked
  <2> QED BY <2>1 DEF ClientsHeld
<1>3. CASE app' = "closing"
  BY <1>3 DEF ClientsHeld
<1>4. ASSUME NEW t \in Tasks, Fire(t) PROVE ClientsHeld'
  <2>1. CASE run' = run
    BY <1>1, <1>4, <2>1 DEF Fire
  <2>2. CASE \E i \in Instances : run[t][i] = NoRun /\ run' = [run EXCEPT ![t][i] = New(t)]
    <3>1. PICK i \in Instances : run[t][i] = NoRun /\ run' = [run EXCEPT ![t][i] = New(t)]
      BY <2>2
    <3>2. /\ run'[t][i].at = "begin" /\ run[t][i].at = "none"
          /\ \A j \in Instances : j # i => run'[t][j] = run[t][j]
          /\ \A u \in Tasks : u # t => run'[u] = run[u]
      BY <3>1 DEF TypeOK, New, NoRun
    <3>3. UNCHANGED <<app, chats>>
      BY <1>4 DEF Fire
    <3>4. \A u \in Tasks : u # t => Same(u)
      BY <3>2, <3>3 DEF Same
    <3>5. ASSUME TaskHeld(t) PROVE TaskHeld(t)'
      <4>1. OneWorks(t)' /\ (NobodyWorks(t)' => NobodyWorks(t))
        BY <3>2, <3>5 DEF TaskHeld, OneWorks, NobodyWorks, Works, Unmarked, Marked
      <4>2. \A j \in Instances : Holds(t, j)'
        BY <3>2, <3>3, <3>5 DEF TaskHeld, Holds, Quiet, Marked
      <4> QED BY <3>3, <3>5, <4>1, <4>2 DEF TaskHeld, Quiet
    <3> QED BY <3>3, <3>4, <3>5, SameHeld DEF ClientsHeld
  <2> QED BY <1>4, <2>1, <2>2 DEF Fire, Free, New
<1>5. ASSUME NEW t \in Tasks, NEW i \in Instances, RunStep(t, i) PROVE ClientsHeld'
  <2>1. app' = app /\ raced \subseteq raced'
    <3>1. app' = app
      BY <1>5, RunStepMoves
    <3>2. raced \subseteq raced'
      BY <1>5 DEF RunStep, Begin, RunRefused, Reuse, Evict, Evicted, Create, ConnectFails, Register,
                  Submit, PromptRefused, TurnStarts, Complete, Released, RunEnds, ChatClosed
    <3> QED BY <3>1, <3>2
  <2>2. ASSUME NEW u \in Tasks \ raced', app # "closing" PROVE TaskHeld(u)'
    <3>1. TaskHeld(u)
      BY <2>1, <2>2 DEF ClientsHeld
    <3>2. CASE u = t
      BY <1>5, <2>2, <3>1, <3>2, OwnTask
    <3>3. CASE u # t
      BY <1>5, <3>1, <3>3, OtherTasks, SameHeld
    <3> QED BY <3>2, <3>3
  <2> QED BY <2>1, <2>2 DEF ClientsHeld
<1>6. CASE Request \/ RescheduleFails \/ UNCHANGED vars
  BY <1>1, <1>6 DEF Request, List, UpdateTask, Delete, Add, RescheduleFails, vars
<1>7. CASE Shutdown \/ Exit \/ Crash \/ StartApp
  BY <1>1, <1>2, <1>3, <1>7 DEF Shutdown, Exit, Crash, StartApp
<1>8. ASSUME NEW t \in Tasks, NEW k \in Kinds, Reschedule(t, k) PROVE ClientsHeld'
  BY <1>1, <1>8 DEF Reschedule
<1>9. ASSUME NEW t \in Tasks, Comes(t) \/ Passes(t) \/ Misfire(t) PROVE ClientsHeld'
  BY <1>1, <1>9 DEF Comes, Passes, Misfire
<1> QED BY <1>4, <1>5, <1>6, <1>7, <1>8, <1>9 DEF Next, Due

\* ClientsReleased holds: when the runs of a task are over no client of it is
\* left but one that a refused prompt kept, for any number of tasks and runs at
\* a time, as long as no two of its runs raced for the check.
THEOREM ClientsAreReleased == Spec => []ClientsReleased
<1>1. Init => TypeOK /\ ClientsHeld
  <2> SUFFICES ASSUME Init PROVE ClientsHeld
    BY InitType
  <2>1. ASSUME NEW t \in Tasks PROVE TaskHeld(t)
    <3>1. \A i \in Instances : run[t][i].at = "none"
      BY DEF Init, NoRuns, NoRun
    <3>2. registered[t] = Nobody /\ conn[t] = {} /\ t \notin running /\ t \notin shut
      BY DEF Init, Nothing
    <3> QED BY <3>1, <3>2 DEF TaskHeld, OneWorks, NobodyWorks, Quiet, Holds, Works, Unmarked, Marked
  <2> QED BY <2>1 DEF ClientsHeld
<1>2. TypeOK /\ ClientsHeld /\ [Next]_vars => TypeOK' /\ ClientsHeld'
  BY TypeStep, ClientsHeldStep
<1>3. TypeOK /\ ClientsHeld => ClientsReleased
  <2> SUFFICES ASSUME TypeOK, ClientsHeld, NEW t \in Tasks \ raced, app = "up", Free(t) = Instances
               PROVE  conn[t] \subseteq (IF t \in kept THEN {registered[t]} ELSE {})
    BY DEF ClientsReleased
  <2>1. TaskHeld(t) /\ conn[t] \subseteq Chats
    BY DEF ClientsHeld, TypeOK
  <2>2. NobodyWorks(t)
    BY DEF Free, NobodyWorks, NoRun, Works, Unmarked, Marked
  <2> QED BY <2>1, <2>2, SchedulingAssumption DEF TaskHeld, Quiet
<1> QED BY <1>1, <1>2, <1>3, PTL DEF Spec

=============================================================================
