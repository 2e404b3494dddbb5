# Formal models of Xalling

Xalling is a desktop application around the Claude Agent SDK: a Python backend
(`src/backend`) served to a web frontend (`src/frontend`) over HTTP and one
WebSocket. This directory holds TLA+ models of the parts of the program whose
correctness depends on the order of events: TLC checks them on small instances,
and TLAPS proves the central safety properties for every value of the constants.

- [The system](#the-system): components, state, operations, interactions
- [Models](#models): which module models what, and how it follows the code
- [Runs](#runs): what TLC checks, with which bounds
- [Fairness](#fairness)
- [Proofs](#proofs)
- [What the models found](#what-the-models-found)
- [Not modelled](#not-modelled)
- [Plan](#plan)

## The system

| Component | Code | State it keeps | Operations |
|---|---|---|---|
| Chat client | `claude_chat_client/client.py` | SDK connection, turn lock, connect lock, active queue, stop flag, pending permissions, last result | `send`/`stream`, `_produce_turn`, `connect`, `close`, `interrupt`, `rewind_files`, `resolve_permission`, control calls |
| Chat service | `service/chat/service.py` | `_active_chats` (retained clients), running marks, `_restoring_projects` | create, reuse, evict and close clients; prompts, slash commands, scheduled tasks, rewinds, control calls; `shutdown_clients` |
| Message adapter, history, checkpoints | `claude_chat_client/*.py` | counters and open blocks of one turn; transcripts on disk | SDK message to events; transcript to conversation; which checkpoints can be restored |
| Event delivery | `service/chat/events.py`, `router/events.py` | the set of WebSocket connections | broadcast with a bounded send; deny permissions when the last connection goes |
| Application lifecycle | `application.py`, `websocket_server.py`, `scheduler.py` | operations that outlive their request, launch token | lifespan, start and cancel operations, shutdown |
| Knowledge store | `service/knowledge/store.py` | `catalog.json`, vector index, synchronisation status | import, delete, synchronise, search, read |
| Embedding model, chunking | `service/knowledge/embedding.py`, `chunking.py`, `text_files.py` | model files, loaded model, download progress | download, validate, embed; split a document |
| Scheduler | `service/scheduling/service.py`, `service/tools/scheduler.py` | persistent APScheduler jobs | add, list, update, delete; the runs of due tasks |
| Settings | `service/settings/*.py`, `config/*.py` | configured sites, current selection | read, save, select |
| Frontend | `frontend/src/**` | conversation, trace, covered event ids | connect, recover, apply events |
| Installer migration | `script/installer_data.py` | data directory, configuration file | stage, rename, switch |
| Desktop services, single instance, routers, agent tools | `service/desktop`, `single_instance.py`, `router`, `service/tools` | OS objects only | thin adapters |

How they interact. An HTTP router starts an operation of the chat service; it
looks up or creates the retained `ClaudeChatClient` of the session and calls
`send`. The client's producer task reads the SDK's messages, the adapter turns
them into events, an unbounded queue carries them to `send`'s loop, and the
service's handler broadcasts them to the WebSocket connections. A permission
request runs as a callback of the SDK inside the same turn and is answered by
another HTTP request. A scheduled task takes the same way and closes its client
in `on_complete`, inside the turn. The knowledge store is called by routers and
by the agent's search tool, in worker threads, under one lock.

What is hard:

- *Locks and awaits in the client.* `_turn_lock` serializes turns, rewinds and
  close; `_connect_lock` guards the connection, also for calls that take no
  turn lock. A stop may come before, while or after a query is submitted;
  answers may be deferred for background tasks; an abandoned stream has ten
  seconds to drain.
- *Check, await, act in the service.* Nearly every request looks at the
  registry, waits for a provider, a connection, server information or a close,
  and then acts on what it saw.
- *Two stores without a transaction.* The catalog is replaced atomically, the
  index is durable only when flushed, and the original files change at any time.
- *Delivery.* A send that times out may have arrived; a reconnecting frontend
  merges history, retained events and live events.
- *One story told twice.* What the adapter tells live from a stream with lost
  and repeated frames, the history tells again from transcripts.
- *Shutdown, scheduler and migration.* Cancellation of some but not all tasks;
  overlapping runs; a crash between two renames.

For each component, correct means:

- *Client:* one turn at a time; one connection, never swapped under a reader; a
  turn ends, with its own result, also when it is stopped; the handler hears an
  ordered, complete story with one terminal event; close returns.
- *Service:* files are restored by one request and never beside a turn of the
  folder; a running mark has an owner that takes it away; a running turn is
  visible; a connected process is known; every request returns.
- *Knowledge store:* what is found is the recorded text; a failure leaves only
  what the next synchronisation repairs; synchronisation converges.
- *Delivery and frontend:* every event counts once, none is lost; a permission
  that can be shown is not denied.
- *Lifecycle:* after shutdown no process and no task is left.
- *Adapter and history:* the blocks of a message keep one name, a streamed reply
  is whole, a reopened session reads as it did live, a change shown as complete
  is what the turn did.
- *Embedding model:* what counts as ready is whole and nobody uses a model whose
  files were replaced.
- *Scheduler:* a task's trigger and arguments change together; a run
  leaves no client behind.
- *Migration:* after any crash the configured directory is complete, and no file
  is lost.

`PROJECT.json` lists the components with their status and every hazard at the
line where it bites.

## Models

### ChatClient — `client.py`

| Model | Code |
|---|---|
| `pc[a]` | where a task is: a caller of `send`/`stream` (a member of `Turns`), of `close`, of a control method, of `rewind_files` |
| `turnLock`, `connLock` | `_turn_lock`, `_connect_lock` (not reentrant) |
| `sdk`, `live`, `dropping`, `probed` | `_sdk`; the open connections; the one being disconnected; those that accepted their permission mode |
| `active`, `stopReq`, `submitted`, `lastResult` | `_active_queue`/`_active_factory`, `_stop_requested`, `_query_submitted`, `_last_result` |
| `prod`, `using`, `cancelled`, `known`, `background`, `deferred`, `chosen` | the producer task and the locals of `_produce_turn` |
| `queue`, `closed`, `shown`, `held`, `returned` | the event queue, what the handler got, the terminal event held back, what `send` returns |
| `cb`, `cbTurn`, `pending` | the callbacks in `_can_use_tool` and the pending requests |
| `inbox`, `cliTurn`, `cliTask`, `injected`, `cliStopped`, `cliDown` | external: the messages, tasks and death of the Claude Code process |

A step is what the code does between two suspension points: anyio is
cooperative, so the code between two awaits is one action, and every await at
which another task may run ends one. An event is a kind with the request it is
about, a result is the prompt's turn with its origin; texts, usage and tool
contents are not modelled because no property tells them apart. Restarting a
client after `close` is the ordinary connect of the next call, as in the code.

`TurnProtocol` is the abstract specification of what `send` promises its
caller: turns one after another, the prompt first, a decision only after its
request, at most one terminal event, last and after `on_complete`, and a result
only of a turn that ran. `ChatClient` is checked and proved to implement it (`KeepsPromise`,
`INSTANCE TurnProtocol WITH stage <- ...`); in the mapping a turn runs from its
first event until the stream is left.

### ChatService — `service.py`

| Model | Code |
|---|---|
| `pc`, `wanted`, `chat`, `victim` | the locals of every request: its phase, the model it would connect with, the chat it works on, the chat it closes |
| `retained` | `_active_chats` |
| `config`, `running`, `shut` | what a chat connects with; its running mark; whether its resources were taken to be closed |
| `conn`, `turn` | what ChatClient promises: the connection and the turn lock of every client |
| `restoring` | `_restoring_projects` |

A request is one asyncio task, made once: a prompt, a slash command, a scheduled
task, opening a session, a control call, close, or a rewind. The client appears
through its contract, which the runs of ChatClient establish: turns are
serialized, close waits for the running turn, and any call connects a client
without a connection.

### KnowledgeStore — `store.py`

| Model | Code |
|---|---|
| `documents`, `pending` | `_Catalog` in `catalog.json` (`_publish` replaces it in one step) |
| `dir`, `index`, `stored` | the index directory; which version's text every batch of chunks has; what of it would survive a crash |
| `step`, `goal`, `work`, `mtime`, `text`, `next` | the operation that holds `_STORAGE_LOCK` and its locals |
| `status`, `sync`, `todo`, `rebuild` | `_SYNC_STATES`; whether the synchronisation waits for the lock or holds it; the locals of `_sync` |
| `version`, `gone` | the original files |
| `count`, `seen` | bound and history of what went wrong |

A step is what an operation does between two writes, so a crash
(`Crash`: of what was not flushed anything may be lost), an exception (`Fault`),
and a change of the original file may come between any two. A version stands
for the text and the modification time together: a file whose text changes
while its time does not is outside the model, as it is outside the code's
check. A batch of 64 chunks is a piece; a batch that is half upserted is not
told from one that is not, because both leave the document pending.
That zvec loses nothing that was flushed is an assumption about the library.

### EventDelivery — `service.py`, `events.py`, `router/events.py`, the page

| Model | Code |
|---|---|
| `turn`, `made` | external to delivery: how far the client's turn is, and its events on the way to `_emit_chat_event` |
| `emitted`, `sending` | `active_chat.events`; the event being broadcast and the connections that are still to get it |
| `asks` | the futures behind the pending permissions of the session |
| `registered`, `shut`, `alive` | `WebSocketEvents._connections`, `EventConnection.closed`, whether the transport works |
| `wire`, `socket` | frames on their way; the connection of the page |
| `page` | seen ids, the story it shows, dialogs, the turns it takes for closed (`closedTurnsRef`), the busy mark |
| `recovery` | `subscribeChatEvents` with its buffer and covered ids |
| `load`, `history` | `loadConversation` with its queue: the answers of its two requests, `get_active_chat` and `get_chat_session` |
| `whole`, `timely` | history of what went wrong: no request failed since the last recovery; no turn came from the session's history alone |

One session, one page. A send of five seconds either arrives, arrives too late
to be counted, or fails; a socket may die at any time, its end is noticed on each
side separately; the page reconnects and asks for the active chat; the user
opens the session while all this goes on. Opening sends two requests together; they
are answered at two instants, in either order (`LoadAnswered`, `ReadHistory`), and
`Loaded` merges both answers: of the history only the events that the active chat
did not tell. The history adds a completion to every turn it tells, also to one that
runs (`Tale`, `history.py:307`). The page's requests are cancelled when their socket
closes, as `http.ts` does, and may fail otherwise.

### Scheduling — `service/scheduling/service.py`, `_run_scheduled_task`

| Model | Code |
|---|---|
| `app`, `scheduler`, `executor` | the process; `_scheduler`; `_task_executor` |
| `store`, `used` | APScheduler's job store: arguments, trigger, how the next run stands to now; the names that were used |
| `updating`, `torn` | the task between the two writes of an update; those an update was torn in |
| `run` | the runs of every task (`max_instances` of them) with what they were started with |
| `registered`, `running`, `shut` | `_active_chats`, the running mark and `resources_closed` of the chat of every task's session |
| `conn` | the clients of every session that are connected, also those no longer registered |
| `kept`, `raced` | history: a prompt was refused after it had a client; two runs were both before their mark |

Time is a distance: a next run is in the future, due, or later than the grace
time. What APScheduler does (coalescing, dropping late runs, refusing a third
one) is external and modelled from the options this code gives it. A run goes
through `_run_scheduled_task` await by await: the check of the mark (`Begin`), the
provider, the eviction of a client with another configuration, the connect of a
new one and its registration over whatever is registered then (`Register`), the
client's answer and the mark (`Submit`), the turn, and the close of what is registered
when it is over.

### EmbeddingModel — `service/knowledge/embedding.py`

`file`, `ready` are the files of the model directory and its `.ready` mark,
`downloading`, `error`, `phase` the status, `model` the loaded model with the
release it was loaded from, `lock` the `_EMBEDDING_LOCK`. Every call is a thread;
a step ends where a file is written or a lock taken, because the short state
lock makes the rest one step. A crash resets what is in memory; an exception
takes the code's own handlers; files may disappear under the program.

### DataMigration — `script/installer_data.py`

`pc` walks through `switch_data_dir`; `exists`, `disk`, `stage` are directories
and their files, `config` is `data_dir`, `before` and `hashes` what the migration
remembers. A file is a modification time and whether it is whole. Every file is
a step of its own in every loop, so that errors, crashes, broken copies and
writes of other programs come between any two. `stray`, `late` and `cut` are
history: the files written in the old directory after it was compared, those
changed where no later check sees it, and those a cutting migration has taken
away. The properties name exactly these windows.

### Conversation: MessageAdapter, SubagentUsage, FileChanges, History

Four modules of operators, the state machine that drives three of them, and the
comparison with what a reopened session shows.

| Module | Code |
|---|---|
| `MessageAdapter` | `message_adapter.py`: assistant messages, stream events, user results, tasks, what a command prints, and the counters and open blocks that name their events |
| `SubagentUsage` | `usage.py`: how many subagents a turn had and what they used |
| `FileChanges` | `file_changes.py`: what a turn did to a file |
| `History` | `history.py`: the turns of a transcript, with the subagents' transcripts merged in |
| `Conversation` | external: Claude Code says what its script tells it to, in pieces, streamed and not, in any order the protocol allows, and writes it down |
| `Reopened` | what a session shows after it was opened again: the turns that `History` tells beside those that were live |

The live story is what the adapter of the running turn makes of the messages,
the told one what `History` makes of the transcript; both use the same adapter,
as the code does. How a turn ends is told by two different pieces of code: live by
what Claude Code gives as its result, if it gives one (`TurnContent`), in the history
by the texts of the transcript or `_history_command_result`. What Claude Code may
give is an assumption (`Results`): for a prompt the last texts of the main agent
or nothing; for a command what it printed; for one that answers nothing, like
`/compact`, an empty result or none. A text is a sequence of pieces, one per frame, each a word or a
blank: the adapter holds blank pieces back until a word follows, and a lost or
repeated piece shows.

## Runs

`tlc -config <cfg> <module>`; the MC modules give the constants their values.

| Run | Instance | What it shows |
|---|---|---|
| `client_turns` | two turns, the second closes the client in `on_complete`, a control call, a rewind, two connections | turns are serialized, the connection is unique and kept, results are a turn's own, a stop is never lost, and ChatClient implements TurnProtocol |
| `client_ends` | one turn that closes its client in `on_complete`, a permission request, a background task, an injected turn, another caller of `close` | a turn ends, also a stopped one without tasks nobody decides about, and both closes return |
| `service_restore` | two prompts, a question, a close and a rewind of one session; another session of the same folder is opened and rewound | restores are exclusive, marks have owners |
| `service_returns` | two prompts with different models, a close and a scheduled task, all of one session | every request returns if no turn runs for ever |
| `service_two_prompts` | two racing prompts | violation: see below |
| `store` | two documents, two versions each, the second shorter; one crash, exception, loss or returning file | what is found is recorded text; failures are repairable; synchronisation leaves documents whole and settles every one |
| `store_index_lost` | the same, with a loss | violation: see below |
| `delivery` | one turn that asks once, a session opened by two requests, two connections, two timeouts or failed requests | events are applied once and in order, a quiet page is up to date, no question waits for nobody, what is asked is decided |
| `conversation` | four conversations: a streamed one with a lost and a repeated frame and two commands, one with nested subagents, two that edit a file somebody else writes, in one of which the first text comes back | names, replies, history, ends of turns and file changes agree |
| `schedule` | one task with three versions, two runs at a time, two clients of its session, two troubles | no run sees half an update, runs that do not race leave no client, a repeated task goes on |
| `embedding` | two downloads, an import, a search, two files, two troubles | ready is whole, the model is current, success means ready, downloads end |
| `migration` | two places, two files, three versions, three migrations, two troubles | the configured directory is complete, nothing is lost, a switch is verified |

The bounds and why they are enough for the questions asked. *Client:*
interference needs two turns (one that leaves something behind, one that could
suffer from it) and two connections (one that is replaced); an inbox of one or
two messages still lets the process run ahead of the reader. A turn that waits
for another is in `client_turns`, not in `client_ends`. *Service:* two sessions
of one folder, both with a retained chat and a rewind, one with prompts, are the
smallest instance in which two restores, or a restore and a turn, of different
sessions meet. *Store:* a second version that is shorter than the first leaves a
piece behind if deletion is forgotten; two documents are needed for a
synchronisation that is interrupted between two. *Delivery:* one question is
emitted, sent, answered and settled around one reconnection; a second trouble
lets the recovery fail after a send has timed out. Without liveness (`Spec`) the
same invariants also hold for two turns and one trouble: 6.8 million states,
four minutes. *Conversation:* a message of two blocks can lose the frame that
opens its second one; two levels of subagents are the least that has to be
merged recursively; two edits with a foreign write between them are the least
whose comparison matters; the second of them may write another text or the first
one again. *Scheduling:* `max_instances` is 2 in the code, so two clients of one
session suffice for one to be left behind; the third version lets a torn update
be repaired by another one. *Embedding:* a second file makes a directory that is
half there, a second download one that meets the first. *Migration:* two files
make a directory half copied or half deleted; the third migration starts from
what two others left, and two troubles let the next migration fail, too.

`CHECK_DEADLOCK FALSE` is said where the system really stops: a finite number of
turns, requests or migrations has been made. The store and the scheduler never
stop, because there is always something the user may ask for.

Every property of a passing run is paired, in `PROJECT.json`, with a defect of
the code that breaks it; the defective operators stand next to the ones they
replace and are marked `Defect:`.

## Fairness

- *Client:* a task that can run does run (weak fairness of the producer and the
  callbacks: the event loop); a lock that is released again and again is granted
  to every waiter (strong fairness of the actors: anyio locks are first come,
  first served); a living process that was asked answers, and a dead one makes
  the read raise. Nothing is assumed of callers, of the user, or of a process
  that may die. `TurnEnds` and `CloseReturns` assume in their statement that the
  user decides on what is shown; `StoppedTurnEnds` does not. `StoppedTurnEnds` and
  `CloseReturns` assume that no turn with background tasks is stopped, which is
  finding 3.
- *Service:* strong fairness of every request once it was made, for the same
  reasons, but not of the end of a turn: `RequestsReturn` assumes in its statement
  that no turn runs for ever. Starting a request is never fair.
- *Store:* an operation that holds the lock goes on, and a synchronisation that
  waits for the lock again and again is granted it. `SyncSettles` assumes in its
  statement that the user keeps asking for a synchronisation and that the index
  is not lost; crashes and exceptions are bounded in number, not excluded.
- *Delivery:* weak fairness of the server that sends, of the page that applies
  what arrives, and of the user who decides about a dialog in front of him.
  Connecting, turns and troubles are not fair; `AskedIsDecided` says in its
  statement that nothing timed out or failed and that the page took no turn from
  the history alone.
- *Scheduling:* time passes, due jobs are run, runs go on, a process that is
  closing exits. Here every turn is assumed to end, and a run that is refused
  counts as begun. Starting the application is not fair.
- *Embedding:* every thread that can go on does. The lock needs no more: whoever
  holds it waits for nobody, and there is a finite number of calls.
- *Migration, conversation:* safety only.

## Proofs

The theorems hold for any number of turns, requests, sessions, documents,
downloads, tasks, files, places and failures; the only assumptions are the named
`ASSUME`s on the constants, which TLC evaluates in every run.

**ChatClientProofs.** `TypeCorrect`; `Locking`: `LockDiscipline` is inductive
together with `TypeOK`. Mutual exclusion alone is not inductive: one has to
know which phases own which lock (`LockOwners`), that a control call owns no turn
lock (`ControlPhases`), that the active queue exists exactly while a stream phase
owns the turn lock and that it is left only after the producer finished
(`ActiveTurn`), and what the connect lock protects (`ConnectionUse`: the live
connection is the client's or the one being dropped by the owner of the connect
lock, and a reading producer uses the client's). `TurnsSerialized`,
`ConnectionUnique` and `ConnectionKept` follow. `StopsReachClaude` (that is
`StopIsForwarded`) needs that a producer that reads has submitted its query, and
that the transport, which forgets what was interrupted, is closed only where no
producer reads. `AnswersAreOwn` (that is `AnswerIsOwn`) rests on the books of the
one answer a prompt gets (`AnswerBooks`): it is still to be given, waits to be
read, or was read, in that order and once; a producer that ends well leaves none
behind, and one that fails always closes its connection. The run has no
background tasks, the theorem any number, with deferred answers.

*The refinement*, its second part, is `PromiseIsKept`: ChatClient implements
TurnProtocol, step by step. The invariant (`Story`, theorem `StoryIsTold`) says what the handler of the
running turn has heard or will hear from its queue: everything an event needs
before it is there (`QueueTells`), how far producer, consumer and result are
(`EndTells`), that the terminal event held back agrees with what `send` returns
(`OutcomeTells`), and that a permission callback which outlives its turn finds the
queue closed, while one that reports has its request in the queue (`AskTells`).
Lemmas about queues (`Growing`, `Taking`, `Opening`) say what an event that is put
or taken does to that order.

**ChatServiceProofs.** `RegistryConsistent`: `TypeOK` with `Registry`, which
relates every request's phase to its chat, the mark and the restored folder.
`RestoreExclusive` and `MarksOwned` follow: the mark is set in the same step as
the last check, a restore enters only a folder without a mark, and the final
step of a turn takes away the mark of its own chat only.

**KnowledgeStoreProofs.** `Inductive`: the invariant is the conjunction of the
type invariant and seven parts. `Control` says which operation may be at which
step; `Marked` that a deletion marks first; `Draft` that what is written was read
between two looks at the file with equal times; `Progress` what every step finds
of the vectors of its documents; `Sound` is `RecordedText` for the index and for
what survives a crash; `Repairable` says that without losses a document that may
be incomplete is pending or stale, i.e. that its file is newer or gone;
`Synced` what a running synchronisation has done. One lemma per part shows that
every step preserves it. `TextIsRecorded`, `FailuresRepairable` and
`SyncCompletes` follow.

**SchedulingProofs.** `RunsAsScheduled` needs that a stored task outside an
update, and not torn by one, has the arguments of its trigger (`StoredAgree`);
`ClientsAreReleased` needs to know, of a task none of whose runs passed the check
beside another (`raced`), that one run works on its session at a time, that the mark
and the close belong to that run, and that a client which is there without such a
run was kept by a refused prompt (`TaskHeld`, `ClientsHeld`). Of the other tasks nothing
is claimed: there `EveryClientIsReleased` is refuted.

**EmbeddingModelProofs.** The invariant has five parts beside `TypeOK`: one
download at a time (`OneDownload`), who holds the lock (`LockHeld`), where the
mark is and where files are being replaced (`MarkTells`), that nobody holds a
model while they are (`ModelKept`), and what a call sees as long as no file
disappears (`Undisturbed`). `ReadyMeansWhole`, `ModelStaysCurrent` and
`SuccessMeansReady` follow.

**DataMigrationProofs.** `ConfiguredIsWhole` and `NothingLost` are not inductive:
one must know where the migration is (`Where`), that a text that was read is not
older than what was seen first and the old directory has it or a newer one
(`Read`), what is staged (`Staged`), what the comparison showed (`Compared`), what
the new directory has (`Verified`), and that what is deleted is whole elsewhere
(`Carried`). The step that removes the old directory shows how they meet: its
files have the times that were seen first, so they are the texts that were read,
and these are in the new directory; a file that is newer stops the removal.

**EventDeliveryProofs.** `NobodyIsLeftWaiting` (that is `NobodyWaits`),
`EventsInOrder` (`InOrder`, as long as the page is timely) and `QuietPageIsUpToDate`
(`QuietIsUpToDate`): the safety properties of the run, for any number of turns, questions, connections, sends
that time out and requests that fail. None is inductive, because what the page
shows depends on what is on its way and that on what the server told. The
invariant is a tower whose layers use the ones below:

| Layer | Theorem | What it says |
|---|---|---|
| `ServerOK`, `TurnOK` | `ServerCorrect`, `TurnsAreTold` | how the made and the emitted events are numbered; a turn begins with a text and ends with its completion; who was asked, and that nobody waits without a connection |
| `NetOK`, `WorldOK` | `NetCorrect`, `WorldCorrect` | one connection at a time, the session is opened on the first; what a page can be told (`World`: turn, events, who waits) |
| `FlowOK` | `FlowCorrect` | all that waits in the page, is on the wire or about to be sent was emitted and comes in the order of its emission |
| `PageCorrect` | `PageIsRight` | while timely: the page shows only what was told, no part of the story that it has seen is missing, who waits and was seen is shown; an answer on its way is right and no older than the page |
| `NothingLost` | `NothingIsLost` | while timely: what matters is seen, on its way, or about to be asked for; as long as no request fails, nothing before an event on its way is missed, so the story grows in order |
| `UpToDate` | `PageIsUpToDate` | while timely: the end of a turn whose question is shown, or will be, is still to come; the busy mark agrees with the story |
| `SettledOK` | `QuestionsSettle` | while timely: on the first connection, the resolution of a question that is over and shown, or will be, is on its way |

That a recovery lets nothing get lost is `NothingMissed`: an answer covers all
that was told, so what the page knows stays a beginning of every turn, and what
waited during the recovery is either covered or applied after it. A lemma per
action (`EveryStep`) reduces the actions to eleven classes of steps (`Steps`:
`Emits`, `Loses`, `Hears`, `Recovers`, ...), which say only what happens to the page and
to what is on its way; every layer is proved over these classes. An opening that takes
a turn from the history alone is a class of its own (`Misloads`): it makes the page
untimely for good, so that the layers above `FlowOK` say nothing of it (`TimelySteps`);
that the story is in order then, too, is only model-checked. What the page
makes of many events is induction along a sequence. It is done without a theorem
that takes an operator: the set of positions that fail has a least one
(`LeastPosition`, from WellFoundedInduction), and for this reason `ApplyAll` and `Only`
are recursive functions. `AppliedAll` then says what a page has become by events
that came in order (`Applied`), the only facts about it the layers use. TLC checked
every layer, before the history was added to the model, as an invariant of 4.6 million
states; the properties of the run on 6.8 million.

**ConversationProofs.** `NamesAreTrue` (that is `BlocksHaveOneName`): for any
scripts, agents, lengths, cuts into envelopes and repeats, what an event shows
under a name is what the block of that name says. The adapter never sees the
index of a completed block: it counts, per message, what arrived in envelopes,
and per agent which message its stream is in. So the inductive invariant
`NamesKept` (theorem `NamesAreKept`) has to relate those counters to what was really said:

| Part | What it says |
|---|---|
| `Places` | every agent is at a place of what it says: the message it is in, the block it streams, how far it sent the message |
| `StreamNames` | while at most one frame was lost, a stream is of the message its agent is at, or has a name of its own because its beginning was lost; it runs until its message ends unless a frame was lost; open blocks and held back text are of it |
| `EventNames` | every event of the turn names its block (`NamesItsBlock`) |
| `EnvelopeNames` | an envelope is counted from where it was cut; the last one, which may come again, was counted, or is of a subagent of an earlier turn, whose message nobody else has |

The adapter is reasoned about message by message, for any adapter: what a frame
(`FrameKeepsNames`) and an envelope (`SendKeepsNames`, `RepeatKeepsNames`) make of one
with these properties. What an envelope makes of several blocks, and what the adapter
adds for the file tools that succeeded (`WithChanges`), comes event by event, so these are
recursive functions. The premise `count.lost <= 1` is the limit of the code: whoever
loses both the end of a message and the beginning of the next takes the two for
one. `ScriptsAssumption` says that a subagent has the name of its tool call and hence
works in one turn only. TLC checked `NamesKept` on the states of the run and on 1.4
million states of a larger script, with two streamed agents, before it was proved.

`RepliesTellAll` (that is `RepliesAreWhole`): what is told of a streamed reply is spread
over many events, between which other agents speak, frames get lost and envelopes
arrive. `ReplyTold` follows the events one by one; since a list of events only grows, what
they tell of a reply after `n` of them stays what it was, and every step has to
say only what its own events add: nothing of any reply (`Silent`) or one event of one
reply (`Speaks`). The inductive invariant `RepliesKept` (theorem `RepliesAreKept`) adds to
`NamesKept` three layers, by the number of lost frames:

| Layer | Holds | What it says |
|---|---|---|
| `RepliesHeld`, `WellTold` | always | what is held back is blank; what is visible was told with text |
| `BeginsOnce` | while at most one frame is lost | a reply has not begun as long as its start is kept, and nothing was told of blocks that were not opened or of streams that did not come |
| `StreamsAreWhole` | while none is lost | whoever is in a message has a stream that tells it; what was told of the open block and what is held back are, together, its text so far (`Spoken`); nothing is held back once the reply began |

The second layer needs the names: a stream goes on, after a lost frame, under a name
nothing was told of. The third decides when a reply may end: all pieces of its block came,
and the held back ones were told with the first that has text.

`ChangesShownAreTrue` (`LiveChangesAreTrue`, the live half of `ChangesAreTrue`): for any
files, tools of any agents that work on one file, foreign writes, and results in any order
that may not tell the text before, a file change that is shown as complete is what
the tools of the turn did, and a file that is not shown ended as it began. The inductive
invariant `ChangesHeld` (theorem `ChangesAreHeld`) needs `RepliesKept` and says that
`TurnFileChanges` holds, of every file, what its tools did (`TellsEdits`: the last text
always, the first one if the change is complete), that only calls that were answered are
marked as seen (`EditsHeld`), that every running tool is known under the name of its block
(`ToolsNamed`), also after its envelope came again (`LastCalls`), and that what was shown last
is the present snapshot. It rests on `CallsAssumption`: two calls with one id have one
name, and a file tool names a file and writes something into it.

TLC checked `ChangesHeld` on the states of `conversation` before it was proved; `RepliesKept`
speaks of all names of streams and cannot be evaluated, its consequences can.

Only model-checked: all liveness properties (`TurnEnds`, `StoppedTurnEnds`,
`CloseReturns`, `RequestsReturn`, `SyncSettles`, `AskedIsDecided`, `DownloadEnds`,
`KeepsRunning`; fairness and `ENABLED` are beyond TLAPS as used here), and what
Reopened says of the history: `HistoryAgrees`, `TurnsEndAlike` and the second half of
`ChangesAreTrue`. The history assembles whole transcripts by a recursive operator, as the
code merges nested subagents recursively, and the usage of subagents is a fold over
them: what they compute for every transcript is induction over data, which the
installed provers cannot do.

## What the models found

Two runs show where the program contradicts what it says of itself:

1. *Two prompts may run beside each other* (`service_two_prompts`,
   `service.py:317`). The running mark is looked at before provider and client
   are awaited; two creations race, and the turn of the client that was
   registered first is no longer listed and cannot be stopped.
2. *A lost index is only repaired if nothing recreates it first*
   (`store_index_lost`, `store.py:483`). The index directory is the only sign of
   a loss; once another document recreated it, or a rebuild was interrupted, or
   an index of the old structure was destroyed, the other documents count as up
   to date while their text is gone.

The modules hold more definitions that TLC refutes with the constants given
here; they are no runs of their own. Where the code says otherwise it is quoted:

3. *A stopped background task can hang its turn* (`EveryStoppedTurnEnds`,
   `client.py:584`; `FairSpec`, one turn, one task, nothing else, inbox 2, two
   connections). The deferred result is chosen, but the loop over
   `receive_response` goes on until the next result, which a stopped task never
   sends.
4. *A failed permission mode probe leaves its connection*
   (`TurnRunsOnProbedConnection`, `client.py:185`; two turns). `_sdk` is set
   before the mode is tried, so the next turn runs on a connection that refused
   its mode.
5. *A closed client is connected again* (`ConnectedIsRetained`,
   `service.py:606`; a prompt, a question and a close of one session). A request that
   looked the chat up before it was closed connects it after it was forgotten.
6. *An interrupted removal forgets its document* (`UpToDateIsWhole`,
   `store.py:466`; troubles "return" and "exception", two of them). The removal of
   a document whose file is gone does not mark it pending; if it raises after
   deleting and the file is there again as it was, the document counts as up to
   date while its text is gone.
7. *Tasks wait for the first request after a restart* (`TasksAreServed`,
   `scheduling/service.py:121`; the constants of `schedule`). The scheduler is
   created by the first request about tasks; a time that comes before it is
   served late or missed.

8. *Overlapping runs of a task leave a client* (`EveryClientIsReleased`,
   `service.py:431`; the constants of `schedule`). Two runs find no client
   (line 391), both create one (405), the second registration replaces the first,
   and `close_scheduled_chat` closes only what is registered. `_run_scheduled_task`
   says "Execute a scheduled prompt and release its dedicated client" (line 435).
9. *A running turn is taken for closed* (`RunningIsOpen`, `Workspace.tsx:430`; the
   constants of `delivery`). The active chat is read before a turn begins, the
   session's history after: `history.py:307` completes every turn it tells, the page
   marks the running one as closed, ignores its questions (`Workspace.tsx:303`) and is
   never busy with it (332). No later recovery takes the mark back.
10. *The history may show a wrong change as complete* (`HistoryChangesAreTrue`,
   `history.py:415`; the constants of `conversation`). The main agent writes 1 for 0,
   somebody else writes 2, a subagent edits 2 to 0. The history puts the edit of the
   subagent where it started, before the write of its parent, which then seems to
   follow on it: a change of 2 to 1, without the foreign one. `file_changes.py:117` says that
   "A change made outside these tools between two edits must not be attributed to
   this conversation".

What the delivery model had to say in the premises of its properties:

- After a send that timed out `events.py` (line 21) treats the connection as
  closed but does not close the socket: the page stays connected, hears nothing
  more and does not reconnect. `QuietIsUpToDate` asks nothing of such a page.
- A send that fails on an old connection denies a permission that a new
  connection already shows (`service.py:1084`).
- `client.ts:879` swallows a failed request for the active chat; a recovery that
  failed applies the live events it had buffered, and the next one the missed
  earlier ones after them. `InOrder` holds where no recovery failed or was cut off.
- Covered ids filter only the buffer of a recovery: a permission frame that
  arrives after it opens a settled dialog again, until the turn completes.
- A session that is opened while a recovery runs may be overwritten by its older
  answer; events of an earlier turn that arrive after the recovery of the next
  make the page not busy until the next event.

And the conversation model: two messages between which two frames are lost, the
end of the first and the beginning of the second, are one message to the adapter,
as `BlocksHaveOneName` says in its premise; after a lost `message_start` the streamed blocks have
other names than the completed ones, so that the page shows them twice. The history
tells the edits of two tools that work on one file in another order than live; as long
as no text comes back this makes a change look less complete than it is, otherwise
see 10.

## Not modelled

Left out for good: rendering, native dialogs, the protocol proxy, configuration
parsing, the routers, the agent's stateless tools, logging, the wording of
messages; chunking and text files, where a model would repeat the arithmetic;
the single instance lock, a mutex of the operating system.

Within the modelled components: a plan approval's change of permission mode,
`stop_chat_message` and the order in which `shutdown_clients` closes clients; the
ranking of search results; the projection of checkpoints; hooks, limits and
notices, which the adapter passes on without state; the usage totals of the main
agent; links, wrong paths and free space in the migration; requests with wrong
arguments to the scheduler.

Not yet: the operations of `application.py` that outlive their request and their
cancellation at shutdown; the settings, which one request reads, changes and
writes back.

## Plan

Modules, in the order of what they add:

1. `Application` with `shutdown_clients`, composed with ChatService's registry:
   after shutdown no operation and no client is left.
2. `EventDelivery` with two sessions, or two pages, whose recoveries overlap; an
   abstract specification of it: one ordered log per session that every page
   reads a prefix of.
3. `ModelSettings`: read, change and write back by racing requests.

Abstract specifications: a library that is a map from documents to texts, which
KnowledgeStore implements with failures as stutters; a registry in which check
and act are one step, against which the races of ChatService show.

Theorems: the history of Conversation, for which the recursive operator of `History` has
to become a recursive function over the depth of subagents, and what it shows compared
step by step with `ChangesHeld` and `RepliesKept`; the library refinement of
KnowledgeStore.
