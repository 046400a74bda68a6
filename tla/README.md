# A TLA+ model of T3 Code

T3 Code is a local Node server that drives coding agents (Codex app-server,
Claude, Droid) for a React client in a browser or in an Electron shell.  This
directory models the parts of it that are hard to test: an event-sourced
orchestration core, and the workers, reactors and adapters around it that call out
to processes, git and SQLite while commands, provider events, crashes and retries
keep arriving.  Paths below are relative to `src/`; `S` is `apps/server/src`.

- [1. Inventory](#1-inventory)
- [2. Modules and plan](#2-modules-and-plan)
- [3. What is modelled](#3-what-is-modelled)
- [4. Runs](#4-runs)
- [5. Proofs](#5-proofs)
- [6. Where code and documentation disagree](#6-where-code-and-documentation-disagree)
- [7. What the models show of the code's behaviour](#7-what-the-models-show-of-the-codes-behaviour)
- [8. Not modelled](#8-not-modelled)

## 1. Inventory

| Component (source) | State | Operations | What makes it correct |
|---|---|---|---|
| **Orchestration engine** `S/orchestration/Layers/OrchestrationEngine.ts`, `decider.ts`, `commandInvariants.ts`, `projector.ts`, `S/persistence/Layers/OrchestrationEventStore.ts`, `OrchestrationCommandReceipts.ts` | event log, command receipts (SQLite); read model, command queue, PubSub (process) | dispatch, decide, append, project, publish, reconcile, boot | one effect per command id, the read model is a replay of the log, the stream is the log in order, answers stay true |
| **Keyed coalescing worker** `packages/shared/src/KeyedCoalescingWorker.ts` | latest value per key, queued and active key sets, queue, one fiber | enqueue, process, clean up after a failure, drainKey | no update lost, none stranded, drainKey returns exactly when its key is settled |
| **Turn checkpoints** `S/orchestration/Layers/CheckpointReactor.ts`, `S/checkpointing/` | worker queue (process), git refs (disk) | baseline, capture on turn end, capture of a placeholder, revert | a checkpoint that counts as captured has its ref and keeps it; every revert is answered |
| **Projection pipeline** `S/orchestration/Layers/ProjectionPipeline.ts`, `S/persistence/Layers/Projection*.ts` | nine projector cursors and their tables (SQLite), attachment files | projectEvent inside the engine's transaction, bootstrap catch-up, attachment side effects | tables say what the log says; a cursor never passes an event it has not applied |
| **Provider runtime ingestion** `S/orchestration/Layers/ProviderRuntimeIngestion.ts` | worker queue, buffered assistant text, turn caches | translate provider events into commands | no text lost or doubled, stale turns do not touch the active one |
| **Provider command reactor** `S/orchestration/Layers/ProviderCommandReactor.ts` | worker queue, turn-start cache | start and restart sessions, send turns, interrupt, approvals, stop | each turn is sent or its failure told, to the conversation the thread is in |
| **Codex app-server manager** `S/codexAppServerManager.ts`, `S/provider/Layers/CodexAdapter.ts` | child processes, pending JSON-RPC requests, pending approvals | start, resume, turns, approvals, exit, stop | every request settles; an approval is answered once |
| **Provider service, session directory** `S/provider/Layers/ProviderService.ts`, `ProviderSessionDirectory.ts` | bindings (SQLite) | routing, recovery, stop, takeover | a session shown as usable can be routed to |
| **Claude adapter** `S/provider/Layers/ClaudeAdapter.ts` | turn and text blocks, tools in flight, pending permissions and questions, prompt queue, stream fiber | sendTurn, SDK messages, permissions, interrupt, stop | the thread follows the turn; text, tools and decisions are told once |
| **Terminal manager** `S/terminal/Layers/Manager.ts` | sessions, processes, kill escalation fibers, history files | open, restart, clear, close, resize, output, exit, eviction, shutdown | no process outlives its session, history is persisted and survives eviction |
| **Client transport and recovery** `apps/web/src/wsTransport.ts`, `orchestrationRecovery.ts`, `routes/__root.tsx`, `store.ts` | pending requests, outbox, recovery phase, the client's copy of the read model | request, reconnect, snapshot and replay recovery | every request settles, the client's copy only moves forward |
| **WebSocket server, push bus, readiness** `S/wsServer.ts`, `S/wsServer/` | client set, push sequence, readiness gates | RPC, push, welcome | pushes in order, welcome before domain events |
| **Drainable worker** `packages/shared/src/DrainableWorker.ts` | queue, outstanding count | enqueue, process, drain | drain returns only when nothing is outstanding |
| **Checkpoint diffs, snapshot query** `S/checkpointing/Layers/CheckpointDiffQuery.ts`, `S/orchestration/Layers/ProjectionSnapshotQuery.ts` | none | read-only queries | a query is answered from refs and rows that exist |
| **Git core and manager** `S/git/` | a status cache | git and gh commands per request | sequential I/O |
| **Settings, keybindings, workspace entries, telemetry, bootstrap** | files | parsing, watching, start-up | sequential I/O |
| **Desktop shell** `apps/desktop/src` | backend child process, update state | start, restart, check, download, install | one backend, update states that do not overlap |
| **Web UI, contracts, marketing site, scripts** | view state | rendering, schemas, releases | none to model |

**How they interact.**  A client's command goes over the WebSocket to
`wsServer.ts`, which calls `engine.dispatch` and waits.  The engine appends
events and projects them, in memory and into SQLite, and hands them to a PubSub
with a subscription per consumer: `wsServer` pushes them to clients,
`ProviderCommandReactor` starts sessions and sends turns, `CheckpointReactor`
captures git refs.  The provider service has a PubSub of its own for what
agents report; `ProviderRuntimeIngestion` and `CheckpointReactor` subscribe to
it, each through a `DrainableWorker`, and answer with commands of their own to
the same engine.  The terminal manager stands apart: it feeds clients directly
and persists history through a `KeyedCoalescingWorker`.

**What is hard.**
Everything crosses asynchronous boundaries: a transaction, a queue, a PubSub, a
child process.  State is read on one side and used on the other (the turn count of
a placeholder, the active turn of a late `turn.completed`, the session a slow start
overwrites).  Steps of one operation fail one by one (append, project, receipt;
restore, roll back, delete, dispatch).  The process can stop between any two, and
clients retry what they did not hear about.  `PROJECT.json` lists these hazards one
by one, at their lines, with the properties that speak about them.

## 2. Modules and plan

| Module | Models | Built on |
|---|---|---|
| `Orchestration`, `OrchestrationEngine` | commands, decider and projector as functions; the engine's worker, transactions and crashes | |
| `CommandLedger` | abstract: a log, a verdict per command id, waiting calls | `Orchestration` |
| `KeyedCoalescingWorker` | the worker's fiber and its callers | |
| `CoalescedWrites` | abstract: values merged while they wait, stored one after the other | |
| `TerminalManager` | sessions, processes, history files | `CoalescedWrites` |
| `TurnCheckpoints` | two workers, the provider, git refs, both projections of a checkpoint | dispatch as one step, as `CommandLedger` licenses |
| `ProjectionPipeline` | projectors, cursors, catch-up, images from their upload on, the read model beside the tables and the two workers that read it | a transaction of the engine |
| `ProviderSessions` | command reactor, provider service and directory, Codex processes, the session part of ingestion | dispatch as one step |
| `AssistantText` | the buffering part of ingestion | dispatch as one step that may fail |
| `ClaudeSessions` | a session of the Claude adapter, and the thread's active turn as ingestion sets it | the events in order, as the PubSub gives them |
| `ClientRecovery` | transport, push bus, recovery coordinator | the log of the engine, which only grows |
| `LogFollower` | abstract: a copy of a log that only moves forward | |
| `OrchestrationEngineProofs`, `TurnCheckpointsProofs`, `ClientRecoveryProofs`, `ProjectionPipelineProofs`, `ClaudeSessionsProofs`, `AssistantTextProofs`, `ProviderSessionsProofs` | proofs | the modules they are named after |
| `TerminalProofs` | proofs | `KeyedCoalescingWorker`, `TerminalManager` |

An `MC` module per component gives its constants values; the `.cfg` files are named
after the runs.  The worker is shown to implement `CoalescedWrites`, which the
terminal manager then uses in its place; the engine is shown to implement
`CommandLedger`, and the client `LogFollower`.

Next in the plan: the Droid adapter; the desktop shell's backend restarts and update
states; opening pull requests in `GitManager`, whose steps can fail one by one.

## 3. What is modelled

### Orchestration, OrchestrationEngine, CommandLedger

`Orchestration` holds the pure part.  `CommandOf` gives each command id its
command; `Permitted(c, model)` is the decider's verdict
(`decider.ts` with `commandInvariants.ts`), `Decision(c)` the types of the
events it makes (two for `thread.turn.start`, one otherwise),
`ProjectEvent(model, event)` the in-memory projector and `Replay(model, events)`
its fold.  The read model keeps what the decider can ask about: whether a
project or a thread exists, is deleted, is archived, in which project a thread
is, whether it has a plan, which messages it has.  Deleted entries stay, as in
the code, and still answer `requireProject`.

`OrchestrationEngine` has the durable variables `log` and `receipts` and the
process's `readModel`, `commandQueue`, `published`, and the worker's place `pc`
with its locals.  Actions follow `processEnvelope`:

| Action | Code in `OrchestrationEngine.ts` |
|---|---|
| `BootProject`, `BootDone` | the fold of `readAll()` before the worker is forked |
| `Dispatch(k, c)` | `dispatch`: a Deferred and an offer; any id, any time, also again |
| `TakeEnvelope` | the worker takes an envelope, notes `dispatchStartSequence` |
| `AnswerFromAcceptedReceipt`, `AnswerFromRejectedReceipt` | the receipt lookup |
| `DecideCommand`, `RefuseCommand` | the decider against the in-memory read model |
| `AppendEvent` | one turn of the loop inside the transaction: row, read model, projectors |
| `CommitTransaction` | the accepted receipt and the commit |
| `StorageFails` | a typed failure of the lookup, an append, a projector or the receipt |
| `AdoptReadModel`, `PublishEvent`, `AnswerCommitted` | what follows a commit, in the code's order |
| `Reconcile`, `RecordRejection`, `AnswerFailed` | the error path: fold and publish what was persisted after all, store a rejection (a failing write is swallowed), answer |
| `Crash` | the process ends anywhere and boots again; callers lose their answer |

`CommandLedger` is what callers may rely on: a log, a verdict per id, waiting
calls, and no worker.  `Accept` and `Reject` decide a command against the
replay of the *durable log* in one step; `Tell` answers only what the receipts
(or the log, for a rejection that was not stored) say.  `ImplementsLedger`
states that the engine implements it: in-memory read model, queue, transaction,
reconciliation and crashes are invisible.

### KeyedCoalescingWorker

One step per transaction of the code: `Enqueue`, `Take` (`TxQueue.take`),
`Claim`, `ProcessSucceeds` (which takes up a newer value or leaves the key),
`ProcessFails`, `CleanupFailedKey` (a transaction) and `OfferAgain` (the offer
outside of it), and callers' `DrainCall` / `DrainReturn`.  Updates to a key are
numbered and a value is the sequence of updates merged into it, so `Merge` is
concatenation: any merge function a caller passes is a function of that sequence.
`process` may succeed or fail every time.

`CoalescedWrites` is the worker as its callers see it: `Put`, `Begin` and `End` for
a key, and `KeyIsIdle`, what a drain waits for.  The mapping takes the value in the
map as the one that waits, the value inside `process` as the one in hand, and the
updates that went through `process` as what is stored; the queue, `queuedKeys`,
`activeKeys` and the re-queueing after a failure do not show.

### TurnCheckpoints

One thread.  The provider starts turns one at a time, edits the workspace
(a content number), reports a diff per edit, and ends turns.  Events go to two feeds that the
workers consume at their own pace: `ingestFeed` for
`ProviderRuntimeIngestion`, `runtimeFeed` for `CheckpointReactor`, which also has
a `domainFeed` of the engine's events.  Both workers read the read model when
they take an event (`IngestDiffUpdated`; `EnsureBaseline`,
`CaptureFromTurnCompletion`, `CaptureFromPlaceholder`, `StartRevert`) and act
later (`DispatchPlaceholder`; `CaptureBaseline`, `CaptureCheckpoint`,
`CompleteCapture`; `RestoreFiles`, `RollbackConversation`, `DeleteStaleRefs`,
`CompleteRevert`), or fail on the way (`PlaceholderFails`, `CaptureFails`,
`RevertFails`; refs are deleted one by one, so a failure leaves any part of them).
`Crash` keeps the log's projections and the refs.

A `thread.turn.diff.complete` command is one step that folds the event twice, as
the code does: `ProjectCheckpoint` is `projector.ts` (a placeholder never
replaces a real checkpoint), `RecordCheckpoint` is the `projection_turns` writer
of `ProjectionPipeline.ts` (it always replaces, and clears another turn with the
same count).  `refs` maps a turn count to the content of its git ref.
`asked`, `answered`, `torn`, `crashes` and `edits` are history
variables: they let properties speak about the past and are read by no action's
guard but for the bounds.

Status `error` behaves as `ready` in every comparison of the code and is
represented by it.

### ClientRecovery

One client of one server.  The server's log is its length (`committed`, which
`Commit` raises, as the engine's log grows only at its end and without gaps), and the client's copy is the sequence of events applied to it (`store`).
Events reach the client along the code's stations: `OfferEvent` (the stream's
subscriber in `wsServer.ts`), `bus` and `SendPush` (`pushBus.ts`, one fiber),
`InBroadcastSet`, `toClient` (the socket).  A connection goes through
`OfferWelcome` (once the server is ready), `SendPush` and `JoinBroadcast`.  A
request is answered by a fiber of its own, so `ServeRequest` (the read) and
`SendResponse` interleave with pushes.

On the client, `recovery` is the coordinator's state and the operators on it are
its functions (`Classify`, `Begun`, `SnapshotEnded`, ...).  `ReceiveWelcome`,
`ReceiveEvent`, `ReceiveSnapshot` and `ReceiveReplay` are the handlers in
`routes/__root.tsx` up to their next await; `FailRequest` is their catch branches,
taken when the connection closes (`Disconnect`, `RestartServer`) or a request times
out or is refused (`RequestFails`).  `Mount` runs the effect again, with a fresh
coordinator, the old store and, if there was one, the cached welcome.

The sequence of a snapshot is the length of the log: the projectors' cursors,
whose minimum it is, move in the transaction that appends.  An answer that nobody
waits for any more is dropped at once, as it changes nothing.

`LogFollower` is what all this is for: a copy that is a prefix of the log and grows
to a longer one now and then.  It is implemented with the identity on the log and
on `store`.

### TerminalManager

Terminals belong to threads; `open`, `restart`, `clear` and `close` hold their
thread's semaphore (`operation`), everything else does not.  A step runs to the next
point where its fiber waits.  An operation goes through `flush` (drainKey), `read`
(the history file), `spawn`, `next` and `delete` (closing a thread), each with a
success and, for the spawn, a failure.  `Output(s)` and `ExitEvent(s)` are the
listeners of a process with the drain of its event queue; `ProcessDies`,
`KillAfterGrace` and `Shutdown` / `ScopesClose` are the operating system, the
SIGTERM-SIGKILL escalation and the manager's finalizers.  `BecomeAndEvict` is
`evictInactiveSessionsIfNeeded` at the end of whatever makes a session inactive:
the oldest session that is not running leaves the map, also when it is only
starting.  A session object lives on while somebody refers to it, so the model has
objects (`SessionIds`) and a map (`sessions`) to them.  `updatedAt` keeps of the time
stamps what eviction asks: which session was updated before which.  Publishing an event is no point
of waiting, since the only listener, in `wsServer.ts`, hands it to an unbounded queue.

### ProviderSessions

One thread served by Codex.  `Users` request turns, interrupts, stops, takeovers and
changes of mode; `Reactor` is `ProviderCommandReactor`'s worker inside
`ProviderService` and `CodexAppServerManager`, step by step to its next await
(`job.at`): `initialize`, `thread/resume`, `thread/start` with the fallback when the
conversation is not found, `turn/start`, the read of the read model and the writes
after it.  `Manager(p)` reads a line or an exit of an app-server and settles the
reactor's request; `RequestTimesOut` is its timer.  It also hears errors that name no
turn (`HearError`): a line that is no message, a fatal line on stderr, also of a process
that was stopped, or an error of the process.  `AppServer(p)` owes nothing: it
answers, refuses, is silent, reports turns and approvals, or dies.  Runtime events
pass `SyncBinding` (the directory's row) to `Ingest`, which reads the thread's
session, and `SetSession`, which writes what `Ingest` made of it.  `RestartServer` keeps
the read model and the directory and loses everything else.

`excuses` is a history variable.  It names the five ways in which the code leaves the
thread with a session that is not as it says, which section 7 describes; each
property names the ones it exempts.  `untold` remembers the turns that ran when an error
without a turn was heard.

### ProjectionPipeline

One thread.  A command's events are appended one by one (`AppendNext`) inside a
transaction, each followed by every live projector; `Commit`, `Rollback` and
`Crash` end it.  `Bootstrap`, `CatchUp`, `CaughtUp` and `GoLive` are the start: each
projector in turn reads at most `ReadLimit` events after its cursor, one transaction
per event.  `Projected(tables, event)` is what an event makes of the tables of
messages, activities, turns, approvals and the thread, `ProjectEvent` what it makes of the
read model; `RunProjectorForEvent` moves a table and its cursor together.  Images
are removed from `files` outside of the transaction.  `Rebuild(p)` is a projection
that a migration adds anew: an empty table and cursor 0.

What happens before a command is part of the model where its result can be stale by the
time the command is taken.  `UploadImage` is `wsServer.ts` writing the image of a message,
`StartTurn` the dispatch that follows.  The two workers that report checkpoints read the
read model first and dispatch later: `CaptureCompletion`, `CapturePlaceholder` and
`RestoreCheckpoint` (`CheckpointReactor`) and `PlaceCheckpoint` (ingestion) leave a command
in `decided`, whose count is one above the highest they saw, and `Dispatch(w)` sends it
after any number of other commands.  So two turns can come to share a count, and a revert
can go back to a count that is gone.  Turns also start, answer, ask, are interrupted, fail
and complete, possibly out of order, and the thread can be deleted.  A placeholder's event
may be captured more than once here, also after a revert took the first capture away.

### AssistantText

The deltas of a message are numbered, and a text is the sequence of the numbers in
it, so that loss, doubling and reordering show.  The provider emits deltas, item
completions with or without the whole text as their detail, plan deltas and
completions, the end of a turn and the exit of the session.  The worker takes an
event (`TakeDelta`, ...), which leaves `work`: the dispatches and cache operations
the handler still does, in its order, so `DispatchFails` can cut it anywhere, as
`processInputSafely` does.  `ExpireText`, `ExpireIds` and `ExpirePlan` are the three
caches' age and capacity, `SwitchStreaming` the setting, which is read for each delta.
`excused` remembers the messages and turns that a failure, an expiry, an exit or a switch
in the middle of a message took something from.

### ClaudeSessions

`turn` is `context.turnState`: an id and the text blocks in their order, each with
`fallback`, `emitted`, `closed` and `done` as in `AssistantTextBlockState`.  `SendTurn` /
`ModeSet` / `ModeFails` / `OfferPrompt` are `sendTurn` cut at its awaits.  The stream
fiber handles the SDK's messages one at a time (`HandleBlockStart`, `HandleDelta`,
`HandleBlockStop`, `HandleAssistant`, `HandleToolStart`, `HandleToolResult`,
`HandleResult`), `HandleStreamExit` follows the end of the stream.  `OpenRequest`,
`RespondToRequest`, `OnAbort` and `Resolve` are `canUseTool` and
`handleAskUserQuestion`, whose Deferred is settled once.  `StopSession` and
`CloseQuery` are `stopSessionInternal` before and after it interrupts the stream
fiber.  `active` is the thread's active turn as ingestion sets it (`AfterStarted`,
`AfterCompleted`, `AfterError`), event by event, since events are offered in order and
taken in order.  Claude behind the SDK takes prompts, answers with or without one (a
background agent), streams its text or does not, uses tools, finishes, fails, or ends
its stream.

## 4. Runs

| Run | Instance | States | Time | Question |
|---|---|---|---|---|
| `engine` | three calls of four commands, fair worker | 79 k | 11 s | exactly-once effects, replay, stream order and truthful answers under failures, crashes and repeated ids at any point; implements `CommandLedger`; every call returns |
| `worker` | two keys, three updates each, two drains, fair worker | 80 k | 10 s | implements `CoalescedWrites`; drains are sound and return |
| `terminal` | two terminals of one thread, two sessions and two processes, one output each, one inactive session retained | 333 k | 150 s | live processes are owned; history survives eviction and reaches the file; operations return; stopped processes die |
| `checkpoint_safety` | two turns, one edit, one revert, one crash, any call may fail | 3.3 M | 45 s | captured checkpoints have refs in both projections; captures are not taken back |
| `checkpoint_progress` | one turn, two edits, two reverts, revert calls may fail, fair workers | 372 k | 60 s | placeholders give way; every revert is answered |
| `projection` | two turns, nine events, one of them spare, two crashes or failing statements, one rebuilt table | 922 k | 105 s | tables are what their cursors say; images are there; tables and read model agree while counts come in order |
| `provider` | two turns, two requests, two app-servers, one restart or error line | 8.3 M | 125 s | a usable session can be routed to; the thread shows its app-server's turn, or none after an error line; the conversation is kept |
| `provider_progress` | one turn with an approval, three requests, one app-server, fair reactor and timers | 1.0 M | 45 s | an approval is answered once; every requested turn is sent or its failure told |
| `assistant` | two messages and a plan of one turn, any setting, one switch | 2.9 M | 35 s | every piece of text arrives once and in order; the end of a turn leaves nothing behind |
| `claude` | two prompts, two texts, one tool that asks for permission or input | 570 k | 20 s | the thread follows the turn; texts, tools and decisions are told once; no request is left waiting |
| `client_recovery` | three events, two connections, two runs of the effect, one event per replay answer, requests may fail | 30 k | 5 s | implements `LogFollower`; recoveries end and catch up |
| `checkpoint_table` | two turns, two edits, nothing fails | violation | 1 s | section 6 |

**Bounds.**  *Engine*: the four commands contain a
two-event command, a precondition that an earlier command creates and one that
a later command destroys (a turn before or after the archive, an archive before
the thread exists); three calls allow an id to be repeated before, while and
after its first attempt is processed.  Crashes and storage failures are unbounded.
*Worker*: three updates fill all three places a value can be at once (settled,
in `process`, in the map), two keys give the queue an order, two drains of one
key overlap; `MaxUpdates` is the only bound, failures are unbounded.
*Terminals*: with two sessions and one retained, an open can meet an evicted session,
a starting one, a process that is being killed and one that left.  A safety-only
instance with three outputs (4.4 M states) showed nothing new.
`CallsAfterStray` ends the calls of users once a session is astray, as everything after
that is exempt.
*Checkpoints*: the races are between the two workers over one turn, or over the
end of one turn and the start of the next, so two turns show them all; a third
would repeat the second.  `MaxEdits` bounds diffs, `MaxReverts` reverts,
`MaxCrashes` crashes; feeds are bounded by these.  A revert may name any turn
count up to the largest possible one, also one that does not exist.
*Projection*: two turns can cross in every way.  Nine events (`MaxEvents`) are both turns
with their checkpoints and a revert; or, if there is a spare event (`MaxSpare`: an answer,
an approval, an interrupt, a failed checkpoint, an event of a type and turn that came
before, such as the capture of a placeholder, or the deletion), seven (`MaxMixed`).  Two commands can be decided on at once, one by each worker, which is what it
takes for two turns to share a count.  Eight events are the most a catch-up reads
(`ReadLimit`, 1000 in the code): enough to replay a revert to a checkpoint, and a rebuilt
table can still be further behind.  Two failures are needed for one to meet the recovery
from another.
*Provider*: two app-servers are the one that ends and the one that follows it; `MaxFaults`
allows a restart of the server or an error line, and `provider_progress` does without;
`MaxLag` bounds the lines and events under way at each station, so a slow consumer
holds its producer up instead of queueing more, and the reactor may still be anywhere.
*Assistant text*: three deltas of a message overflow a buffer of one twice; the second
message and the plan share the turn's end.  `MaxFeed` delays the provider only.
*Claude*: a second prompt meets the turn, the result or the failure of the first; two
texts can share a turn or be cut by one.  Two tools, without the liveness property and
with fixed kinds of requests, held as well (5.0 M states).
*Client*: an event can be in the snapshot, in a replay or only in a push, hence
three; a second connection overlaps the recovery of the first, a second mount
the request of the first.  `ReplayLimit` is 1000 in the code; one event per answer
makes a recovery take several.  Failures of requests are unbounded.

**Symmetry** (`TurnSymmetry`) is used in runs that check no liveness property only;
turns are compared for equality and nothing else.

**Deadlock** is checked for the engine (it can always crash).  The other runs say
`CHECK_DEADLOCK FALSE`: callers, users, shells and providers may stop for good.

**Fairness.**  The engine's worker, the coalescing worker and the two
checkpoint workers are forked `Effect.forever` loops over a queue; each effect in
them succeeds or fails, and both outcomes go on, so each gets weak fairness as a
whole (`WF_vars(Worker)`), never per action: which of success and failure comes
is not promised.  A boot that began continues.  A waiting `drainKey` is a
transaction that is retried when what it read changes, hence
`WF_vars(DrainReturn(d))`.  Callers, users, the provider, git failures and crashes
are owed nothing.  `PlaceholderIsReplaced` is checked in an instance where
captures succeed; with failing captures it is false, as the code does not retry.
`EveryRevertIsAnswered` takes for granted that the activity which reports a
failure can itself be dispatched; the code ignores it when it cannot.
In `TerminalManager` an operation that can proceed does, the writer's fiber ends what it
has in hand and passes no key over for ever (`CoalescedWrites!Progress`, which the worker is
shown to give), and a grace period ends; processes need not heed SIGTERM.
In `ProviderSessions` only the reactor's fiber and the timers of requests are fair: an
app-server owes no answer.  In `ClaudeSessions` a stop that began goes on, a settled
callback goes on, and the SDK fires the signal of a callback whose query was closed.
In `ClientRecovery` the stream's subscriber, the push fiber, each connection's and
request's fiber run, an open connection delivers what was sent on it, and a closed
one is opened again by the reconnect timer; nothing has to be committed, to fail or to
be mounted.  `RecoveryCatchesUp` excepts recoveries that end in a failed snapshot
(`gaveUp`): the code asks for nothing more until the next push.
`ProjectionPipeline` and `AssistantText` state no fairness and are checked for safety.

Every property has a mutant of the code (the definitions marked *Mutant* stand
next to the ones they vary) under which its run fails.

## 5. Proofs

Proved by TLAPS for every value of the constants (any number of commands,
projects, threads, calls, keys, drains), from the assumptions named in the
modules: `NoThread`, `NoCommand`, `NoCall` and `None` are not ids (nor, in
`ProviderSessions`, an answer or a session, nor in `TerminalManager` a process or a
terminal), `CommandOf` is a command for every id, each
message has a turn, bounds and limits are natural numbers.

**`OrchestrationEngineProofs`**: `EngineInvariant` is inductive, and implies each
safety property of `engine`.  None of these is inductive alone.
`ReadModelIsReplayOfLog` at the end of a dispatch needs `TransactionFolds` (inside
the transaction, `nextReadModel` is the replay of the log with the events
appended so far), `CommitPending` (between commit and adoption the same holds of
the log itself, and what is not published yet is the end of the log) and
`BootReplays`.  `ReceiptsMatchLog` needs that the sequence numbers are gap-free
(`LogNumbered`) and that a command in the transaction has no receipt yet.
`HistoryNeverRewritten` needs `RefusalHasNoReceipt`: the error path may only write a
rejection where the lookup found nothing, which still holds after the
reconciliation.  `StreamFollowsLog` needs that reconciliation finds nothing to
publish: `dispatchStartSequence` is the length of the log on the whole error path
(`EnvelopeDispatched`), as only this worker appends.

It begins with `Replay`: of an extended log it is one projection more
(`ReplayAppend`), starts from the given model (`ReplayEmpty`) and keeps its type
(`ReplayType`).  `Replay` is a recursive function; that it exists and is unique is
shown first, by an induction over sets of naturals with a least element.

At its end stands the refinement: each step of the engine is a step of
`CommandLedger` or leaves its variables alone (`EngineImplementsLedger`).  Beyond
`EngineInvariant` this takes that every queued call and the one in hand are waiting,
each once (`CallsPending`), and that the decider's verdict, taken from the
in-memory read model, still holds against the durable log when it takes effect
(`VerdictStands`): only the worker appends.

**`TerminalProofs`**, on the worker: `WorkerInvariant` is inductive;
`DrainedMeansSettled` follows at the return because an idle key has nothing in
the map (the test of `drainKey`) nor in the fiber (`ActiveKeyIsInHand`), so all
its updates are settled (`UpdatesAreConserved`: nothing enqueued is lost, doubled or
reordered, theorem `NoUpdateIsLost`).  `NoValueIsStranded` follows from
`ValuesHaveMarks` and the meaning of the two sets.

`WorkerImplementsWrites` is the refinement, its safety part: under the invariant
each step of the worker is a put, a begin or an end of `CoalescedWrites` or leaves its
variables alone.  What `Begin` and `End` need of the invariant is that a claimed key has
a value and that nothing is in process when the fiber claims.

On the terminal manager, which uses that worker through `CoalescedWrites`:
`ManagerInvariant` is inductive.  Its parts speak of a map, objects and operations and
not of the variables, because every step first makes new ones and then forgets the
objects nothing refers to (`Become`), or evicts as well (`BecomeAndEvict`); the lemmas
`Becomes` and those on eviction carry the parts over once for all steps.

- `OperationFits` says what an operation relies on while it holds its thread's semaphore
  and waits: its terminal is of its thread, the session it holds is the mapped one
  unless evicted, there is no process up to the spawn, and an open or a close that found
  no session still finds none.  `MapFits` says that a session with a process runs and is
  mapped, and shares it with nobody.  `StillFits` and `OthersFit` show that steps of
  other threads, listeners and evictions leave this so; here `astray` comes in, for an
  eviction takes a session that is starting.
- `Owned`: a live process belongs to a session object or was told to stop.  With `MapFits`
  this is `LiveProcessIsOwned`; alone it is not inductive, as nothing would keep a second
  spawn from replacing the process of a session.
- `Told`: the last of what waits, what is in hand and what is stored is what the terminal
  printed.  `Quiet`: an operation that drained a terminal and goes on without a session
  finds nothing with the writer, as nobody else can print there.  So the file that `open`
  reads is complete, which is `HistorySurvivesEviction`; `Told` and `Erased` give
  `FileCatchesUp`.

Before the proof TLC checked `ManagerInvariant` as an invariant: with three sessions and
calls after a stray one in all 11 million states, with two threads in the first 13 million,
and in 19 million of a simulation with three terminals, four sessions and six outputs.

**`ClientRecoveryProofs`**: the client waits for exactly the request its coordinator
has in flight (`OneRequest`), at most one response is on its way and it answers that
request (`OneResponse`), the coordinator knows how long the copy is
(`CopyIsPrefix`), and a replay starts where the copy ends (`AnswerExtendsCopy`).
Hence `ClientFollowsLog`: the copy is always a prefix of the log and only ever
extended, for any number of events, connections and mounts.

**`ProjectionPipelineProofs`**: `TablesAreReplays` says that each table is what the
log makes of it up to its cursor, live and in a catch-up, whatever the counts in the log.  The heart is
`ProjectedTables`: a projector reads its own table, and messages and activities read
the turns only for a revert, before the turns projector, which comes later in the
order, has dropped them.  The invariant states the tables (`Stored`) as they are and,
inside a transaction, as a rollback would restore them, and how far a boot has come.

That settles every table but one of messages or activities that is started over and meets
a revert: it reads the turns as they are at the end of the log, not as they were when the
revert was made, and may keep other messages on the way.  `ReplaysMatch` says that it is
nevertheless the table of the history again when it reaches the end, if counts came in
order (`CountsInOrder`): each checkpoint took its turn's own count or one above all others,
and each revert went back to a count that was there.  The code does not see to that
(section 7), so it stands as a condition in the theorem as in the property.  Under it two
facts make the replay right.

- `Recorded`, of the log alone: before each event the turns are `Sound` (a count is
  one turn's, a turn names a question that is there, and what has no checkpoint names none
  from before the last revert) and the event is one that can follow (`Possible`).  The
  invariant holds that counts in order make a log recorded (`Chronicle`).  Hence
  what a revert to `c` keeps is settled when it is made (`Foretold`): with `d` the lowest
  count a later or the same revert goes back to, the turns up to `d` have in the last rows
  the counts they had then, and their questions, or one asked later where they had none;
  every other turn that the last rows put at or below `c` names a question asked later,
  which the replay has not met yet.
- `ReplayMessages` and `ReplayActivities`, one step of the replay: the table and the one of
  the history hold the same answers and activities of the turns that the revert to `d`
  will keep, and their questions are `Alike`: those named up to `d` are in both, and below
  some number they are the same and enough for the fallback of that revert
  (`KeptOfAlike`).  A revert to more than `d` keeps enough of them (`KeptIsAlike`, and
  `RoomBetween` for the turns between `d` and `c`); the one to `d` itself makes the tables
  equal; without a revert to come they are equal (`MatchAtEnd`).

So the property exempts a replay on its way, one whose rows of turns were started over
too, and one of a log with counts out of order (section 7).

`TablesAgreeWithModel` compares two programs that never see each other: the projector of
`projector.ts`, whose result the engine keeps, and those of `ProjectionPipeline.ts`.
Where counts came out of order they do differ, so the theorem is about logs with
`CountsInOrder`, of threads below the caps of the read model.
`ProjectionTypes` comes with the fact that the read model is the fold of the log, of all
of it between commands and of what came before inside a transaction (`OpenTypes`);
the rows are it by `TablesAreReplays`.  So what is to be shown is about logs
(`LogAgrees`, preserved by each event that can follow, `AgreesAppend`): both sides
have the same checkpoint counts, each count is one turn's, and the same activities and
answers; a revert keeps, on both sides, whoever is of a turn it keeps.  Where a
message has no turn, both count from the oldest up to as many questions or answers as
there are counts left; that this adds nothing (`NoRoomLeft`) is a comparison of
cardinalities: a turn that is kept has its question, while reverts come in order.

`ShownMessagesHaveImages` needs, beyond the types, that each question the log would show
has its image on disk or in `lost` (`FilesKept`), also for the log a rollback goes back
to: a rollback restores rows but not files, and a revert may remove the image of a message
that was not dispatched yet; `lost` records both, and nothing else removes an image but of
questions the event drops (`AppendKeepsFiles`).  By `ReplaysMatch` what is shown
is what the log would show, also after a replay.

**`ClaudeSessionsProofs`**: `RequestsSettled` rests on `Settled`: of a pending request
nothing is decided, and what the thread was told is the decision.
`ThreadShowsTurn` rests on `Follows`: while `sendTurn` awaits the permission mode, and
after a stop, the adapter is in no turn, unless turns `raced`.

`ThreadIsToldOnce` needs `ToldInvariant`, whose parts lean on each other.  `TurnFits`: a
block that is not completed is the open one and has shown its text or will take a
fallback, and the first block lacks a fallback only while the answer that began it goes
on.  `AnswerFits`: the stream is at one of the points an answer can be at
(`AnswerRests`), all texts before it were told, and if its text was shown already then
its assistant message will find, first in the turn, the block that showed it; a text
whose turn was completed under it is `excused`.  `ToolTold`: from its call on a tool is
in flight or completed, never both.  All this is
said while the session is not stopped; afterwards nothing is told.  TLC found no
violation of it in all 2.3 million states with three texts, two prompts and one tool, nor
in the first 27 million with four texts and three prompts.

**`AssistantTextProofs`**: `AssistantTypes` says of the caches that no buffer exceeds its
limit and that the messages remembered of a turn are its own, for any finite set of
messages (`MessagesAssumption`).  The invariant `IInv` of the three properties of
`assistant` takes four things together, none of which is inductive alone:
the provider's events are in order (`FeedOrdered`: ends come last, numbers grow);
the worker's steps are (`WorkOrdered`: a delivery is the next thing to do, a message is
finished once it is quiet and with a fallback only if nothing of it was told, it is
forgotten when complete, ids and plans are cleared when the turn is done); the places
of a text share no delta (`SaidOnce`) and continue each other up to what is still in the
feed (`Whole`, `PlanWhole`; a message that came as the detail of its item only is
`DetailOnly`); and whoever began is complete or will be (`Settling`, `TurnSettling`: it
comes, is in hand, or is remembered by a turn that is not done).  `SaidOnce` holds for
excused messages too, hence `NothingSaidTwice` has no exception.

**`TurnCheckpointsProofs`**: `CheckpointTypes` bounds the turn counts.  Its invariant is a
budget: each diff and each end of a turn that was handled may have made one new count,
so no count exceeds their number plus those still in the feeds, and these are bounded by
`MaxEdits` and the number of turns; and a revert that was asked for waits, is being
handled, was answered or was lost in a crash, so there are no more answers than requests.
`CapturedRefs` needs of the jobs in hand that a capture has written its ref before it is
told, and that a revert deletes refs beyond its target only (or has `torn` them).
`CapturesStay` follows from the projector's test at each step.

**`ProviderSessionsProofs`**: `ProviderTypes` takes, beside the types, that a request which
waits is the reactor's, that one response at most is on its way, after which nothing is
asked any more, and that what the map holds is a process that lives and the one the
reactor deals with (`Serving`).  On it rest four invariants.

- `Questions`: the approval of a turn is in one place at a time: not asked for, an intent,
  the reactor's job, a request, the app-server's to ask, a line, or pending
  (`OneQuestion`, over `Holds`); when it is answered it is in none.  So the second of two
  answers finds nothing (`ApprovalsAnsweredOnce`), and what an app-server waits for is
  never dropped (`QuestionKept`).
- `Requested`, then `Cursors` and `Kept`: what is waited for is what was asked last, so the
  answer to `thread/resume` says that the app-server has the cursor's conversation.
  Hence, while no start is under way, the conversation of the session is that of the row,
  and of the last turn (`TurnsKeepTheConversation`).  `Kept` follows the
  conversation through a takeover, which has it when the row is gone.
- `Routable`: a session shown as usable without a row has an app-server, or its end is on
  the way (`UsableIsServed`).  Events that make a session usable can outlive it, so
  `EventsCovered` says that such an event of a session that is gone is followed by the one
  that ends it, in each of the two queues and in the write that is pending
  (`WritingCovered`).  Both need that without an excuse only the session's own
  app-server lives (`OneLives`).  When all is quiet nothing is on the way, so there is an
  app-server, and by `Cursors` a row.
- `TellsTurn`: an event passes from the app-server's output through two queues to a write
  that is pending, while the reactor writes sessions of its own.  `WillShow` gives, for
  each event on the way, the turn the thread will show before and after it (`Leads`), such
  that none conflicts and is turned away; the last is the turn the app-server runs
  (`Agrees`).  If the reactor shows no turn in between, all events still apply, and the
  last turn is the same or none (`LeadsFromNone`); so it matters that it does so only with
  no app-server, with one that runs no turn yet (`StartsAfresh`), or in a takeover, which
  stops the app-server next (`TakingOver`, `TakeoverAlone`).  An error line leads from any
  turn to none (`HearErrorTells`), so `Agrees` allows none for a turn that is `untold`;
  as the app-server starts no turn before it ended the last, the next one is shown again.

The type invariants of the engine, the worker, the client, the Claude adapter and the
assistant text are proved (`TypeCorrect`, part of `WorkerInvariantHolds`,
`ClientTypes`, `ClaudeTypes`, `AssistantTypes`) and therefore not checked by a run;
those of the checkpoints, the projections, the provider sessions and the terminal manager
are both proved and checked.

Model-checked only: liveness (`EveryCallReturns`, `EveryDrainReturns`,
`EveryOperationReturns`, `StoppedProcessDies`, `PlaceholderIsReplaced`,
`EveryRevertIsAnswered`, `EveryTurnRequestIsSettled`, `EveryRequestIsTold`,
`EveryRecoveryEnds`, `RecoveryCatchesUp`, and the progress part of
`ImplementsCoalescedWrites`), which is out of the prover's reach.  Every invariant and every
action property of the passing runs is proved.

## 6. Where code and documentation disagree

- `checkpoint_table`: the comment at `projector.ts:530` says a placeholder must
  not overwrite a captured checkpoint.  The in-memory projector sees to that
  (`CaptureIsNotTakenBack` holds), the writer of `projection_turns`
  (`ProjectionPipeline.ts:995`) does not.  Ingestion reads the read model,
  the reactor's capture is committed, then the placeholder: the table, from which
  snapshots are served, says `missing`.

## 7. What the models show of the code's behaviour

The properties exempt behaviours that the code has and that nothing in the repository
rules out; the models contain them, and the history variables named here mark them.

*Turn checkpoints.*  A revert that is broken off after it deleted refs leaves
checkpoints without them (`torn`).  A placeholder's event that is handled after a revert
captures the reverted turn anew; a placeholder captured in the middle of a turn counts as
the turn's checkpoint, and `turn.completed` then skips, so later edits are not in the
ref; a `turn.completed` handled after the next turn became active is skipped for good.

*Client recovery.*  An event pushed during the bootstrap snapshot is deferred although
the snapshot holds it, so a replay follows that reads nothing; an event pushed before its
empty answer arrives is deferred as well, and `completeReplayRecovery`, which saw no
progress, forgets it until another event shows the gap.

*Terminals.*  A session that is starting counts as inactive and can be evicted: its
process then belongs to nobody (`astray`).  Closing a thread with its files does not wait
for the pending write of a session that was evicted, which recreates the file.  `clear`
waits for the writer with the thread's semaphore held, and a process that never pauses
keeps it waiting; `MaxOutputs` bounds that here.  A shutdown interrupts the fibers that
would have sent SIGKILL.

*Provider sessions* (`excuses`).  "read after exit": the reactor binds a session whose
app-server has exited meanwhile.  "started over a session": a change of mode starts an
app-server over a live one, which stays alive without an entry; its exit later deletes the
entry of its successor (`codexAppServerManager.ts:990`), and its late events still make the
thread's session usable, after a stop removed the row (three requests: beyond the run's
bound, met in the proof of `UsableSessionIsRoutable`, which exempts it).  "stopped unseen", "left a turn",
"left a session": a stop or a failing first start leaves the thread with a session or a
turn whose binding is gone, so later turns and stops fail (`ProviderService.ts:310-337`).
Ingestion writes back the run mode it read before its await.
A line that is no message, or a fatal one on stderr, becomes an error that names no turn;
ingestion takes it to end the one that runs and sets the thread to "error" without a turn,
while the app-server goes on with it (`untold`; the answers and the end of that turn still
arrive).  Heard from the stderr of an app-server that was just stopped, it shows the
stopped session as one with an error that still is there: later turns are sent to it and
fail until a stop, a takeover or a change of mode.

*Projection.*  A catch-up of more than 1000 events stops early and the next live event
moves the cursor over the rest (`skipped`).  A rebuilt table prunes the images of
messages it has not reached yet, images removed in a transaction that is rolled back
stay removed, and an image is written before its message is dispatched
(`wsServer.ts:356`), so that a revert which is dispatched in between removes it, as no row
names it yet (`lost`).  Both workers read the counts of the read model before they work in
git and dispatch (`CheckpointReactor.ts:369`, `ProviderRuntimeIngestion.ts:1254`): with a
checkpoint of the other worker in between, two turns get the same count, which the table
takes from the first (`ProjectionPipeline.ts:1001`) and the read model leaves to both; and
with a revert in between, a count may leave a gap or one may be gone to which a revert
still goes (`CountsInOrder`).  From then on the two sides may differ, and a table that is
started over may too.  A table of messages or activities that is started over by itself
comes out as it was.  When the turns are started over with it, as in a bootstrap from an
empty database, its reverts are replayed against turns that are not there yet: they keep
the oldest questions instead of those of the turns that stay, and no answers or
activities, and a question may be shown whose image was removed long ago.  After a revert the read model keeps the oldest questions, the
tables those of the turns that stay: they differ when turns completed out of order or a
start failed (`RevertsInOrder`).

*Assistant text* (`excused`).  Text whose buffer expired is lost; the exit of a session
drops what is buffered and leaves its messages streaming; a switch to streaming in the
middle of a message puts later deltas before buffered ones; a dispatch that fails takes
the rest of its event with it, and what was taken out of a buffer is gone.

*Claude* (`raced`, `excused`).  A background answer that arrives while `sendTurn` awaits the
permission mode begins a turn which is then overwritten without being completed;
ingestion ignores the user's turn from then on, although the comment at
`ClaudeAdapter.ts:2853` closes stale turns "to prevent blocking the user's next turn".
A `sendTurn` that goes on after a stop sets a turn on the stopped session, and its prompt is
lost.  Results are not matched to turns: a late one ends the turn that is open.
Unstreamed text after another text of the same turn is hidden, as blocks are matched by
their position in the turn; text that a new turn cuts in two is told twice.  A stop tells the
thread `request.resolved` for a request whose callback tells it again.

## 8. Not modelled

- Of the engine: message texts, titles, model selections and other payload;
  commands that differ only in these are represented by one type.  The page limit
  of `readFromSequence` (1000) cannot be reached by a reconciliation, which
  finds at most what one dispatch left.
- Of checkpoints: the 500-entry cap of `thread.checkpoints`, diff
  summaries, `session.exited` and the restart of a live session, and what a
  restore that fails half-way leaves in the working tree.
- Of the worker: interruption of its scope (shutdown).
- Of terminals: two drains of one process's events side by side, output that never pauses
  (`MaxOutputs`), the polling of subprocess activity, file operations that fail, the
  migration of older history files, sizes and environments.
- Of provider sessions: the `error` notification that names its turn and the failed ends of
  turns (they differ in the status only), a second request for the same message,
  `thread/started` notifications, questions to the user other than approvals, rollback,
  the Droid adapter, `model/list` and
  `account/read`, and interleavings of the directory's own statements.
- Of the projection: threads beyond the caps of the read model (2000 messages, 500
  checkpoints, 500 activities, 200 plans), which the tables do not have, so that the two
  differ there (`BelowTheCaps` keeps instances below); the projects and sessions
  projectors (one row each), plans apart from activities, the activity that reports a
  capture, system messages, time stamps, and the test of the session's active turn before
  a capture; a live event's projectors are one step.
- Of ingestion: activities, thread titles, the marking of implemented plans, and settings
  that cannot be read (`ProviderRuntimeIngestion.ts:1076`), which loses the delta.
- Of the Claude adapter: the start of a session over another, captured plans, token
  usage, subagents and telemetry, messages of several texts, the indices of tools (a tool
  that an interrupt left in flight can be overwritten by one with its index), models,
  efforts and the contents of attachments.
- Of the client: requests other than the two recovery ones (a repeated command is
  a repeated `Dispatch` of the engine's model), other push channels, `dispose`, a
  second client, and what the reducers of `store.ts` make of an event.
- The components of section 1 that no module of section 2 names: git, settings, the
  user interface, contracts and scripts hold no state that several actors change, or are
  I/O and data conversion; the user interface and its tests are about half of the
  repository's lines.
