# Aevoren: TLA+ specifications

Aevoren is a desktop application (Electron, TypeScript, SQLite) in which a user
talks to AI Bots: one Bot in a *Direct* conversation, several in a *Room*, or on
a schedule by *Routines*.  These modules specify the part of it that is hard to
get right: what the main process does when messages, model answers, tool calls,
timers, cancellations, shutdowns and crashes come in any order, and what the window
makes of the answers and events it gets.

Contents: [the system](#the-system) · [modules](#modules) ·
[runs](#runs) · [bounds](#bounds) · [fairness](#fairness) ·
[what the code does not keep](#what-the-code-does-not-keep) ·
[proofs](#proofs) · [plan](#plan) · [not modelled](#not-modelled)

All paths of code are relative to the repository.

## The system

The Electron **main process** owns everything that matters: an SQLite database
and a set of services.  **Renderers** send requests over IPC and receive versioned
events.  The main process runs one JavaScript task at a time.  Inside a task
nothing interleaves, but

* every repository call is a transaction of its own, so the process can die
  between two commits of one task;
* at each `await` other tasks run, and the state read before it may be stale.

Those are the two grains the models use: an action is one commit (with the
in-memory work that goes with it), and other actors act where the code awaits.

| Part | State | Operations | Talks to |
|---|---|---|---|
| **Send worker** `send-worker.ts` | `send_journal`: one row per client nonce, `prepared → queued → dispatching → accepted-awaiting-echo → acked` or one of `failed-before-acceptance`, `refused`, `cancelled`, `interrupted-unknown`; the user's transcript entry | send, safe retry, regenerate, settle a failure | executor (start, callbacks on dispatch, acceptance and end) |
| **Runtime executor** `runtime-executor.ts` | `runtime_runs` (`created → dispatching → running → streaming → completed/failed/cancelled/interrupted`, `cancel-requested` in between), the map `active` of runs in memory with an abort reason each, the answer's transcript entry | start, dispatch, handle each provider event, handle a failure, cancel, shutdown with a drain time-out | providers, tool coordinator |
| **Tool coordinator and executor** `workspace-tool-*.ts` | `tool_invocations`, `approval_requests`, the map `waiters` with an expiry timer each | request and wait, allow once, deny, expire, abort, execute | executor (abort signal), user |
| **Routines** `routine-service.ts` | `routines` (schedule, `next_run_at`), `routine_runs` | edit, enable, delete, run now, tick (reconcile, advance, dispatch) | send worker |
| **Rooms** `room-coordinator.ts` | batches, turns, handoffs, the map of batches in flight, a deadline timer | send, route, process, accept a handoff, cancel, retry, continue, shut down | executor, model |
| **Life cycle** `index.ts` | `allowClose`, the flags of a close that was asked for and its timer, whether the page is ready | start, close handshake with the page, quit, hide, shut down | all services |
| **Updater** `update-service.ts` | status and operation; a receipt in the settings that outlives the process | check, download, install | life cycle |
| **Database** `database.ts` | all tables; the list of migrations; transition tables; four recovery transactions | back up, migrate, one transaction per repository call | |
| **Providers** `model.ts`, `providers/` | one request or subprocess per run | `run`: a stream of started, delta, tool and completed events, or an error | model services |
| **Provider instances** `provider-service.ts` | configurations, a runtime object made from each, cached descriptions, the default model | scan, describe, save, create a provider for a run | executor, prompts |
| **MCP** `mcp-service.ts` | server rows, open connections, pending authorizations | probe, connect, call, authorize, disable, delete | tool executor |
| **Renderer** `src/renderer` | the conversation shown, its buffers during a load; the drafts of a profile and of a Bot's Memory | load, merge by version, edit, save, flush | IPC |

### What is hard, and what makes each part correct

* **Direct conversations.**  A message may or may not have reached the model when
  the connection fails or the process dies, and it must not be sent twice unless
  it is certain that it did not.  The journal, the transcript, the run and the
  executor's map change in separate commits, in reaction to the user, the provider,
  the shutdown and the start of the application.  Correct means: one active run per
  conversation, a retry is only offered when it is safe, the four records never
  contradict each other, an ended run stays ended, and nothing stays busy for ever.
* **Tool approvals.**  User, timer, abort, execution and recovery compete for one
  call.  Correct means: no tool runs without a consent in time, or twice; the two
  tables agree; a settled call stays as it is; the run that waits is told what the
  journal says.
* **Routines.**  A tick is cut by crashes, and works on slots that come due while
  the Bot is busy.  Correct means: each slot that is owed fires once or is recorded
  as missed, and each run that was sent is settled.
* **Rooms.**  Turns add turns by handing off; a batch is cancelled, timed out,
  retried or continued in the middle, while its Provider answers late or never.
  Correct means: the limits hold over all attempts, no task goes in circles, a stopped
  batch starts nothing, batch, turns, handoffs and runs tell the same, the Room does not
  change under a batch, and no batch keeps its Room busy for ever.
* **Life cycle and updater.**  Time-outs race late answers of the page; an
  installation races a quit; a download is reported twice.  Correct means: the process
  ends by itself only after a confirmed flush and a shutdown, or to install; a close
  that was asked for is settled; the receipt tells the next start the truth.
* **Start.**  A backup, migrations and the choice of a default are separate commits, and
  another version may run in between.  Correct means: nothing the user wrote is lost.
* **Providers.**  Six protocols, in two styles: generators that the reader drives, and
  tasks that fill a queue.  Correct means: each keeps the one contract the executor
  relies on, and ends.
* **MCP.**  Requests and calls of one server are not queued and meet at every await.
  Correct means: a connection in the map is open, and no lock stays for ever.
* **Window.**  Reads, events, overlapping loads, timers, buttons and flushes cross.
  Correct means: what is shown is, in the end, what the main process has and never goes
  back; a flush that says it is done has stored everything.

The hazards, each with its line and the properties that cover it, are listed in
`PROJECT.json` under `hazards`.

## Modules

| Module | Models | Kind |
|---|---|---|
| `DirectRuntime` | `send-worker.ts`, `runtime-executor.ts`, their tables and recovery in `database.ts` | state machine |
| `SendPromise` | what a send promises the user | abstract specification |
| `ToolApproval` | `workspace-tool-coordinator.ts`, `workspace-tool-executor.ts`, the tool journal | state machine |
| `RoutineService` | `routine-service.ts`, the routine tables | state machine |
| `RoomRun` | `room-coordinator.ts`, the Room tables, what `runtime-executor.ts` does for a turn | state machine |
| `UpdateService` | `update-service.ts` | state machine |
| `AppLifecycle` | `index.ts`, the restart button of `App.tsx`; extends `UpdateService` | state machine, composed |
| `AppStartup` | opening the database, the choice of a default model | state machine |
| `McpService` | `mcp-service.ts`, `mcp-oauth.ts`, the server table | state machine |
| `ModelStream` | the events of a model run, as `runtime-executor.ts` relies on them | abstract specification |
| `ProviderRun` | `model.ts`, `providers/` | state machine |
| `RendererView` | `runtime-state.ts`, `room-runtime-state.ts`, loading in `App.tsx` | state machine |
| `ProfileEditor` | `ProfileInspector.tsx`, the callers of `updateBot` | state machine |
| `MemoryPanel` | `MemoryPanel.tsx`, the memory table | state machine |
| `ProviderService` | `provider-service.ts` | state machine |
| `DirectRuntimeProofs`, `ToolApprovalProofs`, `RoutineServiceProofs`, `RoomRunProofs`, `RendererViewProofs` | theorems about the module each is named after | proofs |
| `AppLifecycleProofs` | theorems about `AppLifecycle` with `UpdateService`, and about `AppStartup` | proofs |
| `ProcessProofs` | theorems about `McpService`, `ProviderRun`, and about `MCProcess`, which composes them with the application | proofs |
| `WindowProofs` | theorems about `ProviderService`, `ProfileEditor`, `MemoryPanel`, and about `MCWindow`, which composes them with `RendererView` | proofs |
| `MCDirectRuntime`, `MCToolApproval`, `MCRoutineService`, `MCRoomRun` | constants for TLC | instances |
| `MCProcess`, `MCWindow` | several parts that share no state, each explored while the others rest | instances |

`PROJECT.json` maps every definition to its lines.

### DirectRuntime

`pc` names the next commit of the task that is running; while it is not `"idle"`
only that commit or `Crash` may happen.  `cur` is the task's run and `err` the
error it handles.

| Variable | Code |
|---|---|
| `journal`, `appErr` | `send_journal.state`; whether `last_error_code` is `APP_INTERRUPTED` |
| `user`, `latest` | status of the user's entry; newest user message of a conversation |
| `run`, `requestId` | `runtime_runs.state`; whether `provider_request_id` is set |
| `assistant`, `attached` | status of the answer's entry; whether the run records it |
| `active` | `RuntimeExecutor.active` with each entry's `abortReason` |
| `app` | down, recovering, up, draining, stopped |
| `request` | what the model service made of the run's request (outside of the code) |
| `reopened` | history: messages whose acknowledgement was undone |

| Actions | Code |
|---|---|
| `Send`, `QueueSend`, `Retry`, `RetryRun` | `send`, `retry`, `retryRun` of the send worker |
| `CreateRun` … `OpenRequest`, `NoProvider`, `StartFails`, `FailUser` | `startDirect`, `executor.start`, the head of `dispatch` |
| `ProviderStarted`, `AwaitEcho`, `Acknowledge`, `CreateAssistant`, `AttachAssistant` | the started event and `acknowledgeDirect` |
| `Delta`, `Complete`, `CompleteRun` | the delta and completed events |
| `ProviderError`, `Aborted`, `FailRun`, `FailAssistant`, `Settle`, `SettleUser` | `handleFailure`, `settleDirect` |
| `Cancel`, `Shutdown`, `DrainEnds`, `ForceRun`, `ForceAssistant`, `ForceDone` | `cancelRun`, `shutdown` |
| `Crash`, `Boot`, `RecoverSends`, `RecoverRuns` | process end; the recovery calls at start |
| `ServiceAccepts` | the model service takes the request |

What is assumed of providers, from how `model.ts` and `providers/` behave: nothing
is yielded before the started event; an `AbortError` is raised only after an abort; an error
before the service took the request means that it never will, unless the connection was lost.
After the service took it a provider may raise any error.  Two kinds of them the executor and
the send worker take for "not sent", although the message is with the service (`Misreports`): a
refusal that may be retried, which is what `model.ts:985` makes of any status of 500 or more,
a gateway's 502 or 504 too; and an ordinary error, which is what the command line tools
end with when their output ends early.  Such a request is `"misreported"`.  `RetryIsSafe`
excludes it by name, and `FailedWasNotTaken`, which does not, is refuted by `DirectLate`.

Abstracted: texts of messages and answers, events to the renderer, the flush timer
of deltas (it rewrites the body of one entry), the timer that calls a silent run
stale (it writes no state), tool rounds (the run stays `running`), the attribution
of runs to Rooms, the deletion of a Bot, SQLite errors.

**SendPromise** says what this amounts to for the user: a message is decided once;
a message reported as failed was not taken by the model service and will not be;
only such a message is sent again; a message reported as delivered was taken.  The promise
is about what providers report: by `Deny` one may say of a message that was taken that it was not.
`DirectRuntime` implements it under the mapping `Promise`: a report is the journal
state with the states in flight merged, and a message is taken when one of its
requests was accepted.

### ToolApproval

A call is requested by a running run, and both of its rows, its waiter, its timer
(`due`), its execution (`exec`: between which awaits it is) and what the run was
told (`outcome`) are followed.  `dispatchNext` is the window between the two commits
of an approval.  `consented` and `effects` are history.  `Abort` is every way a run
is aborted: user, deadline, shutdown.  `Crash`, `RecoverRuns`, `RecoverTools` are the
process's end and the two recovery steps in the order of `index.ts`.

Abstracted: scopes, arguments, results, versions (an approval's version changes
exactly with its state), the four rounds of a run, and what the tools read.

### RoutineService

`at`, `todo`, `pos`, `job` are the program counter of a tick: its loop over running
runs (`Reconcile`), over due routines (`Advance`), over pending runs (`Dispatch`,
`StartRun`, `Attach`).  Time is counted in slots.  A run's key is its `trigger_key`,
and also the nonce of its message: that is how a tick after a crash finds a message
it has already sent.  `since` and `turns` are history.  The runs of the model are
reduced to what routines see of them (`runtime`): active, ended, or deleted with
the Bot.

Abstracted: a routine's version, notifications, a clock that reads a slot's very
millisecond, the user sending a routine's failed message again by hand; an
interrupted turn counts as failed, which is what the code makes of it.  Pending runs are
dispatched by time and then by a random id (`IsFirst`); one order of the ids stands for all, and a
manual run, whose time is not kept, may come anywhere.  The clock is not fair and stops at
`Horizon`; no liveness property and no counterexample depends on its going on or standing still.

### RoomRun

One Room and the batch of its latest message.  `at` names the next commit of the handler
that is running, as `pc` does in `DirectRuntime`; `"idle"` means that everything awaits
something.

| Variable | Code |
|---|---|
| `room` | `room_members` of the Room, `membership_version`, `archived_at` |
| `batch` | `room_batches`: state, `is_winding_down`, the membership version it was made for |
| `turn` | `room_turns` by position, each with its handoff (`agent_handoffs`), the attempt that handed it over (`parent_turn_id`) and the state of its run; `cut`: `prompt_cutoff_seq` is set |
| `orphan` | a run is created and not yet attached to its turn |
| `mem` | what the process keeps in memory: `inFlight` and `onlyTurnIds` of the loop, the timer (`armed`), the run's `abortReason`, how far its stream is (`phase`) |
| `routing` | `selectAndSend` awaits a selection: the membership version it has read |
| `app`, `expired` | the phases of a shutdown; whether the batch's deadline has passed |

| Actions | Code |
|---|---|
| `Send`, `SelectOwner`, `OwnerSelected`, `RoutingFails`, `Begin` | `sendCoordinated`, `selectAndSend` on both sides of its await, `prepareRoomRun` |
| `LoopEnds`, `Refuse`, `DispatchHandoff`, `BeginTurn`, `Launch`, `Attach`, `SettleTurn`, `SettleHandoff`, `EndProcess` | `process`, commit by commit |
| `ProviderStarts`, `AcceptHandoff`, `Handoff`, `AskContinuation`, `DecideHandoff`, `Complete`, `Fail`, `AnswerLate` | the run's stream (`dispatch`, `handleFailure`) and its callbacks; `acceptHandoff`, `createHandoff` |
| `DeadlineFires`, `MarkWindingDown`, `StopEnds`, `Cancel`, `CancelHandoff`, `CancelRun`, `CancelQueued`, `CancelBatch` | `armDeadline`, `stopCoordinatedRun`, `cancel` |
| `RetryTurn`, `Continue` | `createRoomTurnRetry`, `continueInterruptedRoomBatch` |
| `AddMember`, `RemoveMember`, `ArchiveRoom` | the Room's edits |
| `BeginShutdown`, `ExecutorDrained`, `Drained`, `Crash`, `Restart`, `RecoverRooms`, `RecoverRuns` | `finishClose`, both shutdowns, recovery at start |

The run of a turn is what `DirectRuntime` specifies, reduced to created, started,
cancelling and its four ends.  After a user's cancel the executor waits for the Provider's
next event; a deadline or a shutdown rejects the pending read at once, unless the
continuation is being asked for.  `ExecutorDrained` settles the run of a Provider that is
silent to the end, and its answer may still come (`AnswerLate`).

Abstracted: texts, names, digests of commands (a repeated command finds its batch and changes
nothing), context references, the order in which members were added (Bots take their turns
in the order of their numbers), attempts before the last one (they never change), batches
before the latest (they can be read only), handoffs that are refused (a log entry).  The
database is taken to be closed as soon as `shutdown` has recovered the Rooms.

### AppLifecycle and UpdateService

`UpdateService` is the updater by itself; `AppLifecycle` puts it into a process that can be
closed, quit, reloaded and killed.

| Variable | Code |
|---|---|
| `receipt`, `requested` | the settings that hold `update.pendingReceipt` |
| `status`, `offered`, `operation` | `UpdateState`, `UpdateService.operation` |
| `fetch`, `wanted` | what `check` and `downloadUpdate` await, and for which version |
| `installed`, `published` | the application on disk and the feed (outside of the code) |
| `closing`, `allowClose` | `closeRequested`, `pendingClose`, `quitRequested`, the armed timer; `allowClose` |
| `page`, `everReady`, `flushes`, `restarts` | the page, and what it was asked and has not answered |
| `shutdown`, `window`, `process` | `shutdownPromise`, the window, the process |
| `routinesOn`, `atWork`, `open` | enabled routines, active runs, the conversation that is shown |
| `confirmed`, `ended` | history |

| Actions | Code |
|---|---|
| `CloseWindow`, `Quit`, `Reload`, `PageReady`, `Confirm`, `ConfirmationTimesOut` | the window's `close`, `before-quit`, `did-start-loading`, `rendererReady`, `confirmClose`, the timer |
| `ShutdownEnds`, `ShutdownFails` | `finishClose` after its await |
| `ClickRestart`, `RestartSaved` | the button, and `updates:install-and-restart` after the page's flush |
| `Check` … `InstallFails`, wrapped in `Updater` | the updater's calls, promises and events, each with `emitUpdate` |
| `ProcessDies`, `StartApp` | the process; `initialState` reads the receipt |

electron-updater announces a download by an event and by a promise.  `Arrives` is the event;
`Resolves` may come before it, after it, or after the user has asked to restart.  In the last
case the status goes back to "downloaded" although the installation goes on, and the button
can be used again; `ReceiptTellsTruth` and `OrderlyExit` hold all the same.

### AppStartup

The start up to the first scan of providers: `OpenDatabase`, `BackUp`, `Migrate` once per
migration, `MigrationsEnd`, `ChooseDefault`, `ApplyDefault`, with `StartFails` between any two
of them and `InstallVersion` while the process is down.  `used` is history: what the user last
worked with.  A backup counts once it was checked and described.

### McpService

One server.  `op[o]` is a request or a call: its kind, the await it is at, and what it has
read.  `mapped` is `McpService.connections`, `usable` the connections that the service has not
closed and over which no call has failed, which is all that it can know of them,
`authorizing`, `registered` and `callback` the state of an authorization.  An action is the
code between two awaits.  A connection that was replaced in the map is never closed; the model
keeps that, and reuses its number.

Abstracted: secrets, trust in single tools, what a call returns, the transport, refreshed
tokens.  A connection that dies by itself, because its process exits or its transport closes, is
not told from one that lives: the service listens for no close, so that it stays in the map until a
call fails over it (`CallFails`).  `MappedIsUsable` is about what the service knows, and promises
nobody that the next call gets through.

### ModelStream and ProviderRun

`ModelStream` says what the executor may rely on: nothing before `started`, one end, no call
of a tool that was not offered, an `AbortError` only after an abort, and before `started` an
error that rules out that the service has the prompt, except those listed in `Late`.
`DirectRuntime` is written against it.  `ProviderRun` implements it, by `Contract`, for the
five drivers and the fallback of codex:

| Variable | Code |
|---|---|
| `stage`, `exec` | which await the driver is at; codex has fallen back to `codex exec` |
| `service`, `request`, `wire` | the connection or subprocess, the prompt, frames under way |
| `answer`, `early` | a reply whose waiter has not run; codex frames before the turn is known |
| `queue`, `closed` | `AsyncModelEventQueue` |
| `calls` | HTTP: tool calls being collected |
| `last`, `ending` | what the reader got |

Three things the contract has to allow, and `DirectRuntime` is to be read with them:
Ollama and the ACP tools yield `started` before anyone has the prompt (`StartsEarly`), so
that "delivered" in `SendPromise` means less for them; http, claude and codex may end with an
error that the executor takes for "not sent" after the prompt was taken (`Late`), http with a status
of 500 or more, which `MaySend` lets a service or a gateway send at any time before the first
answer; a turn of codex app-server that fails before it started is run again by `codex exec`, so
that the prompt may go twice (`MaxPrompts`).  ACP does not hear an abort while it probes its command, and codex and ACP
go on to send the prompt after a stop: the run ends at once and its task later.

### RendererView

| Variable | Code |
|---|---|
| `rows`, `gone`, `feed` | the main process's rows by version, deletions, events under way |
| `shown`, `view` | `sessionIdRef` and the states that are rendered |
| `loadingSession`, `buffer` | `loadingSessionIdRef` and the buffers |
| `openRequest`, `opens`, `spinner` | `openRequestRef`, what each `openBot` or `openRoom` awaits, `loading` |
| `removal` | a deletion or an archiving under way |
| `vain` | history |

A load is a flush, a read of the session, and three reads that answer in any order; another
may begin at each of these points.  Runs stand for all rows that are merged by version, and one
tool call with its approval for those that are merged otherwise.

### ProfileEditor and MemoryPanel

One editor and one panel serve all Bots, one after the other.  `ProfileEditor`: the row and
its copies in the window (`listed`, `selected`), the editor's references (`draft`, `saved`,
`known`), its timer, the save under way, and one task (opening a Bot, renaming, picking a
model, a selection) that flushes first.  A value is the number of the edit that made it, so
that a row tells which edits it holds; `home` says for which Bot each was typed, and `began`
is the text with which the editor began to show its Bot (both history).

`MemoryPanel`: the rows, `panel` and `newDraft` (`itemsRef`, `draftsRef`, `newDraftRef`), the
status and the error, the calls under way, and the flush with the items it has not come to.
The handlers in `ipc.ts` are synchronous and answer in order, so that a call takes effect and
is answered in one step.  Only the scope of a Bot is modelled.  Typing sets the status, so that
buttons become usable while a call is under way.  A creation beyond `MaxItems` fails like any
other call.

### ProviderService

One instance: `setup` and `current` are the configuration and the runtime object made from
it; `found` and `cached` what an inspection found and what is told about it; `lookup` the list,
scan, get and refresh calls, each of which holds the object it began with; `turn` a run, from
its row to the provider it was given.


## Runs

| Run | States | Question |
|---|---|---|
| `DirectSafety` | 2.0 million | do journal, transcript, runs and executor stay consistent? |
| `DirectLiveness` | 63,000 | does the runtime implement `SendPromise`, is every send decided, does every run and every shutdown end? |
| `ToolApproval` | 34,000 | are the tables, the answer to the run and the effects consistent; is a waiting run released? |
| `Routines` | 225,000 | does each slot fire once, and is what was sent settled? |
| `RoomHandoffs` | 1.6 million | are handoffs bounded and without circles, does a stopped batch stay stopped? |
| `RoomRetries` | 630,000 | do batch, turns, handoffs, runs and memory agree over retries, edits of the Room and a crash, and does every batch end? |
| `Process` | 171,000 | does the process end in order, does the receipt tell the truth, is a backup there when it is needed, is a mapped connection one to be used, does every driver keep the contract and end? |
| `Window` | 1.1 million | does the window follow the main process, does a flush store everything, is a run's provider left alone? |
| `DirectLate`, `DirectReopened`, `ToolLateTimer`, `RoutineStall` | counterexamples | claims of the repository the code does not keep |

`Process` and `Window` put parts beside one another that share no variable.  A variable `focus`
says which one moves; each is explored completely, from all of its initial states, and the
product is not.

The properties, with what each excludes:

* `OneActiveRun`, `ExecutorFollowsTable`: the checks for an active run, the executor's map and
  the table agree, through every cancel, shutdown and crash; after a shutdown nothing is active.
* `RetryIsSafe`, `KeepsPromise`: no message goes out twice by a safe retry, unless a provider said of
  a request that was taken that it was not, or a failed regeneration undid an acknowledgement (both
  below).
* `RecordsAgree` (`JournalFollowsRun`, `EntryFollowsJournal`): journal, run and entry tell one
  story whenever no task is running; the exception (an entry that stays `pending` after a
  crash between two commits) is part of the statement.
* `LegalTransitions`, `EndedStaysEnded`: the executor never asks for a transition the
  database refuses, and late events of a provider change nothing.
* `Inv`: the invariant of the proofs, checked before it was proved.
* `EverythingEnds` (`MessagesSettle`, `RunsEnd`, `ShutdownCompletes`): no conversation stays
  busy; the shutdown does not depend on providers.
* `JournalAgrees` (`RowsAgree`, `PendingIsAwaited`, `AnswerMatchesJournal`), `ConsentedOnce`,
  `SettledForGood`, `CallsEnd`: the tool journal, its waiters, what the run is told, and
  that nobody waits for ever.
* `SlotsFireOnce` (`FiredOnce`, `NoSlotLost`), `RunTellsRuntime`, `OneTurnPerBot`,
  `RunsSettle`: routines.
* `Bounded`: turns, hops and targets of handoffs over all attempts; a task does not come back
  to a Bot over any chain of handoffs.
* `StoppedStaysStopped`, `BatchesEnd`: a batch that winds down takes and starts no turn,
  whatever arrives late; its deadline ends it even if the Provider is silent for ever.
* `BatchIsProcessed`: a running batch has its loop, its timer and one turn at work, and its
  queued turns are exactly those the loop will reach.  This is what makes the early return
  of `startProcessing` harmless: a batch that can be retried has no loop any more.
* `OutcomesAgree` (`TurnsSumUp`, `HandoffTellsDelivery`): turns end as their runs, batches as
  their turns; a handoff is open only while its turn waits for a Provider.
* `MembershipFrozen`: the Room is the one the batch was made for, as long as it runs.
* `OrderlyExit`, `CloseSettles`: the ways out of a process that was ever ready, and that no
  close is left half asked for.
* `ReceiptTellsTruth`: status, receipt and installed version agree in every order of event,
  promise, restart and crash.
* `BackupFirst`: what the user last worked with is the database or a checked backup, whatever
  failed half way and whichever versions ran between.
* `MappedIsUsable`, `AuthorizationReleases`: whatever connects, fails and closes at once, what
  the service has closed or found broken leaves the map, and an authorization its lock.
* `KeepsContract`, `RunSettles`: every driver implements `ModelStream` and ends.
* `ViewFollows`, `ViewNeverGoesBack`: once all events are delivered the window shows the newest
  rows, and at no time an older version than before.
* `FlushKeepsAll` (`FlushSaves`, `FlushStores`): a flush that succeeds has stored what was typed,
  and for the Bot it was typed for.  Of the profile this is said of a text typed since the editor
  began to show its Bot: one that nobody touched may be older than the row (`SavedIsShown` below).
* `NothingChangesUnderneath` (`RunKeepsProvider`, `EditsKnowMemory`): the provider of a run until
  it is over; a memory between its being shown and its being edited.

Each of them is broken by at least one plausible mistake in the code; these mutants
stand beside the definition they change, marked "Mutant", and are listed in
`PROJECT.json`.

## Bounds

The code has no bound on messages, attempts, calls or routines; the instances have.

| Constant | Value | Why it is enough |
|---|---|---|
| `Nonce`, `Session` | two messages, in one conversation or in two | the checks are about another run of the same conversation and about the newest message; two conversations let the tasks of one fall between those of the other |
| `Run` (`DirectRuntime`) | two attempts of the first message, one of the second | a retry and a regeneration need a second attempt; a third is created by the same steps |
| `Call`, `Run`, `MaxCalls` (`ToolApproval`) | two calls, chosen from three of two runs; all three in `ToolLateTimer` | a run asks again after its first call, or another run waits |
| `Routines` | one; two of two Bots in `RoutineStall` | two routines of one Bot exceed what TLC does in minutes; the user's own turn stands for everything else that keeps the Bot busy. In `RoutineStall` a run of one Bot stands before that of another |
| `Bots`, `Founders` | three Bots; all of them members, in `RoomRetries` also two of them | a chain of handoffs over three Bots can close a circle; an edit adds or removes the third |
| `MaxTurns`, `MaxHops`, `MaxTargets` | 4, 2, 1; with retries 2, 1, 1 (8, 6, 2 in the code) | in `RoomHandoffs` each limit is reached while the others still allow a handoff, so that each has to refuse one |
| `Task` | two digests, or one | a circle of one task, and a chain that mixes two |
| `Batches` | one | a second batch needs the first to have ended and finds the same tables; what is left in memory is checked by `BatchIsProcessed` |
| `Retries`, `Crashes`, `Edits`, `Route` | none in `RoomHandoffs`; one each in `RoomRetries` | a retry or a routed message once, a crash once at any moment, an edit once while nothing runs, a selection that is awaited included. `EditsLeft` leaves out the edits that nothing can follow, and an edit and a crash in one behaviour: a retry after an edit follows a failed or stopped turn instead of a crashed one |
| `Horizon`, `Schedules` | two slots; once and interval; one slot, once, in `RoutineStall` | one slot due while the earlier one is pending or missed. In `RoutineStall` no routine is due again, so that the clock has no part in it |
| `Manual`, `UserTurns`, `MissedAfter`, `Deletable` | one manual run or none, one turn of the user or two, 0 or 1, one Bot | each event once, at any moment; a turn for each Bot in `RoutineStall` |
| `Versions`, `MaxFlushes`, `MaxReloads`, `Conversation` | 2, 2, 1, one | a receipt for a newer version; a request to flush that is answered after the next was sent; a reload in the middle; a run that is or is not at work |
| `Schemas`, `MaxData`, `Bot` | 3, 1, one | two migrations to fail between, and a version in between them; data written after the first backup |
| `Op`, `MaxVersions`, `MaxConnections` | two tasks, 2, 3 | two tasks of one server meet at every pair of awaits; one change of the row makes the other's version stale; both hold a connection while a third is mapped |
| `MaxFrames` | 4 | the longest handshake (ACP: initialize, session, model, prompt), and a turn of codex with content before its reply |
| `Chat`, `MaxChanges`, `MaxOpens` | 2, 2, 2 | an event on each side of a read; a load that overtakes another |
| `Owner`, `MaxEdits`, `MaxTasks` | 2, 3, 3 | an edit before, during and after a save; a rename and a switch in either order; a switch away and back under one save |
| `MaxSaves`, `MaxLookups` | 2, 3 | a lookup over each of two replacements of the object; each save begins one |
| `Holder`, `MaxKept`, `MaxText`, `MaxItems` | 2, 2, 2, 3 | the limit and a duplicate can each be what refuses a restoration; the code's limit of items is a number like any other |
| `MaxTyped`, `MaxCalls`, `MaxSwitches` | 2, 4, 1 | typing during a save and after it; a flush among calls of buttons; one switch |

Deadlock is checked in all runs but `Process` and `Window`, whose bounded parts may come to
rest: a model run that has ended, a window with nothing left to type.

## Fairness

* *Tasks run to their end* (`WF(Step)`, `WF(TickStep)`, `WF(Dispatch)`, `WF(HandlerStep ∨ …)`): a JavaScript
  task is not preempted.  A crash disables the step, so nothing is assumed about
  crashes.
* *Timers fire* (`DrainEnds`, `Expires`, `TimerFires`, `DeadlineFires`, `ConfirmationTimesOut`), and
  a Room's clock and shutdown go on (`TimePasses`, `ExecutorDrained`, `Drained`).
* *A shutdown ends, one way or the other* (`LifeFair`): it has its own drain time-out.
* *An aborted request ends*, and so does a selection of the continuation: all that
  `BatchesEnd` asks of Providers, which get the signal (`model.ts`, `cli-utils.ts`).
* *Model streams end* (`ProviderFairness`): a premise of `MessagesSettle` and `RunsEnd`,
  not of `ShutdownCompletes`.  `RunSettles` shows it of the drivers `http`, `claude`, `ollama`,
  `acp` and `codex exec`; for codex app-server it holds once the run was stopped.  It is strong
  fairness, because the answer is disabled while another task runs, and enabled again after
  each.
* *A driver's task goes on, and a subprocess exits some time* (`StreamFair`): HTTP waits are
  bounded by `ProviderTimeouts`, requests of JSON-RPC by their own timers.  Nothing is assumed
  of what a service sends.
* *Connections, calls and the callback server have time-outs* (`McpFair`).
* *Tools return* (`SF(Succeed ∨ Fail)`): each kind bounds its own time.
* *Turns end* (`SF(RuntimeEnds)`, `SF(UserTurnEnds)`): what `RunsEnd` shows.
* Nobody is obliged to send, retry, allow, deny, cancel, click or restart.

## What the code does not keep

Four of these are runs that TLC ends with a counterexample; `PROJECT.json` quotes each claim.

1. **`DirectReopened`**: a regeneration that fails before its run exists (its provider
   was removed, say) goes through `failBeforeRun` (`send-worker.ts:197`), which does
   not look at the journal: an acknowledged message becomes `failed-before-acceptance`
   and is offered for a safe retry.  `RetryIsSafe` excludes these messages by name, and
   `DirectLiveness`, which checks `KeepsPromise`, runs with `RegenerateMayFail = FALSE`.
2. **`DirectLate`**: an HTTP status of 500 or more is raised as a refusal that may be retried
   (`model.ts:985`), also by a gateway whose upstream has the prompt, and a CLI's early end as an
   ordinary error; the executor and the send worker (`send-worker.ts:188`) take both for "not
   sent".  The message is called not sent and offered for a safe retry.
3. **`ToolLateTimer`**: the expiry timer stays armed while an allowed tool runs
   (`workspace-tool-coordinator.ts:141`).  When it fires, the run fails with
   `APPROVAL_ALREADY_RESOLVED`; the tool succeeds and its result reaches nobody.
4. **`RoutineStall`**: a Bot is deleted while a run of its routine waits.  Its conversation is gone,
   and `dispatch` looks it up outside of its `try` (`routine-service.ts:122`): every tick ends there,
   and the runs behind it are never sent, although their Bots are free.  The routine cannot be
   deleted, as it has a pending run.

The others are stated in the modules.  TLC refutes each claim that has a name at the bounds
above when it is added to the run that has its module.

| Claim | Module | What happens |
|---|---|---|
| `NoOrphanAnswer` | `DirectRuntime` | the answer's entry is created and attached in two commits (`runtime-executor.ts:355`); after a crash between them recovery does not find it, and it is shown as streaming for ever |
| `TickReachesRuns` | `RoutineService` | a run still waits when its routine's next slot is due: a unique index refuses the second one, and the tick throws before its dispatch loop (`routine-service.ts:105`); so does every tick until the slot is twelve hours old and recorded as missed |
| `CodexTurnEnds` | `ProviderRun` | nothing settles `completion` when the app-server exits during a turn (`codex-cli.ts:633`) |
| `FallsBackUntaken` | `ProviderRun` | an app-server that took the prompt and failed before it started the turn: the prompt goes to `codex exec` too (`codex-cli.ts:477`) |
| `RestartSparesRuns` | `AppLifecycle` | the restart button knows the shown conversation only, and only at the click (`App.tsx:757`) |
| `BotsGetDefault` | `AppStartup` | a crash between storing the default and applying it (`provider-service.ts:564`) |
| `WindowSettles` | `RendererView` | a refused flush leaves the loading indicator; a failed reload of the shown conversation loses events (`App.tsx:201`) |
| `ConflictMeansElsewhere` | `ProfileEditor` | a save answered after a switch writes its version into the other Bot's editor (`ProfileInspector.tsx:142`) |
| `SavedIsShown` | `ProfileEditor` | a Bot whose save is under way at the click is opened with its text from before that save, and called saved (`App.tsx:253`, `ProfileInspector.tsx:273`) |
| `RenameSurvives` | `ProfileEditor` | the editor's old name comes back with the next edit (`ProfileInspector.tsx:62`) |
| `NotesStayHome`, `PanelListsItsBot`, `FlushIsFinal` | `MemoryPanel` | the flush's Bot, the list and the save of a button, each after a switch or a flush (`MemoryPanel.tsx:162`, `172`, `179`) |
| `CachedIsCurrent` | `ProviderService` | a lookup begun before a save writes the old description afterwards (`provider-service.ts:579`) |

Seen while modelling, and part of the models, without a claim they contradict: an MCP connection
that is replaced in the map is never closed; a disable during another request's handshake leaves a
connection open; an authorization that is given up puts back the credentials it began with and takes
the lock of a later one; an older application opens a newer schema without complaint; a provider
may be reconfigured while a Room chooses an owner, which has no run.

## Proofs

The runs check small instances.  The theorems hold for every value of the constants that the
assumptions allow, infinite sets of messages, runs and calls included.

| Module | Theorem | Statement |
|---|---|---|
| `DirectRuntimeProofs` | `TypeCorrect`, `InvHolds` | `Spec => []TypeOK`, `Spec => []Inv` |
| | `AtMostOneActiveRun` | `Spec => []OneActiveRun` |
| | `TransitionsAreLegal` | `Spec => LegalTransitions` |
| | `MapFollowsTable` | `Spec => []ExecutorFollowsTable` |
| | `RecordsTellOneStory` | `Spec => []RecordsAgree` |
| | `EndedIsFinal` | `Spec => EndedStaysEnded` |
| | `RetryReachesNobodyTwice` | `Spec => []RetryIsSafe` |
| | `RuntimeKeepsPromise` | `Spec => KeepsPromise` (it implements `SendPromise`), if `~RegenerateMayFail` |
| `ToolApprovalProofs` | `TypeCorrect`, `InvHolds` | `Spec => []TypeOK`, `Spec => []Inv` |
| | `JournalTellsTheTruth`, `OneEffectPerConsent` | `Spec => []JournalAgrees`, `Spec => []ConsentedOnce` |
| | `SettledStaysSettled` | `Spec => SettledForGood` |
| `RoutineServiceProofs` | `TypeCorrect`, `InvHolds` | `Spec => []TypeOK`, `Spec => []Inv` |
| | `SlotsFireExactlyOnce`, `RunsTellTheTruth`, `BotsDoOneThing` | `Spec => []SlotsFireOnce`, `Spec => []RunTellsRuntime`, `Spec => []OneTurnPerBot` |
| `RoomRunProofs` | `TypeCorrect`, `InvHolds` | `Spec => []TypeOK`, `Spec => []Inv` |
| | `RoomStaysWhileItRuns`, `HandoffsAreBounded` | `Spec => []MembershipFrozen`, `Spec => []Bounded` |
| | `OutcomesTellOneStory`, `BatchesAreProcessed` | `Spec => []OutcomesAgree`, `Spec => []BatchIsProcessed` |
| | `StopIsFinal` | `Spec => StoppedStaysStopped` |
| `AppLifecycleProofs` | `TypeCorrect`, `InvHolds` | `LifeSpec => []LifeTypeOK`, `LifeSpec => []Inv` |
| | `ReceiptIsTrue`, `ExitIsOrderly` | `LifeSpec => []ReceiptTellsTruth`, `LifeSpec => OrderlyExit` |
| | `StartupTypeCorrect`, `StartupInvHolds`, `NothingIsLost` | `StartupSpec => []StartupTypeOK`, `[]StartupInv`, `[]BackupFirst` |
| `ProcessProofs` | `McpTypeCorrect`, `McpInvHolds`, `MapHoldsNoSpentConnection` | `McpSpec => []McpTypeOK`, `[]McpInv`, `[]MappedIsUsable` |
| | `StreamTypeCorrect`, `StreamInvHolds` | `StreamSpec => []StreamTypeOK`, `StreamSpec => []StreamInv` |
| | `DriversKeepContract` | `StreamSpec => KeepsContract` (it implements `ModelStream`) |
| | `ProcessHasItsParts` | `Spec => LifeSpec ∧ McpSpec ∧ StreamSpec ∧ StartupSpec` |
| | `ProcessTypeCorrect` | `Spec => []ProcessTypeOK` |
| | `ProcessIsSafe` | `Spec => []ReceiptTellsTruth ∧ []MappedIsUsable ∧ []BackupFirst` |
| | `ProcessKeepsPromises` | `Spec => OrderlyExit ∧ KeepsContract` |
| `RendererViewProofs` | `TypeCorrect`, `InvHolds` | `ViewSpec => []ViewTypeOK`, `ViewSpec => []ViewInv` |
| | `WindowFollows`, `ScreenNeverGoesBack` | `ViewSpec => []ViewFollows`, `ViewSpec => ViewNeverGoesBack` |
| `WindowProofs` | `ProviderInvHolds`, `ProviderKept` | `ProviderSpec => []ProviderInv`, `ProviderSpec => RunKeepsProvider` |
| | `EditorInvHolds`, `ProfileIsSaved` | `EditorSpec => []EditorInv`, `EditorSpec => FlushSaves` |
| | `MemoryInvHolds` | `MemorySpec => []MemoryInv` |
| | `EditsAreInformed`, `MemoryIsStored` | `MemorySpec => EditsKnowMemory`, `MemorySpec => FlushStores` |
| | `WindowHasItsParts` | `Spec => ViewSpec ∧ EditorSpec ∧ ProviderSpec ∧ MemorySpec` |
| | `WindowTypeCorrect`, `WindowShowsTheChat` | `Spec => []WindowTypeOK`, `Spec => []ViewFollows ∧ ViewNeverGoesBack` |
| | `FlushesKeepAll`, `NothingChanges` | `Spec => FlushKeepsAll`, `Spec => NothingChangesUnderneath` |

### Assumptions

They are named in the modules that declare the constants, and TLC evaluates them in the runs.

* `ConstantsAssumption` (`DirectRuntime`): each message has a conversation, a run is a message
  with an attempt, `NoNonce` is no message.
* `CallsHaveRuns` (`ToolApproval`): each call has a run.
* `RoutineAssumptions`: routines have Bots, schedules are sets of slots; any number of
  each.
* `RoomAssumptions`: the Room's founders are Bots, the limits are natural numbers, with one turn
  at least, and `NoTask` is no task.  `MaxTurns`, `MaxHops`, `MaxTargets` are arbitrary: the
  code's 8, 6 and 2 are an instance.
* `SomeVersions`, `LifeBounds`, `StartupBounds`: there is a version, a flush, a schema.
* `McpBounds`: finitely many operations are under way, and there is a version to begin with.
* `FramesBound`: a service may send at least one frame.
* `ViewBounds`: the bounds are natural numbers, and `Nothing` is no conversation.
* `EditorBounds`, `ProviderBounds`, `MemoryBounds`: the bounds are natural numbers; a Bot may keep
  a memory, and there is a text besides the blank one.
* `~RegenerateMayFail` leaves out the defect that `DirectReopened` shows.  `RetryIsSafe` needs no
  such hypothesis: it excludes the messages concerned by name, as it does the requests a provider
  misreported (`DirectLate`).  Nothing is assumed of the errors a provider raises once the
  service has the request.

### Arguments

None of the properties is inductive by itself.  Each module proves an invariant `Inv` that
relates the tables and the memory to the place of the handler between its commits; each `Inv`
was model-checked before it was proved, that of `DirectRuntime` as part of its run.

* **`DirectRuntime`.**  `CreateRun` is far from the check it relies on, so `OneActiveRun` needs
  `TaskAt` (the task's run is in the state its last commit left it in, and in the
  map where the task counts on it) and `DrivenRuns` (map and table know of the same
  cancellations).  With them each transition is one of `RUNTIME_TRANSITIONS` (`StepIsLegal`): a
  failing run that is being cancelled ends `cancelled` because the abort reason and the table
  agree.  `Records` adds what the journal and the entry are at each place of a task, for
  each state of the run, also of tasks a crash has cut off; `RequestAt` adds what the service may know at
  each place, which a safe retry depends on.  The refinement has one lemma per action: it
  is a step of `SendPromise` on its message or leaves both mapped variables alone.
* **`ToolApproval`.**  The parts of `Inv` say who may settle a call in each state: a waiter
  exists for what its run waits for (`Waiting`), nothing waits in a process that recovers
  (`Called`), an execution finds the call as its last commit left it, unless the abort has cancelled
  it (`Executing`), between the two commits of an approval nothing else settles the call
  (`Dispatching`), and the consent outlives the execution (`Consented`).
* **`RoutineService`.**  `Traces` says which rows a crash can leave behind, and that a turn was
  asked for under a message that is still there: that is how the next tick finds it.
  `TickAt` says what the tick may still rely on of what it read at its beginning.
* **`RoomRun`.**  `RunningAt` is the core: at most one turn works, and where the handler is
  tells whether its run is absent, active or over; that is what keeps the Room
  busy, hence `MembershipFrozen`.  `QueuedAt` keeps queued turns in batches that go on, and
  `CutTells` tells a turn that may be continued from one a Provider may have seen.  `Numbered`
  (every turn has a greater number than the one it comes from) makes the chains of handoffs
  well-founded.  `Bounded` speaks of recursive functions over those chains
  (`SameTaskBots`, `Passed`): `ChainFunction` shows by induction on the number of the turn that they
  exist, `AboveSteps` and `FromsSteps` unfold them, `FromsAgree` and its companion show that a
  new turn leaves the chains of the others alone.  The induction uses the minimum of a
  set of counterexamples, as the induction theorems of the library take an operator and cannot be
  used here.  `StopIsFinal` then follows step by step.
  `OutcomesAgree` needs what the rows say between the commits of a handler (`Outcomes`): a turn
  that the recovery has settled is ahead of its run until the second recovery (`SettledTell`), and
  an open handoff is dispatched only where a handler still comes to it (`Dispatched`), also when
  the stop of another handler came in between.  `BatchIsProcessed` needs what the loop still has
  to do (`Processing`): whoever leaves the loop waiting leaves it a turn to wait for (`LoopFeeds`),
  a loop ends with nothing queued (`LoopTells`), and it reaches every turn that waits or works
  (`LoopReaches`).  Reach is a recursive function over pairs of a turn and an attempt: `BelowSteps`
  derives it from a chain of the turns before, `BelowAgree` shows that later turns do not change
  it, and `FrontHands` that a turn handed on by an attempt in reach is in reach.
* **`AppLifecycle`.**  `UpdaterAt` ties the status to the operation, `ClosingAt` the permission to
  close to an installation and a shutdown to a confirmed close.  For `ExitIsOrderly` the only
  other way to end is a crash.
* **`AppStartup`.**  `StartAt` keeps the copy (`CopyIsThere`) from the backup until the last migration.
* **`McpService`.**  `LooksApart`: an authorization closes only a connection that is not in the map.
  `VersionsSuffice` is the accounting behind the types: the bounded versions last for every write
  that is still to come.
* **`ProviderRun`.**  The contract says nothing of frames, the queue or where the driver is, and
  which event may come next depends on them.  `StageTells` says which driver may be where and what
  is there before the prompt, `WireTells` that content is on its way only once the prompt is taken,
  with one reply at most, which says what became of what was asked.  `QueueTells` is the heart of the
  drivers with a task of their own: the queue begins with "started" unless the reader has it
  and ends with the last event; `ClosedTells` says what the way it was closed tells of
  the prompt, also after the reader has left, and `EndTells` the same of the end the reader saw.  Each step of a
  driver is then one of the contract's or unseen by the reader: `Finishes`, `Yields` and `Skips` show it once
  for all that generators do, `Pushes` and `Flushes` for what goes into the queue, `Pulls` and
  `PullsEnd` for what the reader takes out.  A fallback from app-server to exec is unseen: it ends no run.
* **`MCProcess`.**  A step of the process is one of a part, and the others stutter (`OneOfThemMoves`).
* **`RendererView`.**  That every version is on screen or under way is not enough: an event also
  carries the live state of its whole conversation, and the merge takes it or drops it by the version of
  one run.  `RunsCurrent` therefore says of a view that up to each event under way it has the versions
  which that event carries, or an event before brings them, and that no event that wins takes one
  back.  `Reading` says the same of what a load has read, once the buffered events are merged into it, and
  that it is no older than the screen, which is what `ScreenNeverGoesBack` needs when a snapshot replaces
  it.  `mergeBufferedEvents` is a recursive function over the buffer: `MergingExists` and `MergingSteps`
  show by induction on its length that it exists and unfolds, `BufferGrows` what one more event
  does, and `BufferMerges` (the merge adds only what the rows have, and runs, tools and approvals are
  merged apart) is a part of the invariant.  The exception of `ViewFollows`, a reload that
  fails or is overtaken, is `vain`.
* **`ProviderService`.**  The runtime object of the moment is always that of the stored configuration
  (`ProviderInv`), so that a run which is given it, and which no save or refresh passes, has the
  configuration it was made for.
* **`ProfileEditor`.**  `TextsStayHome` follows a text through every copy of it: the draft, the list,
  the row a task captured, the save under way and the table.  The reference of what was saved last is the
  one copy that an answer may fill with the text of another Bot; `TypedIsKept` shows why this is
  harmless: a text that was typed for this Bot and equals it is in this Bot's row, and a save that is
  still under way for this Bot carries the same text.
* **`MemoryPanel`.**  `Sees` says what a stale copy of a row may be: nothing, or a row of an
  earlier version; a version that is the same means a row that is the same.  It holds of what each call
  carries (`Informed`) and of the items a flush has not come to, for the versions of a row only
  grow (`Grows`, `SeesOn`).  `Lists` says that the panel is never stale: whatever changes a row
  is answered in the same step.  `OneFlush` says that a flush awaits at most one call, so that its
  end leaves nobody waiting.  With them a flush that succeeds has looked at the list of that
  moment, which is the table's (`FlushGoes`).  The limits of a Bot are counted with the
  theorems on finite sets (`KeepingWithinLimits`).
* **`MCWindow`.**  A step of the window is one of a part, and the others stutter (`OnePartMoves`).

### Only model-checked

* Liveness (`EverythingEnds`, `CallsEnd`, `RunsSettle`, `BatchesEnd`, `CloseSettles`,
  `AuthorizationReleases`, `RunSettles`): the prover does not reason about fairness or `ENABLED`.

Every invariant and every action property that a passing run checks is also proved.

## Plan

The modules are written: the conversations and their tools, routines and Rooms
(`DirectRuntime`, `SendPromise`, `ToolApproval`, `RoutineService`, `RoomRun`), the process around
them (`UpdateService`, `AppLifecycle`, `AppStartup`, `McpService`, `ModelStream`, `ProviderRun`),
and the window (`RendererView`, `ProfileEditor`, `MemoryPanel`, `ProviderService`).

What the theorems leave to the runs is liveness, and the claims of documents and comments
that the code does not keep, which are refuted on an instance.

## Not modelled

* *Prompt assembly and capability snapshots*: text made from rows, without state of its own.
* *What read-only tools see* of files and the network: one call that returns or fails.
* *The texts of prompts and frames*: the drivers are modelled by the frames they tell apart.
* *What each migration does to the rows*, and the catalogs of models and the secrets of provider
  instances.
* *IPC validation and the preload script*: each handler is part of the action of the service it
  calls.
* *The answer of an approval's buttons* (`App.tsx:833-847`): the window merges it into its tools and
  approvals by version, without asking which conversation is shown; what belongs to another one is
  not rendered, because the conversation goes by the runs that are shown (`Conversation.tsx:435`).
* *The Room inspector and the settings of Memory in other scopes*: the same kind of editor over
  other rows, without a state the modelled ones do not have.  The Sidebar and the conversation's
  presentation keep nothing that outlives a call.
* *Build, release and smoke tests*: no part of the running program.

`PROJECT.json` lists every component with its status.
