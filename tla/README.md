# A TLA+ model of Belltower

Belltower is a local agent server. A *session* is an append-only event log in
SQLite; projections of the log say what the session is doing. Operators send
messages, steer, cancel, approve tool calls and answer questions over HTTP;
detached tasks run the model's turns; sessions wake one another.

This directory models it: the durable control state of a session and the
handlers, workers, watchdogs, pump and recovery that compete for it; the tool
calls, approvals, model calls and contexts of a turn; the sessions that work for
one another; what is read back from the log, exported and pushed; the live stream
and the terminal that shows it; credentials, readiness, MCP servers and the
launcher.

## Inventory

| Component (crates) | State | Operations | What makes it hard | Module |
|---|---|---|---|---|
| session store (`bt-session`: `store.rs`, `store/`) | event log; projections: active turn, control flag, queue, steers, budget | admission, claims, terminal transitions, appends, each one SQLite transaction | callers race; every claim re-checks what its caller read earlier | `SessionStore` |
| orchestration (`bt-runtime`: `turn_orchestrator.rs`, `control_plane.rs`, `sessions.rs`, `cancellation.rs`) and server tasks (`bt-server/main.rs`) | task-local: turn at hand, outcome, what was read; process-wide: `active_cancellations` | register, preflight, turn loop, finish, post-turn controls, cancel, steer, clear, resume | several locks per operation; panics, ignored results, handlers in two steps | `TurnControl` |
| tool calls and approvals (`bt-agent`, `approval.rs`, `records.rs`, `lifecycle.rs`, `operator_routes.rs`) | log events of a call; decisions per call, per session, global; pending approvals | request, evaluate, decide, resume, execute, record, recover | call ids repeat; scope of a reused decision; a crash between any two events | `ToolRuns` |
| settings (`control_plane.rs`, `store/admission.rs`, `connections.rs`) | immutable revisions; the revision of queued, waking and paused work | update, admit with retries, claim, resume | the revision is read outside the transaction that uses it | `TurnSettings` |
| related sessions (`related_sessions.rs`, `agent_tools.rs`) | tree, mailbox, obligations | spawn, send, wake, claim, reply, settle, repair | two sessions and no common lock; triggers may be missed | `RelatedSessions` |
| context (`bt-context`, `runtime/context.rs`) | chain of summaries | plan, summarise, build, force | history read at every step; calls must keep their results | `ContextWindow` |
| model providers (`bt-providers`) | partial answers | request, frames, assembly | four dialects; histories written by another provider; streams that end early | `ModelCalls` |
| built-in tools (`bt-tools`, `tool_execution.rs`) | files, mutation queues, process trees | read, write, edit, shell | several turns on one file; cancel and timeout in the middle | `FileTools` |
| MCP client (`bt-mcp`) | session, tool cache, last error: three locks | open, discover, call, reload | late answers in the pipe, dropped requests, silent servers | `McpHost` |
| live stream (`bt-server/main.rs`, `bt-client`, `bt-tui`) | cursor per client, bounded channel | replay, follow, reconnect, refresh | gap between replay and live, lag, pages fetched beside the stream | `EventStream`, `LiveTranscript` |
| terminal (`bt-tui`) | cells and history; pending requests, command chain | stream events; slash commands, keys, switches | orders of text, results and end of turn; results for a session no longer shown | `TranscriptView`, `ChatControl` |
| launcher (`belltower`, `bt-server/main.rs`) | token records, ports, processes, `config.toml` | choose, spawn, wait, bind, quit | several on one machine, sharing files only | `Launcher` |
| readiness (`bt-readiness`, `bt-models`) | one inspection | probe, time out, pick a model | the world changes between two requests | `Readiness` |
| credentials (`bt-auth`) | layered store, refresh lock per process | resolve, refresh, login, logout | a refresh token is spent once; two processes | `Credentials` |
| read models (`turn_projection.rs`, `migration.rs`, `inspection.rs`, `bt-otel/otlp.rs`) | projections beside the log | append, rebuild, fold, inspect | five derivations of one log; old databases | `ReadModels` |
| bundles and sync (`export.rs`, `sync.rs`) | bundle directories, remote heads and lock file | export, push, pull, import, fork, diff | reads in several statements; processes killed in the middle | `SessionBundles` |
| protocol types | none | | data only | not modelled |

`PROJECT.json` lists every component with its status, and under `hazards` each
place where the code is exposed to an order of steps that a test would hardly
produce.

How they interact: an HTTP handler calls the runtime, which takes the store's
mutex for each transaction and publishes the committed events on a broadcast
channel: events of turns, messages and requests while it still holds the mutex; chunks
(`record_raw_chunk`, `record_live_completion_chunk`), the events of a spawned child
session and those of related-session settlements and claims after giving it back, so
that they can be overtaken on the channel. A handler that starts a turn spawns a task;
the task takes the mutex again and again, and goes on with whatever turn its
post-turn controls claim. The wake pump listens to the channel. Nothing is
shared between tasks but the store and the map of cancellation signals.

## Modules

| Module | Models | Role |
|---|---|---|
| `SessionStore` | the control projections and the transactions on them | abstract specification: any caller, any time |
| `SessionStoreProofs` | | TLAPS proofs about `StoreSpec` |
| `TurnControl` | handlers, workers, watchdogs, pump, restart (extends `SessionStore`) | the detailed specification; implements `StoreSpec` |
| `TurnControlProofs` | | TLAPS proofs about `ControlSpec` |
| `ToolRuns`, `TurnSettings`, `RelatedSessions` | the rest of a turn's durable state: tool calls, settings revisions, mailboxes | beside `TurnControl`, which sees of a tool call only whether it pauses the turn, has no revisions, and one session |
| `ContextWindow`, `ModelCalls`, `FileTools`, `McpHost` | what a turn's loop calls | |
| `LiveTranscript` | what a client of the stream is promised | abstract specification |
| `EventStream` | server stream and client | implements `LiveTranscript` |
| `TranscriptView`, `ChatControl`, `Launcher`, `Readiness`, `Credentials` | the processes around the server | |
| `ReadModels`, `SessionBundles` | what is derived from the log | |
| `ToolRunsProofs`, `RelatedSessionsProofs`, `EventStreamProofs`, `McpHostProofs` | | TLAPS proofs about the component of that name; `McpHostProofs` also about `SessionBundles` |
| `AdmissionProofs`, `TerminalProofs` | | TLAPS proofs about `Credentials`, `TurnSettings` and `FileTools`, and about `ChatControl`, `Launcher` and `Readiness` |
| `MCSessionStore`, `MCTurnControl`, `MCRelatedSessions` | one component each | the modules TLC runs, with the `.cfg` files |
| `MCTurnSteps`, `MCAgentParts`, `MCAdmission`, `MCDurable`, `MCTerminal` | several components each | a variable `part` says which of them a behaviour runs; the others stay in one initial state |

The components of an `MC` module with a `part` are checked side by side, not in
interaction: in the code they meet through a value that the model of each chooses
freely (the answer of a provider, the outcome of a tool, the history a context is
built from). Where components do interact, they are in one module: `TurnControl`
extends `SessionStore`, `EventStream` holds server and client.

### SessionStore

A turn, message, steer, operator request or wake is the number of its creating
event among those of its kind, which is what `source_seq` orders; `None` is 0.
`active` is the row of `active_turn_projection`; `turn[t]` has the status and
the work a turn was started for; `message`, `steer`, `request` and `wake` hold
the status columns; `cancelRequested`, `limit` and `used` are the control and
budget rows. `cancelSeen` is a history variable: the turns during which an
operator's cancel was committed.

Each action is one transaction with all its checks, in the code's terms:
`AdmitDirect` and `AdmitQueued` are the two outcomes of `admit_turn_or_queue`;
`ClaimQueued`, `ClaimSteers`, `ClaimWake`, `ClaimResumed` start a turn with the
resolution of its source; `CommitTerminal` is the terminal transition with the
budget checkpoint. A failed check is a transaction that is not enabled.
Abstracted: message texts, providers and models, tool calls that do not pause
the turn, settings revisions (a claim with a stale revision retries), and the
budget's token, time and cost limits (only the turn limit is counted; the
others exhaust through the same test).

### TurnControl

The store's mutex is the unit of atomicity. `worker[t]` is the task of
`detach_turn_work` spawned for turn `t`: its program counter, the turn it is
at, the outcome it will record, and what it read under earlier locks. The
program counters of `OwningPC` follow `run_session_turns` and
`run_resumed_approval_turn`, those of `ConsumePC` follow
`consume_post_turn_controls` lock by lock. `after` records where the code
branches after `turn.finished`: `route` (the loop takes what the controls
return), `discard` (the five callers that ignore it) and `stop`. `entry` and
`signalled` are the map of cancellation signals, `clearing` and `resumer` the
handlers that read first and write under a second lock, `pumpDue` says that the
pump has an event to react to.

`Panic` stands for a panic and for an error a task returns without having
recorded it; `Watchdog` is what `detach_turn_work` does about it. `Restart` is
a crash and `BelltowerRuntime::open` with the recovery of the unfinished turn;
startup's wake claim is left to the pump's step. Not modelled here: settings
updates (they only trigger the pump once more), a poisoned mutex, errors of
SQLite in the middle of a transaction (it rolls back).

### ToolRuns

`log` holds the events about tools and turns, its index is `seq_id`; the rows of
`tool_run_projection` and `approval_projection` are operators on it. `worker` is
the turn's task, `approver` the handlers of `approve_tool` between their locks,
`operator` a shell command outside any turn. `perCall`, `perSession` and `global`
are the decisions `ApprovalStore` keeps, `auto` the mode. A request is named by its
index because providers repeat call ids. `effects` is a history variable, the
executions. `Troubles` selects cancel, failed tools and records, a client that goes
away, auto mode and crashes; `Restart` writes what `interrupted_tool_results` and
the operator tool recovery write and rehydrates the decisions.

### TurnSettings

A revision is a snapshot of connection, model and mode. Senders, patchers, the
wake pump and the resumption of an approval each read a revision and use it under
a later lock, as `admit_user_message` and its relatives do, with their retries;
`Restart` may come back with another configuration.

### RelatedSessions

One branch per session. `mail` has one record for the two copies of a message,
which commit together. A turn is what the mailbox sees of it: started for a wake,
finished with an outcome, then the task in `outcomes` reads what the session owes
and settles it, one obligation per transaction. `poked` are the sessions somebody
will claim a wake for; a fault makes a settlement fail, a crash loses the tasks,
and `phase = "repair"` is startup.

### EventStream and LiveTranscript

`CommitEvent` commits and publishes under the store's mutex; `CommitLate` commits a
transaction of up to `LateBatch` events whose thread publishes them one by one
afterwards (`PublishLate`), so that the order of the channel, `bus`, differs from that
of the log. Messages, commands and turn ends are never published late (`LateKinds`).
The server side subscribes, replays in pages of `ReplayPage`, follows a channel of
`BusCapacity` events and ends the stream when it lags; the client reconnects from
its cursor, and a refresh fetches a page of `Window` messages and then one of
commands. `LiveTranscript` has only the log, how far the client has moved and what
it shows; `LiveSteps` is its safety part and `LiveSpec` adds that the client catches up. A refresh that finds more than `Window` new messages shows the newest:
this is in the abstract specification because the code does it.

### ContextWindow

A message is its index with a role, the call it belongs to and a size; a summary is
the set of messages it was written from. Planning, the summary's model call and the
build are separate steps, each with its own reading of the history. The summarizer has
a budget of its own: of the dropped messages `Transcript` reads the newest that
`InputTokens` has room for beside the previous summary, and the run's bound elides a
message as soon as a large one is dropped with another. Estimation is the sum of sizes;
`Skews` scale it as the observed usage does.

### ModelCalls

A call's arguments are fragment numbers. The server sends the frames of its dialect
in any order the dialect allows; the adapter and the agent's assembly are the code's;
the next request is translated from a history that includes what earlier dialects
left in it. `messages` is that history in the order of the log, and `turn.context` what
the turn at hand sends. The two differ: a turn logs a call when the model makes it and
the result when the tool returns, but what the model said only when the turn ends
(`record_turn_result`), and not at all when a cancel, a failure or a crash comes first
(`CutOff`). A call that needs an approval or an answer ends the turn without a result
(`Pause`); the result is logged by the turn that is resumed, before the steers that
wait (an answer) or after them (an approval). A call that a turn leaves open otherwise
gets its result with the turn's end (`Answered`). `Upsets` says what may come between;
with `"panic"` or `"fork"` a call can stay without a result for good.

### FileTools, McpHost

`FileTools`: the runners are turns of several sessions of one server. A write
truncates and fills in two steps; the queue of a file is looked up by key and
dropped by its last user; the shell has a tree of processes. `McpHost`: the mutex,
the cache and the last error are separate; the pipe holds answers nobody waits for
any more; the server may leave any request unanswered, and `TimeOut` is enabled for
those that the code gives a limit.

### TranscriptView, ChatControl

`TranscriptView` has a record `v` for the view and an operator for each of its
methods; the environment commits the events of a turn in the runtime's order.
`ChatControl` has the chain of command tasks, the requests beside it and what the
server has been asked; a task that is aborted may leave a request adrift that still
reaches the server.

### Launcher, Readiness, Credentials

`Launcher`: launchers, servers, ports, token records and one database. `Readiness`:
one inspection while credential, health and listing change. `Credentials`: a bundle
is a generation number; each process has its refresh lock; the issuer accepts a
refresh token once. Every load and every store asks the keychain anew, and it may be
locked or unlocked between any two steps (`KeychainTurns`); its entry and its index are
written in two steps of a refresh (`Store`, `Index`), and a store may fail before either
(`"unsaved"`). The index and the two backends of a login or a logout are written in one
step, with the half-done outcomes beside the full one. `unsettled` collects the generations
whose place came into question: all that were issued when the keychain changed or a
logout failed half-way, and an entry that is passed by when its successor is stored.

### ReadModels, SessionBundles

`ReadModels` generates the logs a session can have and derives rows, trace, spans
and inspection from them as the five pieces of code do; a database of an older
version is migrated in the middle. An operator's command has a call id of its own and
no turn (`RequestOperatorTool`, `FinishOperatorTool`), and recovery closes it after the
interrupted turn. `SessionBundles`: replicas are machines with one
store each; `Scopes` are combinations of bounds.

## Runs

Passing runs:

* `store`: two turns, two messages, one of everything else, arbitrary callers.
  Two turns and two messages are what ownership, queue order and double claims
  need; the theorems cover every other size.
* `turns`: three turns, two messages, a steer, a request, and one each of
  cancel, failed turn, panic and restart, in every order. Three turns let a late
  worker meet a turn it did not start and a third one that it claims.
* `budget`: a limit that is set to 1 or 2 at any idle moment, a wake, a cancel,
  a queue clear. `turns` has neither budget nor wakes, to stay small.
* `progress`: two messages, a request and a wake, with enough turns for all of
  them, no cancels and no failures; the liveness properties. With
  `MaxClears = 1` `WakesClaimed` fails: a queue clear can unblock a wake, and it
  is no event the pump reacts to.

* `turn_steps` (`ToolRuns`, `ModelCalls`, `FileTools`): two call ids, two requests and
  three turns with two troubles, so that an id is used again after a restart; two
  model calls with two fragments per argument in each dialect, the second one with at
  most one tool call and no reasoning (parallel calls and signed reasoning come in the
  first), and two interruptions, steers or delivered messages, so that a call can be
  paused, steered and interrupted when it is resumed; three runners, two
  paths of one file and a file that does not exist yet.
* `related`: a root and two possible children, two messages, three turns, one fault
  or crash.
* `stream`: four events, late transactions of up to two, a channel of one, pages of two,
  one break and one refresh; events overtaken on the channel,
  lag, a replay in several pages and a refresh beside a running stream all happen.
* `agent_parts` (`ContextWindow`, `McpHost`, `Readiness`): histories of five messages
  over two turns; a worker and a handler, two openings, a reload; every connection
  kind with two changes of the world.
* `admission` (`Credentials`, `TurnSettings`): two turns, or a turn and a probe of another
  process, three generations, one mishap (also a store that fails, or fails half-way) and
  a keychain that is locked or unlocked once (twice holds too, and takes twice as long);
  three revisions by two patchers, two
  requests that may be tried twice, a wake and a restart.
* `durable` (`SessionBundles`, `ReadModels`): two machines; three events; two branches,
  reused call ids, a crash and an upgrade; a cancelled turn; an operator's shell command
  among the events of up to two turns, in logs of up to nine events.
* `terminal` (`TranscriptView`, `ChatControl`, `Launcher`): two calls and three lines
  with one trouble; two commands with a send and a load; two launchers and three
  servers on two ports.

The properties of these runs that are conjunctions of named parts, each part stated
with its own comment in the module:

| property | parts | says |
| --- | --- | --- |
| `TerminalsSound` | `ToolTypeOK`, `OneTerminal`, `TerminalHonest` | a request that stopped has one terminal event, which tells whether the tool ran |
| `CallsExact` | `ModelTypeOK`, `CallsWhole`, `OwnArguments` | the agent runs the calls the model made, each with all of its own arguments |
| `RequestsAccepted` | `RequestWellFormed`, `ReplayedToSigner` | roles alternate, also after pauses, steers and turns that were cut off, a call's result is behind it unless a delivered message divides them, signed reasoning goes to its signer |
| `EditsIntact` | `FileTypeOK`, `EditsKept`, `EditSeesWhole`, `ResultTruthful` | edits of one file keep one another, and results say what was done |
| `ObligationsSettled` | `RelatedTypeOK`, `LineageBounded`, `OneSettlement`, `ResultHonest` | one settlement per instruction, a result only for completed work |
| `FeedExact` | `StreamTypeOK`, `FeedComplete` | no repetition between cursor and stream, and no gap but for events overtaken on the channel |
| `RequestsFit` | `ContextTypeOK`, `UnitsIntact`, `FitsOrBare`, `PlannedIsBuilt` | calls stay with their results, requests fit, a summary as planned was written from what is left out, but for the oldest where the summarizer had no room |
| `AnswersMatched` | `McpTypeOK`, `AnswerOwn`, `SessionRenewed` | answers go to their request and come from the current session |
| `VerdictsRight` | `ReadinessTypeOK`, `VerdictExact`, `SetupOnlyForAuth`, `PickAccepted` | a verdict is what using the connection would show |
| `BundlesServed` | `CredTypeOK`, `StoredUsable`, `ServedLive` | the stored bundle can be refreshed unless the keychain changed under it, the served one was not due |
| `WorkHasItsRevision` | `SettingsTypeOK`, `RightRevision`, `RunsAsRecorded` | work runs under the revision it is recorded with |
| `BundlesFaithful` | `BundlesTypeOK`, `AcceptedKept`, `HeadsResolve`, `ImportedExact`, `DiffSound` | accepted events stay, heads have bundles, imports and diffs are exact |
| `ReadModelsAgree` | `ReadTypeOK`, `HistoriesAgree`, `RowsReplayed`, `SpansFaithful`, `InspectionSound` | what is derived from the log agrees with the log |
| `ShownOnceAndWhole` | `ViewTypeOK`, `ResultOnce`, `NothingDropped` | results once, nothing missing at the end of a turn |
| `AnswersOwnSession` | `ChatTypeOK`, `OutcomeOwn`, `LoadAlone` | answers are applied to the session they belong to |
| `LaunchesSafe` | `LauncherTypeOK`, `NeverStale`, `ExplicitKept`, `NoGhostTurn` | live servers, explicit choices, no turn left without a process |

The type invariants of `SessionStore` and `TurnControl` are proved and not among the
properties of the runs. `TurnControl!TurnsFinish` (every turn finishes) holds under
`MCTurnLiveness.cfg` too; `MessagesAnswered` needs it.

`CHECK_DEADLOCK FALSE` is set for all but `store`: a session, a terminal or a server
may stop when its operators do. Under `store` some operation is always possible.

One run shows where code and documents disagree (its trace is a schedule of the
code; `findings` in `PROJECT.json` quotes the sentences):

* `early_settlement`: turn 1 of a child finishes; its event makes the pump claim the
  next instruction and start turn 2; then turn 1's worker reads the obligations of
  the branch, finds the one turn 2 was started for and settles it with turn 1's
  outcome. The sender has its result before the work has begun, and turn 2's own
  result is never sent.

### Configurations outside the runs

The following formulas say what a document, a comment or a test says, or what one
would expect, and TLC finds them violated. They are not part of the runs.

With a configuration of its own (`tlc -config X.cfg MCTurnControl`; `TranscriptView`
for `MCReprint`, `EventStream` for `MCStreamLate`, `MCAdmission` for `MCKeychain`):

* `MCTurnRestart` (`MessagesAnswered`): a message queued before a crash is not
  dispatched by the next process: recovery fails the interrupted turn and claims
  wakes only; a new message is queued behind the one that waits.
* `MCTurnPanic` (`ActiveTurnIsSupervised`): a turn stays active with no task that will
  finish it. With `MaxPanics = 0`, `MaxCancels = 1` and `MaxMessages = 3` it fails
  without a panic: a worker whose turn was cancelled claims a queued message after
  another turn cleared the cancel, and ignores the claim.
* `MCTurnClear` (`NotRunAndDropped`): a message is dispatched and then recorded as
  dropped.
* `MCTurnLateCancel` (`CancelWins`): turn 1 finishes, turn 2 is admitted and cancelled,
  and turn 1's worker consumes that cancel; turn 2 completes.
* `MCTurnIdleSteer` (`SteersResolved`): a steer that comes too late for the worker stays
  pending, and from then on every message is queued behind it.
* `MCTurnIdleCancel` (`CancelCanBeSuperseded`): a cancel while an approval waits cannot
  be taken back.
* `MCTurnLateClaim` (`RequestsBlock`): a late worker dispatches the queue although the
  session waits for an approval.
* `MCTurnSteerTwice` (`SteerAppliedOnce`): a resume applies a steer that another turn
  applied.
* `MCReprint` (`TextOnce`): in a turn of two completions with tool calls the canonical
  messages arrive after all of the text was streamed; one that is no continuation of
  the text on screen is queued whole (`stream_state.rs:526`) and printed again;
  `docs/subsystems/tui-architecture.md:225` says an emitted portion is never emitted
  again.
* `MCStreamLate` (`NoneMissed`): a chunk is committed, the lock given back and a message
  committed and published before the chunk is; `stream_session_events` has sent the
  message and drops the chunk, whose `seq_id` is not beyond it (`main.rs:1005`). A live
  client never gets the event; only a replay or a page has it. The same can happen to
  the events of a spawned child session and of related-session steps.
* `MCKeychain` (`SpentOnceAnyway`): a bundle is loaded from the keychain, the keychain is
  locked while the token is at the issuer, the successor goes to `auth.json`, the
  keychain is unlocked: every load finds the spent bundle again and the next refresh
  presents it. `docs/subsystems/providers-auth-and-models.md:52` says that a refresh
  updates the backend that supplied the bundle. With `"unsaved"` in `Mishaps` and no
  change of the keychain the same happens past an entry whose index was not written
  (`KeychainStore::store` fails half-way): `AutoStore::store` asks the index, `load` the
  entry.

By naming the formula as an invariant of the component's run, with the constants given:

* `ToolRuns`: `OnceNotInherited` (a once decision of auto mode is found again by a later
  request with the same id and arguments); `OneTerminal` with `"panic"` in `Troubles`
  (the watchdog records no tool results); `ApprovedFirst` with `Approvers = {a1, a2}`,
  a third guarded invocation and no troubles (`resumable_tool_call` reads arguments and
  identity under two locks).
* `EventStream`: `CommandsShown` and `FinishedSeen`, with `CommitKinds` that include
  `"command"` and `"finished"` (the cursor is taken from the messages' answer).
* `ContextWindow`: `Remembered` (a message delivered between plan and build moves the
  boundary past messages the summary does not cover), `StaysCompacted` (a forced
  compaction does not last), `ElidedWereCovered` (the messages elided from the
  summarizer's input "are covered by the previous summary", `bt-context/src/lib.rs:1092`
  and the text at line 1131; on the first compaction of a branch there is none, and a
  later one elides the same messages again).
* `SessionBundles`: `ExportValid` (an export beside a commit fails its own validation),
  `LockHasOwner` (a killed push leaves `.heads.lock`).
* `Credentials`: `LogoutKept`; `SpentOnce` and `StoredUsable` with `EnvBundle = TRUE`.
* `ModelCalls`: `BrokenNoticed` (a stream that ends early is taken as complete by all
  adapters but `claude_cli`). `NeverDivided`, the result in the message after its call,
  as Anthropic requires it (compaction drops or keeps the two together,
  `bt-context/src/lib.rs:1206`, but nothing keeps other messages from between them), in
  three ways: a related session's message arrives while a call waits that has text of
  its turn before it, which is logged after the call, so the request reads call,
  message, text, result (`"deliver"`); a turn panics in a call (`"panic"`); a branch is
  created between a call and its result (`"fork"`, with `MaxModelCalls = 3`).
  `ResultsNext` with `"openai"`: the text that a paused turn logs stands between the
  call and its result, and OpenAI's adapter joins no messages.
* `McpHost`: `Freed`, `SessionFreed` without its premise (a server that does not answer
  `tools/list`, or `initialize` over stdio, holds the mutex for ever: there is no timeout
  around `list_tools` and `ensure_stdio_session`, `bt-mcp/src/lib.rs:223`, `:230`),
  `CacheRenewed` (a discovery fills the cache after a reload).
* `ReadModels`: `PendingTruthful`, `ApprovalsReplayed`, `LlmFailuresShown`.
* `TurnSettings`: `SteersNotOlder`, `ModelChosenForConnection`.
* `Launcher`: `WaitReachesChild` (a server writes its token record before it fails to
  bind), `OnlyDeadRecovered` (a second server recovers the turns of the first),
  `NoOrphan`, `SetupHonoured`.
* `Readiness`: `CliInventoryHonest`.
* `FileTools`: `QueuesFreed` (a harmless leak); `EditsIntact` with two paths to a file
  that is not there yet, as `FileOf` with `"link"` and `"new"` both leading to `"new"`:
  `mutation_queue_key` (`mutation.rs:16`) falls back to the path as given when
  `canonicalize` fails, so the file has two queues at once.
* `RelatedSessions`: `OneSettlement` with `<<"result", FALSE>>` in `Sendable` (a result an
  agent sends by itself settles nothing, and the runtime adds its own).
* `ChatControl`: `SendOwn` (a pending send survives a switch to another session, and its
  failure clears that session's live turn).

Every property of a passing run has a mutant: a variant of a definition, placed
before it, with a plausible mistake under which TLC finds the property violated.

### Fairness

`FairSpec` assumes weak fairness of every worker's and watchdog's next step, of
the second step of a handler, and of the pump: they are tokio tasks that are
spawned and never blocked but by the store's mutex, and every lock is released
before an await. It includes that a model call or a tool returns: providers
have timeouts and `wait_agent` has a deadline. Operators, models that ask or
fail, panics and crashes are under no obligation.

`StreamSpec` assumes weak fairness of the server's stream task, of the threads that have
committed events to send, and of the client's polling steps, timers included; breaks, lag and refreshes are not forced. That, and
nothing of the network, is what `LiveTranscript`'s liveness rests on.

`McpSpec` assumes weak fairness of the steps a request takes by itself, its timeout
included, and strong fairness of taking the mutex, because tokio's mutex is first come,
first served. Nothing is assumed of the server; `SessionFreed` states in its premise that
no request without a limit waits for ever.

## Proofs

`SessionStoreProofs` proves for all constants (`StoreAssumption`):

* `StoreTypeCorrect`: the type invariant, strengthened by `RequestsOwned` (a
  resumed turn takes its branch from the turn that made the request).
* `StoreOneActiveTurn`: from types alone; a turn starts only when none is
  active and ends only by its owner.
* `StoreTerminalIsFinal`: the action property, from `OneActiveTurn`.
* `StoreQueueOrder`: needs `MessagesNumbered`, since admission compares the new
  message with all earlier ones through `HasPendingWork`.
* `StoreControl`: cancel addressing and the budget are proved together: a turn
  starts only with no cancel and a budget left, and the budget's own cancel
  comes with the end of the turn.
* `StoreClaimedOnce`: needs `SourcesConsumed`, what a turn was started for is no
  longer claimable.
* `StoreNoTurnOverBudget`: the budget's part of `StoreControl`, as the run states it.

`TurnControlProofs` proves for all constants (`StoreAssumption`,
`ControlAssumption`):

* `ControlTypeCorrect` and `ControlImplementsStore`: every step of the process is
  one transaction of the store or leaves it alone. Needed besides the types:
  `RequestsOwned`, and `CursorKnown` (a task under way is at a turn).
* `ControlKeepsStore`: hence what the store promises to any caller holds of the
  running process.
* `ControlOwnsTurn`: `WorkerOwnsTurn` is not inductive. The watchdog of a task may
  finish the turn the task was spawned for whenever it is active; that this takes
  no turn from another worker needs `ContinuationAlone` (a turn claimed by the
  worker of another turn has no task of its own), and that needs `WorkerStarted`
  (a turn not yet started has no task).
* `ControlCancelHeard`: `CancelHeard` and `SignalExact`. A cancel finds the turn
  through the entry of `active_cancellations`, so the entry must stay with the
  registered turn (`RegisteredEntry`) although guards of earlier turns are dropped
  late; they belong to turns that have finished (`ConsumerDone`, with
  `OneActiveTurn`). `SignalExact` uses the store's `CancelAddressed`;
  `ControlSignalExact` states it by itself.
* `ControlPausedHasRequest`: not inductive either. Turns are started in the order of
  their numbers (`TurnsNumbered`) and the active one is the last (`ActiveLast`), so a
  pause is the session's last word only while nothing runs; and a worker on its way to
  record a pause has a pending request of its own (`PauseBacked`) that nobody takes
  away, because only the resumption of a turn resolves it.

`ControlOwnsTurn` and `ControlCancelHeard` split a step by what it does to the tasks
(`Move`: a task is spawned, stays, finishes its turn, claims more work, leaves, is
watched, or all are lost in a restart) instead of by action, and `Moves` shows that
every action is one of these.

`ToolRunsProofs` proves for all constants (`ToolAssumption`), for any number of calls,
requests, turns and approvers, with panics, failed appends and restarts:

* `ToolNeverReexecuted`. A request runs at most once because whoever may still come to
  run it holds one that has not run and does not wait for a decision (`Free`): the
  worker before its execution, and an approver between its claim and the detached task.
  That two approvals of one request do not both get there is `ResolvedNotPending`: the
  claim's own resolution is newer than every approval request of it. An approver that
  has claimed is the only one and no worker runs beside it (`ApproverOK`). Identifiers
  may repeat, so most of the proof is about which events belong to which request when
  the log grows (`BelongsStable`, `PendingStable`, `QuietKeeps`).
* `ToolGrantsAgree`: `GrantsOK` strengthens the property for the moment between a
  resume's claim and its seeding, where the log is one decision ahead (`Seeded`). A
  step that appends no resolution leaves what a restart reads alone (`Calm`).
* `ToolApprovedFirst`, for sessions in which at most one `approve_tool` request is in
  flight at a time (with two the property is false, see above). `ApprovedInv` says of
  every decision in the stores, in the log and in somebody's hands that it was made for
  a request of the invocation it is kept with (`MadeOK`), of the worker and of a claim
  that they hold the newest request of their call with its own arguments (`HoldsOK`),
  and that what stands before the execution is approved in the log (`ReadyOK`,
  `ClaimOK`). The two parts that are easily missed are about waiting: at most one
  request waits for an operator and nothing runs beside it (`AloneOK`), and therefore
  what a handler has read under the first lock is what it finds under the second
  (`ReadOK`); the second is where another handler comes in between.
* `ToolResultsHonest` and `ToolTerminalsSound`, from one invariant (`TermInv`). A
  request has a result as soon as nobody can give it one any more, so the invariant says
  who can: the worker has at most one request without a result in its hand, and that is
  of the active turn (`HandOK`, `TurnOK`), an approval that was asked for waits (`WaitOK`),
  a shell command answers for its own (`OperatorOpen`), and what a stopped process left
  behind belongs to turns and commands that recovery has yet to close (`LeftOK`). A
  request that gets its result leaves the others alone (`Settles`), and recovery closes
  a whole set in one step (`Closes`), each request once, because the list it works off
  has every member of the set once. Truth is `ResultOK`: a result that
  is about to be written agrees with whether the effect has happened.
  `ToolTerminalsSound` is for `Troubles` without `"panic"`, as the run's are: the
  watchdog ends a panicked task's turn and records no tool results, so with panics a
  request can stay open for good (see above). `ToolResultsHonest` holds with panics too.

`AdmissionProofs`, of `TurnSettings` (`SettingsUpdatesKept`, `SettingsWorkHasItsRevision`): a request
resolves a revision under one lock and commits under another. What it holds in between
stays true because revisions are never changed and the configuration changes only with
a restart (`RequestOK`, `Resolved`); a resumption's turn cannot wake up twice because
nothing starts while it sleeps (`ResumerOK`); the head of the queue leaves only with
its claim (`WorkerOK`).

`RelatedSessionsProofs`:

* `RelatedNothingStranded`, `RelatedWakeHeard`: with the types and that messages pass
  between known sessions the two properties are inductive; each is what the other's
  steps leave alone.
* `RelatedObligationsSettled`, from `ObligationsInv`. A message has a terminal reply
  when its settlement names one, and only that one (`AnswersOK`), which is more than
  that there are not two: a settlement that checks "unsettled" may then conclude
  "unanswered". `ReportsOK` says that a task which is about to report a result has a
  turn that completed; together with `ResultsOK` for what is already settled this holds
  on, because completed turns stay completed, through crashes too (`TurnsGrow`). The
  ancestors of a session are the least set that holds it and the parent of each of its
  members (what the `WITH RECURSIVE ... UNION` query returns), so a new child's are its
  parent's and itself (`LineageGrows`), and no induction is needed.

  It assumes `AgentsOnlyReport`: agents leave `result` and `error` to the runtime. The
  `send_agent_message` tool lets an agent write these kinds too (`parse_message_kind`), as a
  reply that settles nothing; the runtime then adds its own.
  `RelatedResultsHonest` states what does not need the assumption: the types, the limits
  of the lineage, and that a result settles only work that completed.

`EventStreamProofs`: `StreamFeedExact`, for the events that were not overtaken on the
channel (what the server has sent or received is decided by the order of `bus`, not by
that of the log), and `StreamImplementsLive`: every step of server
and client is one of `LiveTranscript` or a stutter. `Gapless` strengthens the first from
the newest frame in the pipe to every frame, also after the connection has broken
behind it; `LoadOK` says what a page that is still being fetched leaves out, which the
refinement needs when it is merged beside a running stream. The sets of `seq_id`s are
finite; the facts about their sizes come from the library's theorems.

`McpHostProofs` (`McpAnswersMatched`): the session's mutex is held by the peer in the
middle of a request (`Mutex`), and an open session is younger than the last completed
reload, which is what every operation under way began after (`Ages`).

`McpHostProofs`, of `SessionBundles` (`BundlesStayFaithful`, `BundleHeadsAppendOnly`), from
`BundlesInv`. Event ids are handed out once, so in all the logs there are (of stores, of
exports under way, in directories and in the registry) an event is at one place, after one
history (`Agree`): an appended event is new to every log (`LogAppended`), and whatever else
a step makes is a copy. That decides `session diff`. A push has known the heads of
`heads.json` since it created the lock file (`PushOK`), so the head it replaces is still the
one whose events its bundle extends, and a lock left by a killed push keeps everyone
out. A head resolves also when another manifest arrived first under its hash: equal hashes
mean equal events, and a valid bundle has the tip of its events as head (`PushedStored`). An
import is exact because an ordinal's rank gives every chunk a local id of its own, the
same for all its references (`LocalChunkRanks`), and a chunk row never changes. `None` is no
replica (`BundlesAssumption`), as an absent lock file names no process. What the model
takes a bundle's hash to be, the events, chunk references and artifacts, is the absence of
collisions of the code's hash.

`AdmissionProofs`, of `Credentials` (`CredSpentOnce`, `CredBundlesServed`), both under `~EnvBundle`: what
is exported in the environment no refresh replaces, and there the properties are false
(see above). The central part of the invariant is `Succeeded`: when the bundle the store
would hand out is spent, its successor is on its way into the store with a task of the
process that spent it, or was lost (with the answer, or because the store failed), or
the bundle is unsettled. A store may land in the other layer: then it went past an unlisted
entry, which is unsettled from then on (`WrittenLoads`), or the keychain has changed since
the load, which unsettles what was there. So the theorems hold with a keychain that comes and
goes, and say that a token issued after the last such change is spent once; that one from
before may be spent again is `MCKeychain`.

`AdmissionProofs`, of `FileTools` (`ToolEditsIntact`), from `FilesInv`. Two runners in the
middle of a mutation of one file would have one key (`JobOK`), so one queue (`EntryOK`),
so one mutex (`MutexOK`). `EntryOK`, that whoever has not cleaned up finds its queue under
its key, is what the count of references is for: a queue that leaves the map has no user
but the one that removes it (`LastUser`). Then a file nobody fills is whole and has
the edits it owes (`WholeOK`), and what an edit has read is still in the file when it
truncates it (`SeenOK`). The theorem assumes `NewByName`: a file that is not there at the
start is called by its canonical path. Without it the key of a file can change while a
mutation of it is under way, and TLC finds an edit lost (see above). The run's constants
satisfy it. `FileToolsAssumption` says that the runners are finitely many, which
the count needs, and that names like `"none"` are neither runners nor paths.

`TerminalProofs`, of `Launcher` (`LauncherSafe`): a launch past its readiness check holds a
supported connection, the chosen one if there was a choice (`ChoiceOK`). A port belongs to a
server that serves, that is, one past writing its record and recovering (`BoundOK`). What
a server remembers as gone is dead for good, and from its own write on the record of its
endpoint is that of a server that was not gone when it was spawned (`RecordOK`), whoever
overwrites it. `LauncherAssumption` says that the built-in local connection has a provider.

`TerminalProofs`, of `ChatControl` (`ChatAnswersOwnSession`, `ChatSerialOrder`), from one
invariant (`ChatInv`). Whatever is queued was issued in the visit to the session that is
shown, in the order of its ids (`QueueOK`), because a switch drops the queue; what it
leaves adrift is at most one request of the visit that ends, the one that was on its
way. So `OrderOK` can say that every write to come of a visit follows what the
server has carried out of it, which is the serial order. That the branch shown
exists needs more: numbers of branches grow with the requests that are carried out, and
the bound the type invariant gives them rests on counting the `create_branch` requests
that are no longer pending (`Done`, `BranchesOK`).

`TerminalProofs`, of `Readiness` (`ReadinessVerdictsRight`): an inspection is a sequence
of questions, and while nothing changes, what it has heard so far still holds (`TrueOK`):
past the credential and health questions the credential is good and the backend is up,
so its verdict is what using the connection now would show. `ShapeOK` says which step can
say what (an inspection that was cut off says "unreachable" and never "missing
authentication"), and `ChosenOK` that a model picked from a list is still in it.
`ReadinessAssumption` says that the Claude CLI connection knows at least one model, as its
constant list does: with none, an empty listing would pass for a ready connection.

TLC checked every one of these inductive invariants as an invariant before it was
proved, on bounds near those of the runs.

Only model-checked:

* everything under fairness, so of `ImplementsLive` the part that says the client
  catches up, and the other temporal properties but `HeadsAppendOnly` and the two the
  store's proofs list;
* the properties of `ModelCalls`, `ContextWindow`, `ReadModels` and `TranscriptView`,
  which are mostly about what folds and recursive definitions compute: induction over
  data is out of the prover's reach.

## Not modelled, and plan

Left out: wire formats, authentication headers, usage and cost records, search,
plan updates, full-text and paging queries, hardware-based model recommendations,
Markdown, widgets and the line editor of the terminal, the OTLP transport, OpenAPI and
DTO types. They are I/O and data without control state of their own.
