# matrixclaw in TLA+

matrixclaw is a daemon that runs an AI agent. Clients (a terminal, a Telegram
bot, an HTTP API) send messages to sessions; a message becomes a *run*, which
asks a model, executes the tool calls the model makes, asks the user to approve
some of them, may start children and wait for background commands, and ends as
completed, failed or canceled. Everything a run needs to go on after a crash is
in SQLite.

This directory holds TLA+ specifications of that machinery, the instances TLC
checks, and proofs of what holds for every instance.

    tlc -workers 2 -config RunLifecycleCalls.cfg MCRunLifecycle.tla
    tlapm RunLifecycleProofs.tla

## The system

| part | where | state it keeps | operations |
|---|---|---|---|
| run lifecycle | `core/runs.go`, `core/run_lifecycle.go`, `core/run_execute.go` | `runs` rows, registered executors, scheduled runs | accept, steer, cancel, start, claim, commit an outcome, follow up an end |
| recovery | `core/run_recovery.go`, `core/run_checkpoint.go`, `agent/recover.go` | `RunCheckpoint` rows | resume every active run at start, count attempts, settle calls without a result |
| approvals | `core/tool_approvals.go`, `core/tool_calls.go` | approval rows | request, decide, reject those of an ended run |
| waiting | `core/run_wakeups.go`, `core/await.go`, `agent/events.go` | `RunWakeup` rows | park, wake by a task, a message or a timer |
| agent engine | `agent/engine.go`, `agent/outcome.go` | the run's state and journal | one step after the other until an outcome |
| tool batch | `agent/batch.go`, `agent/tools.go` | slots of the batch's calls | admit, defer, launch, record, journal, drain |
| shell tasks | `core/shell_tasks.go`, `shelltask` | task rows, processes | move to the background, end, cancel |
| session inputs | `core/session_inputs.go` | queued and steering messages | queue, start the next, steer |
| tool scheduling | `agent/toolsched` | keyed locks, a batch's tails, model slots | begin, hold, start, leave, acquire, resize |
| event bus, live stream | `events/events.go`, `api/events.go`, `daemonclient/events.go`, `clients/terminal/chat/runtime` | history and subscribers' buffers; the client's view | publish, subscribe, drop; snapshot, reconnect |
| run ends | `core/run_lifecycle.go` (`runEnds`) | channels of waiting callers, threads that end a run | wait, begin, end |
| subagents | `core/subagents*.go` | child sessions and runs, their tasks, reservations | start, join, wait, cancel, recover |
| wake runs, goals | `core/task_wake.go`, `core/goals.go`, `core/goal_tools.go` | undelivered ends, the session's goal | note, wake, settle, continue, pause |
| automation | `automation/service.go`, `automation/sqlite_store.go` | jobs and fires | tick, run now, retry, advance, deliver |
| daemon, supervisor | `daemoncmd` | the lifetime context, module servers | start, reload, stop |
| deliveries | `core/deliveries.go`, `clients/telegram/delivery*.go`, `run_messages.go`, `run_render.go`, `render_state_file.go` | delivery rows; the bot's render states, receipts, retry deadlines and state file | list, show, retry, give up, acknowledge, save and restore |
| file checkpoints | `core/file_checkpoints.go`, `checkpoint/checkpoint.go`, `store/sqlite_file_checkpoints.go` | `file_checkpoints` rows; shadow repositories with an index and refs | snapshot, record, trim, prune, restore, undo |
| permissions, hooks | `permission`, `hooks` | rules | decide a call |
| API, clients, providers, external agents, tools, memory, voice, ... | the rest | | transport, presentation, I/O |

How they interact:

- A section under a session's *gate* (`session_gate.go`) is atomic among the
  sections of that session. What follows a section (starting a goroutine,
  publishing, waking) happens after the gate is released, from what was read
  under it.
- A run is executed by a goroutine, which first registers as the run's executor,
  then claims the run in the store. Anyone may start a goroutine for a run; the
  registration decides who executes it.
- What follows a run's end goes through the session in a fixed order: messages
  that missed the run, the goal's account, the next message, the ends of
  background work, the goal again. A task's end, an order of the user and the
  start of the daemon enter the same chain.
- A blocking agent call waits in the parent's batch for the child's end and for
  what follows it; the child's run is one like any other, with tools of its own
  in the same directory.
- Automation asks the core for a run named after the fire, so that a second
  request finds the first one's run.
- The Telegram bot polls the daemon's pending deliveries, reads the runs and
  messages they name, shows these in their chats and acknowledges.
- Before a batch that may change files, a run snapshots its working directory
  into a shadow git repository, which serves every directory of a work tree; a
  restore brings the files of one back while no run of its session is active.
- The executor calls the engine, which journals through the inbox; each tool
  runs on a goroutine of its own.
- A cancel commits the end first and stops the executor after it.
- Requests are served in the client's context, which ends when the client goes.
- The daemon's lifetime ends on a signal: executors are interrupted and waited
  for, nothing new starts. After a crash or a stop the next start lists the
  active runs and resumes each.

What makes it hard: a decision, a task's end or a timer that races with the run
parking for it; a cancel that races with everything; calls of a batch that run
while another of them asks; a crash between any two writes; goroutines started
twice for the same run; a follow-up that never comes because the client left; a
child whose parent is canceled, restarted or already gone; work that begets work
without end; a client that must not miss what happened while it was connecting;
a bot between two networks, either of which may take a call and lose its answer;
snapshots of several sessions that share a store which is pruned beside them.
`PROJECT.json` lists these hazards at their lines.

What makes each part correct:

- run lifecycle: a status moves along `runEdges` only, an ended run never
  changes, one executor owns a run, an accepted run is executed, a canceled one
  is let go of;
- approvals: a parked run goes on when and only when all are decided, none is
  left pending by an ended run;
- recovery: no call is passed over, none reruns without a fresh approval;
- waiting: a parked run has its wakeup, and wakes when its wait is over;
- tool batch: nothing runs past a mutating call that may still ask;
- shell tasks: a canceled run leaves no command running;
- session inputs: each message is taken, once and in order, by the right run;
- event bus: a subscriber sees every event or is told that it does not, and the
  view built from a snapshot and the events after it misses nothing;
- toolsched: calls that conflict never overlap, no key is kept that nobody
  uses, and every run ends unless agent calls clog its batch;
- subagents: the limit and the names hold whatever starts at once, a repeated
  call finds its child, an answer follows everything the child's end does, and
  every call returns;
- wake runs and goals: an end is told, and told once; what a user stops stays
  stopped; a chain of wake runs ends; an active goal goes on as long as whoever
  is to continue it stays;
- automation: one run and at most one set of deliveries for a scheduled time, and
  none passed over;
- deliveries: what is acknowledged was shown as it ended up, nothing is sent
  twice without a reason, and the user is told at last;
- file checkpoints: a listed checkpoint can be restored, undo goes back to the
  first checkpoint of the last changing run while it is kept, a restore can itself
  be undone and leaves runs at work alone.

## Modules

`RunContract` is what a run promises its clients: the status graph of
`runEdges`, and that a run waiting for approval goes on only when no approval of
it is open.

`RunLifecycle` is the machinery of one session's runs in detail, and implements
it. The store survives a crash (`LoseMemory` says what does not).

| variables | code |
|---|---|
| `status`, `ck`, `wakeup`, `steer`, `call`, `ap`, `task`, `delivered` | the rows of runs, checkpoints, wakeups, session inputs, the journal, approvals, tasks and their events |
| `due` | the time of a run's await against the clock |
| `exec` | where the run's registered executor stands (`activeRuns`, and its place in `execute`, `Engine.Run`, `run.step`, `runCalls`, `commitRun`) |
| `stop` | the cause of its context |
| `await`, `kept` | `RunState.Await`, `claimedRun.Batch.DeferredIDs` |
| `slot`, `result` | `batchCall.state` and the await of a call's result |
| `spawned`, `scheduled` | goroutines on their way to register; `scheduledRuns` within its lease |
| `cancel` | where `CancelRun` of the run stands |
| `jobs`, `told` | what follows a gated section and did not happen yet |
| `up`, `crashes` | the daemon's life |
| `ran`, `fresh` | history: calls that took effect; calls approved since |

One action is one gated section, one store write that others may see before the
next, or one step of the engine between such writes:

- clients: `AcceptRun`, `Steer`, `ResolveApproval`, `CancelRecord`;
- `CancelRun` after its record: `CancelFollow`, `CancelCommands`, `CancelStop`,
  `CancelAfter`, or `CancelGivenUp` when the client goes;
- follow-ups: `StartAccepted`, `StartRecovered`, `Resume`, `Wake`, `AfterRun`,
  `TaskFinished`, `WakeDueRun`, or `DropJob` when the client goes;
- claiming: `Register`, `LeaseLapses`, `ClaimRefused`, `ClaimRun`,
  `ClaimInterrupted`, `Unpark`;
- recovery: `FindLost`, `SettleLost`, `Recovered`;
- a step: `DenyCall`, `RunDecided`, `NothingDecided`, `CheckAwait`, `DrainEvent`,
  `AskModel`, `ModelCalls`, `ModelReplies`;
- a batch: `AdmitCall`, `LaunchBatch`, `RunTool`, `ToolStops`,
  `RequestApproval`, `RefuseCall`, `RecordCall`, `JournalCall`, `EndBatch`;
- leaving: `SettleApproval`, `SettleAwait`, `ParkInterrupted`, `EngineFails`,
  `EngineStops`, `CommitPark`, `SaveWakeup`, `CommitSleep`, `CommitEnd`,
  `FollowEnd`, `CommitFails`, `Release`;
- the daemon: `DaemonStops`, `DaemonExits`, `Crash`, `Boot`, `Recover`;
- time and commands: `TimeRunsOut`, `TaskEnds`.

What the data is abstracted to: a call is a number in the order the model makes
it, whether its tool is mutating and whether it is the await tool; what a rule,
a hook or the model decides is a free choice, also whether a reply without calls
ends the run or is followed by a note and a further step; an await is the set of
tasks it names, empty for any; the journal of a call is one of none, deferred,
journaled (started, no result) and answered.

`MCRunLifecycle` gives the instances. `RunLifecycleProofs` holds the proofs.

`SessionInputs` is the messages of one session over its runs, which it takes
from the outside: `run` is "active", "waiting" (`waiting_events`) or "ended".

| variable | in the code |
|---|---|
| `run`, `input` | `runs.status`; the rows of `session_inputs` (mode, target run, consumed) |
| `given` | history: how often a message was made a run's or journaled for one |
| `pc`, `todo` | where a thread stands, and the rows it read and has yet to write back |
| `asked` | runs and follow-ups that are to begin (`startRun`, `afterRun`, `wakeWaitingRun`) |
| `again` | interrupts that start the next message themselves (`AcceptRun` after `CancelRun`) |
| `stopped` | executors whose context `cancelActiveRun` canceled |
| `gate` | who holds the session gate |

A thread is a client's request, a cancel of a run, the executor of a run, what
follows its release, a wake of it, or the recovery at start. Its actions:
accepting (`AcceptIdle`, `AcceptBusy`, `StoreInput`), `CancelRun` (`ClientCancels`,
`CancelRecord`, `CancelStop`, `CancelCheck`), `afterRun` (`After`), the next
message (`StartNext`, `ConsumeInput`, `Marked`) or a run of the session's own
(`Idle`, `AcceptTriggered`), `wakeWaitingRun` (`BeginWake`, `Wake`), the executor
(`Claim`, `ListSteers`, `AppendSteers`, `ConsumeSteers`, `CheckAwait`, `Park`,
`EndRun`, `Stops`, `Release`), and `WriteRow`, one `UpdateSessionInput` of any of
them. A row is written as it was read, whatever happened to it since: that is
what the store does. Only sections under the gate exclude each other; the end of
a run, the executor's reads and writes, and `queuePendingSteersForRun` take no
gate. Approvals, tools and checkpoints of a run are left to `RunLifecycle`.
`SessionInputsProofs` holds the proofs.

`Automation` is the jobs of one session against a clock.

| variable | in the code |
|---|---|
| `job`, `fire`, `runs`, `delivered` | rows of `automation_jobs` and `automation_fires`; the runs fires started; client deliveries |
| `busy` | whether the session has an active run, which others decide |
| `pc`, `at`, `row` | where the tick, a run asked for now and a client's change stand, their fire, and the job row they will store |
| `due` | the due jobs the tick listed |
| `lost` | history: completed fires whose thread ended before the deliveries, or failed in them |

A tick (`Tick`, `FireNext`) or `RunNow` takes a fire through `CreateFire` or
`DuplicateFire`, `AcceptRun` or `LeaveRunning`, `GiveUpBusy`, `RefuseTrigger`,
then `CompleteFire` or `FailFire`, `Deliver` or `DeliverFails`, and
`ReadToAdvance`, `StoreAdvanced`, which store a whole row as it was read; so
does a client's change (`ReadToChange`, `StoreChanged`). `Crash` ends all
threads, `GiveUp` the client's.

`EventStream` is a record's way into the terminal's view: `Store` and `Publish`
are two steps of a writer; `Forward`, `EndStream`, `Break` the SSE handler and
the connection; `Subscribe`, `BeginSnapshot`, `ReadRecord`, `HandleSnapshot`,
`TakeEvent`, `StreamEnds`, `SnapshotFails` and `Reload` the terminal, which
subscribes first, keeps what comes early, reads the snapshot record by record
and drops the events its ID covers (`floor`). Of the events applied to a record
the last one shows (`Applied`). `Fail` is what every error does.
`Restart` starts the numbering again, and `life` tells one daemon from the next.
`StreamInit`, `StreamNext` and the rest of its specification carry the module's
name, so that `ClientProofs`, which holds the proofs, can extend this module and
`TelegramDelivery` at once.

`Subagents` is the children of one run. A call goes through `StartSubagent`
(reservation and name), `Rejoin` or `Record`, `StartChild`, and for a blocking
one `Look`, `Decide`, `Woken`, `Answer`. A child's end has up to three threads at
once (`Enders`: its executor, the cancel of the run, a cancel of its own), each
with `Begin`, `Commit`, `Sync` and `End` as in `transition` and `runEnds`.
`Cancel`, `CancelTask`, `CancelParent` and `Halt` are the cancel of the run in
the order of `CancelRun`, `Recover` and `RecoverTask` the start after a crash.
`SubagentsProofs` holds the proofs.

`ToolLocks` is the scheduling of a run's calls and of the calls its children
make. `Begin`, `Hold`, `GiveUp`, `Start`, `Return`, `Unlock`, `Leave` are the
life of a call under its key (`entry`, `uses`, `slot`: `Locks.held`, an entry's
`users` and its one-slot channel) and in its batch; `Acquire`, `Reply` and
`Resize` the model slots of `Semaphore`. `Cancel` stops a run with its children,
`Fail` the calls of a batch that met an error; its children are stopped when the
run ends (`BatchEnds`). `Clogged` is the one way in which a run waits for ever.

`SessionWork` is what a session starts by itself.

| variable | in the code |
|---|---|
| `runs`, `goal` | the session's runs, with their trigger and whether a message reached them, and its goal |
| `queued`, `steers` | the messages that wait, and those for the next step of a run |
| `task`, `starter`, `delivered`, `told` | background commands, the ends a run was told and how often they are in the history |
| `jobs` | what follows a run's end, a task's end, an order or the start, and its next step |
| `notes`, `written`, `readers` | the ends a wake run, or a run at work, is still to be told |
| `gone` | history: a client left the session idle, and no run started since |

Messages are `Send`, orders `SetGoal`, `Pause`, `Resume`, `Clear` and
`CancelRun`; a run does `TakeSteers`, `StartTask`, `ReadEvents`, `NoteEvent`,
`ConsumeEvent`, `StopReading`, `UpdateGoal`, `EndRun`; a job goes through
`Look`, `Settle`, `NextMessage`, `WakeSession` (with `WriteNote`,
`MarkDelivered`) and `ContinueGoal`, each under the gate, as `afterEnd` does.
The jobs of an order and of a cancel are served in the client's request:
`DropJob` is a client that goes before they are. `Crash` and `Boot` lose the
jobs and start one for each idle session with something left to do.

`TelegramDelivery` is the way of runs and notices into Telegram chats.

| variable | in the code |
|---|---|
| `status`, `reply`, `asked` | the runs, the assistant messages of each, the approvals that are pending |
| `delivery` | the rows of `client_deliveries` |
| `chat` | what a chat shows: for each reply, request, end or notice the messages sent for it |
| `pc`, `at`, `left`, `seen` | where `deliverPendingDeliveries` stands: its delivery, the listed ones left, the status `GetRun` answered |
| `mem` | `Worker.states`: a run's cursor (`afterSeq`), its messages, and what was sent of them |
| `receipts`, `waiting` | `deliveryReceipts`, `deliveryRetryAt` |
| `file` | the render state file |

`Poll` and `DeliverPendingRun` (a user's cancel) begin a pass under the lock,
`NextDelivery` takes up one delivery after the other and `EndPass` saves. A run
goes through `GetRun`, `RunMessages`, one `Show` for each message sent or edited,
`AllShown`, and, when it has ended, `Acknowledge`; a notice through `SendNotice`
and `Acknowledge`. Each call may fail (`Fails`), be refused for as long as a chat
is flooded (`Refuses`), or take effect without an answer (`Doubt`); then the
chat is left until its `Deadline`, or the delivery is given up. `Stop` saves or,
as a crash, does not; `Start` restores what the file says. A reply is a part or
whole, which is all its text is to the bot: whether it may still change.
`ClientProofs` holds the proofs.

`FileCheckpoints` is the checkpoints of sessions that work in directories of one
git work tree.

| variable | in the code |
|---|---|
| `disk`, `version` | what each directory holds: a number for each content it had |
| `index`, `objects`, `young`, `old`, `gcDue` | the shadow repository: its index, the trees it has, those with a ref within `refGrace` or older, whether garbage is due |
| `rows`, `lastID` | `file_checkpoints` and its row ids |
| `active`, `runs`, `pc`, `tree`, `target` | the sessions' runs and restores, where each stands, the snapshot it took, what it goes back to |
| `lock`, `prunes` | who holds the repository while files are written; the background prunes |
| `undo`, `changed`, `calm` | history: the first checkpoint a run recorded, whether the run then changed files, whether a restore's directory was left alone |

A run begins (`StartRun`) and takes a checkpoint before each batch:
`CheckpointBatch`, `Record`, `Trim`, or `SkipCheckpoint` when one of them fails
(a snapshot before or after it staged the directory, `HalfSnapshot`), and then
`WriteFiles`. A restore is `AskRestore`, `CheckpointRestore` with the
same `Record` and `Trim`, `Compare`, then `Checkout` or `CheckoutFails`, and
`Answer`, or `GiveUp` anywhere. A prune reads what the rows keep (`ListTrees`)
and later drops the rest (`Prune`). `Hour` passes both of the repository's
periods, `Edit` is the user, `Restart` ends requests and prunes. A snapshot is
git's tree of the whole index, so it names the last staged state of the other
directories too: that is how two directories share a repository's refs.
`MCFileCheckpoints` adds the symmetry of the sessions of one directory.
`FileCheckpointsProofs` holds the proofs.

Operators whose name has a suffix (`Release_WithCause`) are mutants, a plausible
bug each, listed in `PROJECT.json`; nothing uses them. Each shows that the
property beside it can fail.

## Runs

| run | instance | shows |
|---|---|---|
| `calls` | one run, two mutating calls, two stops or crashes, one recovery allowed, requests may end | `ModelSeesAnswers`, `RerunApproved`, `BarrierHolds`, and the refinement `KeepsContract` |
| `live` | one run, one mutating call, one command, one stop or crash, up to two goroutines, fairness | `ExecutorOwnsRun`, `CanceledIsStopped`, `AcceptedStarts`, `DecidedResumes`, `CanceledLetsGo` |
| `wakes` | one run after an earlier one that left a command running, one await call, one stop or crash, no cancels, fairness | `ParkedHasWakeup`, `OverWakes` |
| `inputs` | three messages queued or steering, two runs of theirs or of the session's own, one of them canceled | `OneActiveRun`, `InOrder` |
| `inputs_live` | two messages, steers and interrupts, one crash, fairness | `ConsumedWasGiven`, `MessageTaken` |
| `automation` | a job that runs once and one that repeats, two times, one of them asked for now, one change, one crash, refusal or failed delivery, fairness | `OneRunPerSchedule`, `PassesOnlySettled`, `DeliveredOnce`, `DueSettles` |
| `stream` | two records of two versions, a channel of one, a wire of one, one break, one restart, fairness | `ViewHasAll`, `CatchesUp` |
| `subagents` | two agent calls, one or both in the background, a limit of one, one cancel or crash, fairness | `StartsKeepLimit`, `CanceledIsNoEvent`, `AnswersAfterEnd`, `CallKeepsChild`, `CallsReturn` |
| `locks` | one run with a batch of three calls and two slots, two of them agent calls whose children make a call, one cancel or failing batch, one resize, fairness | `KeyExclusive`, `KeysForgotten`, `RunsEnd` |
| `session_work` | one command, a goal of one run, a chain of two, one act of the user or crash, one canceled run, clients that go, two jobs at once, fairness | `ToldOnce`, `WakesHeedStops`, `GoalHeedsStop`, `EndsAreTold`, `GoalGoesOn` |
| `telegram` | a run of two replies, a notice in a chat that may refuse for ever, one failing call or restart, fairness | `AcknowledgedIsShown`, `SentOnce`, `UserIsTold` |
| `checkpoints` | two sessions of one directory that keeps four checkpoints, two runs, six checkpoints, one restore, one failure, crash or client that goes | `ListedIsKept`, `UndoIsRunStart`, `RestoreIsUndoable` |

The bounds, and why they are enough:

- `RunLifecycle`: two calls are what a barrier, a deferral and a batch of more
  than one need; the second may be in the first's batch or in one of its own.
  The order of three adds only more of the same pairs. A session has one active
  run at a time (`AcceptRun`), and what an earlier run leaves behind is the
  second run of `wakes`. Two crashes (`MaxCrashes`) let a crash hit
  the recovery of a crash, and go past a recovery limit (`MaxRecoveries`) of
  one. `MaxSpawned` bounds how often the schedule lease lapses before a
  goroutine registers: two are enough to race for the registration.
- `SessionInputs`: three messages are one that makes the session busy and two
  behind it, which is what an order needs. `Runs` bounds the runs of a session.
  The runs that clients cancel (`Canceled`) and whether the session starts runs
  itself (`Triggers`) are parameters, to keep each instance small.
- `Automation`: one job of each kind, and a batch (`DueBatch`) of one, so that
  one is left for the next tick; two times are one schedule and the one that
  follows it; `BusyWindow` of one is passed within them.
- `EventStream`: a channel of one is full as soon as one event waits. Two
  records are needed for a snapshot that has read one and not the other.
- `Subagents`: with a limit of one two calls compete for it. Two attempts
  (`MaxFaults + 1`) are a call and its repetition after a crash.
- `ToolLocks`: two agent calls and one edit meet in every pair of kinds (`Kinds`
  are chosen at the start), on two keys. The batch has two slots (`Parallel`,
  eight in the code) for its three calls, so that a call waits for a slot while
  it holds a key, and the two agent calls can fill the batch.
- `SessionWork`: a chain of two is over after two wake runs and is not after
  one; that a third is refused takes more than one command and is left to the
  proof (`ChainIsBounded`). One act of the user or crash keeps all orders and
  all places of a crash, each alone; beside it one run is canceled
  (`MaxCancels`), and clients go as they like. Two jobs at once are two
  follow-ups that race for the gate; the proofs need none of the bounds.
- `TelegramDelivery`: of two replies one is passed by the cursor while the other
  grows. `MaxFaults` bounds the failing calls of the chats that are not flooded
  and the restarts, together. One delivery per chat and a flooded chat for the
  older one ask whether one chat holds up another.
- `FileCheckpoints`: keeping four checkpoints (`Keep`, 50 in the code) lets a
  run's first and newer ones of both sessions be there at once, with one of a
  restore among them; with six rows (`MaxRows`) the directory is trimmed twice,
  which may drop a run's first one. Two contents besides the
  first let a directory change twice, and a restored one differ from both. Two
  runs are one in each session or two of one, which undo must tell apart. The
  proof needs none of the bounds.

Two more instances hold and are there to check by hand, as they take longer or
ask nothing new: `RunLifecycleWaits.cfg` (`TypeOK`, `ExecutorOwnsRun` and
`ParkedHasWakeup` of an awaiting run with steers, cancels, two goroutines and
requests that end) and `TelegramDeliveryFaults.cfg` (two faults).

`CHECK_DEADLOCK FALSE` in each: a session whose runs have ended, and whose model
made all its calls, rests.

Fairness of `RunLifecycle` (`Fairness`): goroutines that can go on do
(`Executes`), what was begun for a run is done (`Serves`: follow-ups of gated
sections, a cancel under way, the ticker of wakeups), and the service manager
starts the daemon again (`Daemon`). Nothing is assumed of clients, of timers, of
commands or of crashes. A tool that never returns would block its run; that it
returns is the one thing the fairness takes from outside the code.

In `SessionInputs` each run's executor, its wakes that were asked for, and what
follows it go on with strong fairness (`Works`, `Wakes`, `Follows`), as does each
request (`Answers`) and the recovery at start: the gate is a Go mutex, which lets
every waiter in at last. Timers and tasks that end a wait owe nothing, so
`MessageTaken` has to name the two messages that are left behind a waiting run: a
reply-once message, which does not wake it, and an interrupt whose cancel a crash
cut off.

In `Automation` the ticker ticks, time passes and each thread goes on; nothing
frees a busy session, which is why a busy reminder has a window. In
`EventStream` each writer publishes what it stored and the handler and the
client each go on; nothing must be written, and streams break as often as
`MaxBreaks` lets them. `Subagents`, `ToolLocks` and `SessionWork` assume one weak
fairness of all work together, the least that can be asked: that the whole does
not stop while some goroutine can go on. It suffices there because every
execution of these instances comes to rest.

Two things stop that work for good, and the properties except them by name. In
`ToolLocks` a batch may be clogged by its agent calls (`Clogged`, in `RunsEnd`).
In `SessionWork` a client may go (`DropJob`): `SetSessionGoal` and
`ChangeSessionGoal` save the goal and then continue it in the request's context,
and so does `CancelRun` with what follows a run that has no executor. Then an
active goal, or the end of a command, stays in an idle session (`Forsaken`, in
`GoalGoesOn` and `EndsAreTold`) until a message, another end or a restart.
What the daemon itself began, the follow-ups of a run's and of a command's end
and those of the start, runs in its lifetime and is lost by a crash only.

In `TelegramDelivery` the pass goes on, its loop begins another (strongly fair:
the timer fires again and again and the lock is a Go mutex), a stopped bot is
started again and deadlines pass. A run need not end, an approval need not be
decided, and a flooded chat refuses as long as it likes.

The liveness properties of `RunLifecycle` hold for requests that are served to
their end (`RequestsEnd = FALSE`). With a client that may go between storing its
decision or message and the resume, a parked run can stay parked until the next
start or its timer; the hazards list this.

### Where the code differs from what it says, or from what one expects

Instances to check by hand,
`tlc -config <cfg> <module>`: each finds its property violated.

- `ToolLocksFull.cfg`, `CallsReported`: a call takes its key before its slot of the
  batch. When blocking read-only agent calls fill the batch (here of two slots), a
  further command of the batch has the directory's key and waits for a slot, while
  the children's commands wait for that key: none of them is ever reported,
  although `toolsched/batch.go:16` says that every started call is, exactly once.
  Only a cancel ends it.
- `FileCheckpointsShared.cfg`, `ListedIsKept`: a prune is given the trees that
  the rows of *one* directory keep, but prunes the repository of all directories
  of the work tree. Refs that the others' rows keep are dropped once they are an
  hour old, and garbage collection makes these checkpoints impossible to
  restore. `docs/CHECKPOINTS.md:49` says that "the refs no row keeps are
  dropped".
- `FileCheckpointsRace.cfg`, `RestoreSparesRuns`: `RestoreFileCheckpoint` looks once
  whether a run is active and then takes a checkpoint, which can last a minute.
  A run that starts meanwhile has its files replaced, where
  `file_checkpoints.go:158` says "while no run is active".
- `FileCheckpointsUndo.cfg`, `UndoReachesRunStart`: a directory keeps 50
  checkpoints. A run that takes more, or others in its directory, trim the run's
  first, and undo goes back to its oldest one left instead of to before the run
  (`docs/CHECKPOINTS.md:70`).
- `FileCheckpointsFinds.cfg`, `RestoreFinds`: the checkpoint a restore takes of
  what it replaces may trim the one it goes back to, when that is the oldest,
  and a prune between the two steps may collect it: the checkpoint the user
  chose from the list is gone.
- `SessionWorkGone.cfg`, `GoalAlwaysGoesOn`: setting or resuming a goal saves it and
  continues it in the request's context (`goals.go:66-77`, `goals.go:112-114`,
  `api/goals.go:29,38`), and canceling a run without an executor does what follows
  its end there (`runs.go:285-289`). A client that goes between leaves an active
  goal in an idle session, with nobody to continue it until a message, the end of
  a command or a restart.
- `RunLifecycleOrphan.cfg`, `EndedLeavesNoApproval`: `requestApproval` does not
  look at the run's status. Between the moment `CancelRun` rejects the run's open
  approvals and the moment it stops the executor, a call can ask: its approval
  stays pending for good.
- `RunLifecycleGivenUp.cfg`, `CanceledIsStopped`: `CancelRun` serves the
  request's context. A client that goes after the record leaves the executor of
  a canceled run working, and canceling again does nothing as the run has ended.
- `RunLifecycleCommand.cfg`, `CanceledLeavesNoCommand`: `CancelRun` lists the
  run's running commands before it stops the executor. A command moved to the
  background in between keeps running.
- `SessionInputsTwice.cfg`, `InputRunsOnce`: a steer misses its run. What follows
  that run's end reads it to queue it, without the gate; meanwhile another
  message runs, and what follows *its* end queues the steer, starts it and marks
  it consumed. The first then writes the row it read, pending: the message runs
  again.
- `SessionInputsOnce.cfg`, `ReplyOnceOwnRun`: `steerQueuedInputs` does not look
  at `ReplyOnce`: a reply-once message queued for a run of its own becomes a
  steer of the run it waits behind when that run waits for events, and its
  address gets no reply.
- `AutomationNow.cfg`, `RunningSettles`: a run asked for now of a busy session
  leaves its fire running. `service.go:352` says that the next tick tries it
  again, but ticks look for due jobs, and its schedule is none of theirs.
- `SubagentsStop.cfg`, `CanceledChildrenStop`: a child canceled with its parent
  before its executor claimed it is recorded as canceled and its executor is
  not told; a child whose task is recorded after the cancel listed the tasks is
  not canceled at all.
- `TelegramDeliveryCanceled.cfg`, `CanceledIsShown`: a cancel commits the run's
  end, and its executor seals the reply after it. A pass between the two shows
  the part there is, acknowledges, and never shows the rest.
- `TelegramDeliveryLong.cfg`, `AcknowledgedIsShown`: a bot that holds no cursor
  of a run, as after a restart, loads the newest 200 messages only
  (`run_messages.go:13`). A run that has more is acknowledged without the first.
- `TelegramDeliveryStarved.cfg`, `UserIsTold`: a pass lists the 20 oldest pending
  deliveries (`delivery_queue.go:29`). As many runs that do not end, and whose
  deliveries therefore stay pending, keep all newer ones from being listed.
- `EventStreamShared.cfg`, `SharedCatchesUp`: two threads store and publish a
  run's row, a cancel and the executor. Their events may come in the other order
  than their writes, and the view keeps the older status.

## Proofs

`RunLifecycleProofs`, for any runs, calls, tasks and bounds, from the named
assumptions on the constants only:

| theorem | says |
|---|---|
| `TypeCorrect` | `Spec => []TypeOK` |
| `LifeInvariant` | `Spec => []LifeInv` |
| `ExecutorOwnership` | `Spec => []ExecutorOwnsRun` |
| `ParkedKeepsWakeup` | `Spec => []ParkedHasWakeup` |
| `BatchInvariant` | `Spec => []Batch` |
| `BarriersHold` | `Spec => []BarrierHolds` |
| `ModelAskedAnswered` | `Spec => []ModelSeesAnswers` |
| `RerunsApproved` | `Spec => []RerunApproved` |
| `CanceledStops` | `RequestsEnd = FALSE => (Spec => []CanceledIsStopped)` |
| `ContractKept` | `Spec => KeepsContract`: `RunLifecycle` implements `RunContract` |

`ParkedHasWakeup` is not inductive. A run parks in three steps: the engine finds
its await not over (`sleep`), the wakeup row is saved (`save`, then `seal`), the
status is committed. `Parked(r)` says what is there after each: the await before
the row is written, the row before the status is. A cancel may clear the row in
between; then the run has ended, which is why `Owned(r)` is needed: a cancel
under way has recorded the end (`cancel[r] # "no" => status[r] = "canceled"`),
an executor that clears the row follows an end, and a working executor's run is
running or ended, so that nobody else parks, claims or starts it. The
conjunction `LifeInv` is inductive.

Of `BarrierHolds`, `ModelSeesAnswers` and `RerunApproved` none is inductive: a
call's slot in its batch, its rows in the journal and among the approvals and its
mention in the run's checkpoint are written one at a time, and recovery reads
them back. `Batch` says for each call how these go together: where its executor
must stand for it to be in a batch (`Placed`), that nothing behind a call not yet
admitted and behind a barrier that asks was admitted (`Ordered`), what is
journaled and decided before it begins (`Begins`), that a call which changed
something since its approval is on no way to run again (`Reruns`), that one with
neither answer nor decision is in the open batch, or was left by a crash and
recovery has not settled it yet (`Settled`), and that all are answered from the
last decision to the model (`Answered`). It is proved on top of `LifeInv`, action
by action.

`CanceledIsStopped` needs the place of the cancel: `Told(r)` says it is before
the step that stops the executor. A registration during the cancel is harmless,
as the claim refuses an ended run.

The refinement needs `LifeInv` for the commits (an executor that parks or ends a
run owns it) and `Known` for the start that fails (only an accepted run is
started). All other steps leave every status alone, which the contract allows.

`SessionInputsProofs`, for any messages, runs, modes, triggers and crashes:

| theorem | says |
|---|---|
| `GateKept` | `Spec => [](GateInv /\ Down)` |
| `OneRunActive` | `Spec => []OneActiveRun` |
| `NoneConsumedUnseen` | `Spec => []ConsumedWasGiven` |
| `StartsInOrder` | `Spec => InOrder` |

`OneActiveRun` alone is not inductive: `ConsumeInput` starts a run in a session
it found idle one or more steps ago. `GateInv` adds that the threads in a section
are those that hold the gate and are at most one (`Exclusive`), and that a
session being settled is idle (`Settling`): whoever could start a run there takes
the gate. `Down` says that no thread outlives a crash, so that the recovery
enters a free gate.

For `ConsumedWasGiven` the invariant speaks of the rows that threads have read
and not yet written (`Writing`): such a row is of a message that was given, or
is stored as pending. The executor between listing its steers and journaling
them is the one exception, and after it has journaled them all its rows are
given; this is the order of `appendSteers`.

`InOrder` is about the step that gives the first message in line a run: every
earlier one is given by then. Messages are stored in their order (`Arrived`,
`Accepting`) and one that is a run's is taken, so an earlier one that was not
given is pending; it is no steer, as the thread that settles the session under
the gate has stored the steers it found as queued (`Covered`), and nobody adds
one meanwhile; so it would be first in line. `Plans` says what each thread may
hold to write, which keeps a late write from changing this.

`SubagentsProofs`, for any calls, modes, limits, cancels and crashes:

| theorem | says |
|---|---|
| `StartsInvariant` | `Spec => []IInv` |
| `TypeCorrect` | `Spec => []TypeOK` |
| `LimitAndNamesKept` | `Spec => []StartsKeepLimit` |
| `AnsweredAfterEnd` | `Spec => []AnswersAfterEnd` |
| `CanceledUntold` | `Spec => []CanceledIsNoEvent` |
| `ChildKept` | `Spec => CallKeepsChild` |

`StartsKeepLimit` speaks of tasks, while a start is counted from its reservation
on: `Limited` and `Distinct` count both, and `Reserved` says that a call holds a
reservation exactly while it is about to record its task. `Tries` says that a
call's children are its first attempts, one more than the crashes at most, so
that a name and a child are there for the next. `AnswersAfterEnd` rests on what
`Decide` looks at: a thread that ends a child is listed before it commits and
until it is through, and past its commit the child has ended (`Ends`). The same
part says who cancels: a child is canceled when its task was ended before or when
it was canceled for itself, which is what `CanceledIsNoEvent` needs.

`ToolLocksProofs`, for any runs, batches, slots, resizes and cancels:

| theorem | says |
|---|---|
| `LocksKept` | `Spec => []LockInv` |
| `KeysExclude` | `Spec => []KeyExclusive` |
| `KeysAreForgotten` | `Spec => []KeysForgotten` |

Neither property is inductive: both speak of who holds and waits, while the code
keeps a count of users in an entry and one slot beside it. `LockInv` ties them:
a call that entered its key's queue counts in the entry the table has for that
key (`Counted`), one that holds is in the slot of that entry, and an entry in the
table is named by a call of its key and used by one (`Named`). That a call leaves
after it gave its slot back is what makes `Leave` safe.

`AutomationProofs`, for any jobs, times, windows, changes, failures and crashes:

| theorem | says |
|---|---|
| `FiresKept` | `Spec => []FireInv` |
| `OneRun` | `Spec => []OneRunPerSchedule` |
| `NonePassedOver` | `Spec => []PassesOnlySettled` |
| `OneDelivery` | `Spec => []DeliveredOnce` |

`OneRunPerSchedule` rests on the id of a fire: it is given once, however often
the fire is created again, so the run named after it is one (`Shape`). The rest
is what a thread knows of the fire it serves (`Serves`): a fire is settled before
its job's row is read to be advanced, and only the thread that settled it
delivers. That a tick and a run asked for now never serve the same fire keeps
one's knowledge true across the other's steps; clients that change a job store
what they read, which was settled then and stays so (`Changes`).

`SessionWorkProofs`, for any tasks, allowances, chains, orders and crashes:

| theorem | says |
|---|---|
| `WorkKept` | `Spec => []WorkInv` |
| `WakesStop` | `Spec => []WakesHeedStops` |
| `ChainIsBounded` | `Spec => []WakesAreFew`: no more wake runs in a row than `WakeChain` |
| `GoalStops` | `Spec => GoalHeedsStop` |
| `BalanceHolds` | `Spec => [](WorkInv /\ Reading /\ Balance)` |
| `EndsToldOnce` | `Spec => []ToldOnce` |

Every start is of an idle session, so only the newest run can be running
(`NewestOnly`): a wake or goal run looks at runs that have ended, and its look
stays true. The account of a goal needs that the run it counted last has ended
(`Counted`) and that an active goal counted no stopped run since it was set or
resumed (`Heeds`). A chain (`Chain`) is longer only by a wake run that starts in
a session whose chain has room left, and a message that reaches one of its runs
cuts it, so `WakesAreFew` is inductive beside `WorkInv`. `ToldOnce` is a matter
of balance: for each command, the notes in the history, the ones still to be
written and the end itself while undelivered exceed one by no more than the
crashes and the canceled runs so far (`Balance`), as only these separate a note
from its mark; `Reading` says that a run is read for by one reader, which is a
run that runs or was canceled.

`ClientProofs` is about the daemon's two clients. The Telegram bot, for any
deliveries, chats, limits and faults:

| theorem | says |
|---|---|
| `TypesKept` | `Spec => []TypeOK` |
| `SentOnceKept` | `Spec => []SentOnce` |
| `AcknowledgedKept` | `MaxReplies <= FirstLoad` implies `Spec => []AcknowledgedIsShown` |

`SentOnce` counts: an item that was sent more often than there were losses and
restarts so far is known to be sent (`Counted`, `Known`): it is in the run's
render state, its delivery is in the receipts or about to be, or is no longer
pending. So whoever sends it again had one more reason.

`AcknowledgedIsShown` follows a reply from the store to the chat. All replies of
a run but the last are whole, and all of one that completed or failed
(`WholeReplies`). What the cursor has passed is viewed whole, and what is viewed
whole is whole in the store (`ViewHolds`); without the assumption the first load
would leave a gap below the cursor. What is remembered of a reply, in the render
state or in the file, is its newest message, and one remembered as whole is shown
so, also after an edit whose answer was lost (`MemoryHolds`). A status read once
the run has ended stays true (`DoneIsShown`), so that everything is whole when
the pass finds nothing left to show. The invariant also says that the pass serves
a pending delivery, which is what forbids a second acknowledgement (`Serving`).

The terminal, for any records, buffers, failures and restarts:

| theorem | says |
|---|---|
| `StreamTypeCorrect` | `StreamSpec => []StreamTypeOK` |
| `StreamKept` | `StreamSpec => []StreamInv` |
| `ViewComplete` | `StreamSpec => []ViewHasAll` |

`ViewHasAll` says what shows and nothing of what is on its way, so it is not
inductive. `LogHolds` is about the bus: an event's ID is its place, and a record
that one thread writes is published in the order it was stored in, none of it
newer than the store. `Place(n)` is about a client that took the events up to
place `n`: what the connection and the channel hold are the next ones without a
gap, up to the newest as long as it is subscribed (`Follows`); what it took before
the snapshot is all since it subscribed, which was before the snapshot's ID was
read (`Holds`); and what the snapshot read so far, or the view, has every event of
the places it must (`Has`). A subscriber who is closed keeps what was handed to
it; that the rest is missing shows only when its stream has ended, and then it
starts again. A restart ends all this until the client subscribes to the new
daemon. The shared records are left out: they are what
`EventStreamShared.cfg` shows to go back.

`FileCheckpointsProofs`, for any sessions, directories, bounds and faults:

| theorem | says |
|---|---|
| `TypeCorrect` | `Spec => []TypeOK` |
| `OneDirectoryKeeps` | `Dirs = {d}` implies `Spec => []ListedIsKept` |
| `RowsKept` | `Spec => []RowInv` |
| `UndoKept` | `Spec => []UndoIsRunStart` |
| `RestoresUndoable` | `Spec => RestoreIsUndoable` |

A row is saved after its snapshot was taken, and a prune drops refs after it read
the rows, with no lock over both. What makes this safe is the age of a ref: a
tree that is snapshotted and not recorded has a young ref (`SnappedYoung`), each
listed tree was read by the prune or is young (`PrunesSpare`), and a prune drops
no young one (`RowsHeld`, `Held`). It takes from outside the code that no hour
passes within a snapshot's or a prune's own time limits. The assumption is used
in one place, where the prune reads the rows of its directory, and
`FileCheckpointsShared.cfg` shows that it is needed.

The other two are about trimming. A trim drops a row that has as many newer ones
in its directory as are kept; those are not dropped with it, as the newest one
dropped has that many that stay (`TrimLeaves`). So a row that is gone left that
many newer ones behind (`DroppedSince`), and rows added later leave them there
(`CrowdedStays`). With that, `Undoable` says that the rows of a session's runs
are in the runs' order and that, until it is crowded out, the first row of the
last of these runs is there: it is the one `undoTarget` finds. `Restorable`
follows what a restore is to replace: it is the snapshot, then a row with the
newest number of the session's restores, then that row or as many newer ones of
others, for as long as nobody else writes the directory (`calm`). Neither needs
to know who holds the repository.

Only model-checked: everything under fairness (`AcceptedStarts`,
`DecidedResumes`, `CanceledLetsGo`, `OverWakes`, `MessageTaken`, `DueSettles`,
`CatchesUp`, `CallsReturn`, `RunsEnd`, `EndsAreTold`, `GoalGoesOn`, `UserIsTold`),
which is out of the prover's reach. Every safety property of a passing run, every
action property and the refinement are theorems.

## Plan

1. `RunContract`, `RunLifecycle`, `SessionInputs` and their proofs: done.
2. `EventStream`, `ToolLocks`, `Subagents` (with the run ends), `Automation`,
   `SessionWork`, `TelegramDelivery`, `FileCheckpoints` and their proofs: done.
3. Left to model: the daemon supervisor, the replay of events for a client that
   resumes by ID, and the turns of an external agent.

## Not modelled

Most of the repository's lines are not the daemon's core: model providers,
clients and their rendering, telephony and voice, the tools, setup and modules
are sequential code at the edge of the program, where a mistake shows in its
output and is found by its tests. What is left out, and why:

- Rules, hooks and permissions: pure functions of configuration; what they
  decide is a free choice of `AdmitCall`.
- Budgets, retries of the model, context fitting: they bound the number of
  steps, and any number of steps is checked.
- Model providers: a reply, of any calls or none, or an error, is a free choice.
- External agents (`externalagents`): other programs' protocols, with a recovery
  of their own.
- Deliveries of documents, voice results, engine notes and the offer to go on,
  and those to inline and guest targets: sent and remembered as what
  `TelegramDelivery` has. The status message is only edited. A message a user
  deleted is sent again, which `SentOnce` does not count. Holding a delivery for
  the next start is bookkeeping of one row.
- The daemon supervisor and `procsup`: reload and restart of module servers and
  other programs' processes; the core sees them as tools that fail.
- Sandboxes, tool output, memory, skills, voice, telephony,
  storage, updater, setup, the clients' screens: I/O and presentation.
- In modelled parts, where it tells the properties nothing: in `RunLifecycle` an
  agent call whose child had started is not run again (`SettleLost`; `Subagents`
  has it), and the rows of deferred calls are written in one step with the
  checkpoint that lists them (`LaunchBatch`); in `SessionInputs` a run waiting for
  approval is one at work that has not come to its next step, so `MessageTaken`
  takes for granted that approvals are decided; in `SessionWork`
  automation's runs neither count in a chain nor end it, and a cancel stops the
  commands in one step with the record, all or some of them; `Subagents` has
  no child that cannot be started (`subagents.go:86-93`), which a daemon that is
  stopping refuses: its task is ended as failed and delivered, and the call
  answers so; in
  `TelegramDelivery` giving a delivery up does not fail itself
  (`delivery_queue.go:91`), which would only leave it pending for another try.
- In modelled parts, as data: which files a checkpoint holds and the diffs shown
  of them, worktrees and prompts of subagents, evidence and checks of goals
  (they only decide whether a completion is accepted), cron expressions and time
  zones (a job is due at some later time), replay from the event history, output
  limits and process groups of commands.
- SQL: a statement or a transaction is atomic and durable. Errors of the store
  are modelled where the lifetime's end causes them (`CommitFails`).
