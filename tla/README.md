# Ants Terminal in TLA+

Ants Terminal is a Qt terminal emulator. Around the terminal proper it has grown
a plugin host, review dialogs that talk to language models, a control socket, a
roadmap store and a large set of text-analysis tools. This directory models the
parts of it whose correctness depends on the order in which threads, signals,
callbacks and the kernel act. Paths such as `vtstream.cpp` are relative to the
repository's `src/` directory.

## 1. Inventory

### What the system consists of

| Part | State it keeps | Operations | Interacts with |
|---|---|---|---|
| `Pty` (ptyhandler) | master descriptor, child pid, two socket notifiers, EAGAIN queue, EOF flag, last foreground group | start, read and write notifier slots, write, resize, pause/resume of reads, destructor with its signal ladder | kernel, shell; owned by VtStream, runs on the worker |
| `VtStream` (vtstream) | pending batch, in-flight counter, pause flag, flush timer flag, paste backlog and offset | data, EOF, flush timer, acknowledgement, resize, key data, paste | Pty below (direct signals), TerminalWidget above (queued signals and calls) |
| `TerminalWidget` | grid, worker thread handle, view state | start of the shell, application of a batch, resize, input, paste, destructor | VtStream by queued and blocking-queued calls |
| `LlmDispatcher` | job queue, in-flight count, cancelled, batch-open and pumping flags, generation | enqueue, cancelAll, pump, the done lambda | its runner, and the slots of its two signals, all re-entrant |
| `ReviewDialogBase` and three dialogs | lanes, round flags, active clients | dispatch, retry, cancel, results | LlmDispatcher, LlmClient |
| `LlmClient` | one network reply, byte cap, deadline timer | send, drain, finish, abort | Qt's network stack |
| `LuaEngine`, `PluginManager` | a thread and an interpreter per plugin, deadlines | dispatch of events, settings calls to the GUI, teardown | TerminalWidget, the GUI thread |
| `LocalSocketHub`, `RemoteControl` sockets | per process: one server per path, attached windows in activation order, connections and their count | acquire, attach, detach, accept, read, answer, timeouts | other processes at the same path, clients |
| `ClaudeIntegration`'s dispatch, `onGuiThread` | two workers per window, their queues and a common count, the set of refused threads | post a job, call back into the GUI, reply, teardown | the verbs, the GUI thread, other windows' workers |
| verb handlers, the MCP daemon | verb tables | answer, forward | every other part |
| roadmap store and writer | SQLite store, rendered files, copies of discarded text | measure drift, begin, mutate, dry render, commit, publish | files on disk, other writers, an editor |
| roadmap busy guard | per process: writers inside, exclusive flag, lock-file descriptor | shared and exclusive hold and release | the threads of this process, `flock` of the others |
| `SelfUpdate`, configuration, sessions, journals | files and their temporary replacements | download, verify, replace, restore | file system, network |
| `VtParser`, `TerminalGrid`, image decoding | parser state, cells, scrollback | feed, apply an action, reflow | VtStream, TerminalWidget |
| audit, documentation and Claude-transcript tools | caches | read text, report | files, external commands |

### Where the difficulty lies

* **Two event loops per tab.** Reading and parsing happen on a worker thread,
  the grid lives on the GUI thread. Between them are a queue of batches in one
  direction, a queue of acknowledgements in the other, a read notifier that two
  objects switch, and a resize that blocks the GUI thread on the worker.
* **The kernel on the other side.** The child writes, closes, dies, stops or
  sleeps at any point; a write may take part of the data; a sample of the
  terminal's state is old as soon as it is taken.
* **Bounded destruction.** Closing a tab must reap the shell, must not freeze
  the window, and must not delete a running thread.
* **Two stores without a common transaction.** A roadmap write commits SQLite
  rows and then renames files; a failure, a death, an editor or another writer
  can come between any two of those steps.
* **Foreign code on worker threads.** A plugin's handler may run for ever inside
  a C call, or wait for the GUI thread that is waiting for it.
* **Late callbacks.** Queued ticks and signals of a request, or of a deleted
  engine, arrive after something else has taken its place.
* **Calls back into the GUI.** A verb on a worker blocks until the GUI thread has
  made a call for it. One such call is a modal prompt, so that the GUI thread is in
  a nested event loop in which windows close and other requests arrive; and a
  window's destructor waits for its workers.
* **One socket path for several processes.** Who owns it is settled by a look, a
  probe, an unlink and a rename, without a lock. (Not modelled yet.)
* **Re-entrancy on one thread.** A job may complete inside the call that starts
  it, and a slot may start or cancel work while a round is being closed.

What makes each part correct: output is complete, ordered and followed by the
exit; memory stays bounded; neither direction hangs with work left; input
arrives in order or its loss is reported; a paste arrives whole; no process is
signalled that is not ours and none is left behind; a round of jobs ends exactly
once and reports no cancelled job; a request is reported once and never as
complete when it is not; a reported roadmap write is durable and no text is
overwritten without a copy; a migration is alone; a plugin is given up only
for what its own code does during a teardown; a verb is answered while another one waits for the user, a
window's destructor returns, and nothing reads a window being destroyed. `PROJECT.json` lists the individual hazards
with the line where each bites and the properties that cover it.

## 2. Modules

| Module | Models |
|---|---|
| `VtStream` | read side: `Pty::onReadReady`, `VtStream`'s batching and back-pressure, `TerminalWidget::onVtBatch`, `onPtyFinished`, `recalcGridSize` |
| `OutputStream` | the promise the read side makes, without threads or queues |
| `MCVtStream` | the module TLC runs for the read side |
| `PtyWrite` | write side: `ptyWrite`, `performPaste`, `VtStream::write`, `writePaste`, `feedPaste`, `Pty::write`, `onWriteReady` |
| `PtyLifecycle` | `Pty::start` and its failures, EOF reaping, `~TerminalWidget`, `~Pty` |
| `LlmDispatcher` | the job queue of the review dialogs |
| `LlmClient` | one client: `send`, `abort`, `drain`, `consumeLines`, `onFinished`, the deadline timer and the deferred ticks |
| `RoadmapWrite` | `commitAndRender` with the store's transaction and the write phase of `RoadmapRender::render`, several writers, an editor and crashes |
| `RoadmapHold`, `MCRoadmapHold` | the busy guard of `remotecontrol_roadmap_migrate.cpp` over several processes |
| `PluginHost` | `PluginManager` and the worker side of `LuaEngine` |
| `McpDispatch` | `ClaudeIntegration`'s dispatch workers with `guithread.h`, the trust prompt and the teardown of a window |
| `VtStreamProofs`, `PtyWriteProofs`, `PtyLifecycleProofs`, `RoadmapWriteProofs`, `RoadmapHoldProofs`, `PluginHostProofs`, `McpDispatchProofs` | theorems about the module each is named after, with their inductive invariants |
| `LlmProofs` | the same for `LlmDispatcher` and `LlmClient`; it extends both, so the specification names of `LlmClient` carry the prefix `Client` |

Definitions keep the names of the functions they model; `map` in `PROJECT.json`
gives the lines. A definition whose comment starts with "Mutant" is a plausible
defect of the definition after it and is used by no specification.

### VtStream

Bytes are counted in units and identified by their position in the stream the
parser is fed, so that a batch is an interval `[lo, hi)`. `fed` and `sent` stand
for `m_pending`, which holds the units from `sent` to `fed - 1`. `guiQueue` holds
the queued `batchReady` and `finished` events, `acks` the queued `drainAck` calls.
A slot is one step, because it runs to completion on its thread. The exception is
`Pty::onReadReady`: each `::read` of its loop is a step, since the child and the
GUI go on meanwhile. Two things that depend on the contents of the stream are free
choices: whether the parse reached `kFlushActions` first, and whether a wake
injects an SGR reset of `ResetUnits`. EINTR is a `ReadAgain` with data waiting.

`recalcGridSize` posts a blocking call: `resizePosted` disables every other GUI
step until the worker has run `resize`, which waits its turn behind the
acknowledgements posted before it. `startShell`'s return is the initial state.

`OutputStream` has three variables and three actions (parse, apply, exit). The
refinement maps `parsed` to `fed` and keeps `applied` and `exited`.

### PtyWrite

Each unit has a number in the order the GUI handed it in. `posted` holds the
queued calls, `pasteBacklog` and `pasteOffset` the paste being fed,
`pendingWrite` the EAGAIN queue. `writeSome` takes as much as the kernel has
room for, or fails part of the way. Since `writeLost` is a direct connection, its
handler is part of `write`; in `feedSlice` the slice is added to the offset after
the handler has reset it, as in the code, and `feedDone`'s comparison then has to
clear the state. `lost` and `dropped` record what was given up, with and without
a report of its own.

### PtyLifecycle

Time is counted in the 10 ms polls of `~Pty`; the GUI's wait runs on the same
clock. The shell may die, close the terminal and live on, ignore SIGTERM, be
stopped, or enter an uninterruptible sleep that defers even SIGKILL. `stray` and
`reapedAny` record a signal to a reaped pid and a `waitpid(-1)`. `LadderAssumption`
states the arithmetic the code relies on: 50 + 100 polls are less than 2 s.

After a wait that timed out the destructor unparents the thread, connects its
`finished` to `deleteLater` and asks `isFinished()`, three steps between which the
worker's loop may end; `deletePosted` is set by whichever of the two comes second.
`~QThread` waits for a thread that has emitted `finished` and is still in its ladder,
so that the deletion is a step of a worker that has ended.

### LlmDispatcher

Everything runs on one thread, so the call stack is a variable: a frame records
where a `pump()` or a done lambda stands while the runner or a slot runs above
it. `done(j)` may happen inside the runner's call for `j`, or from the event loop
later; slots may call `enqueue` or `cancelAll`. The concurrency limit is clamped
to 1..4 as in the constructor.

### LlmClient

A request is named by its send generation and data is counted in lines. `net` is
the state of the `QNetworkReply`, `timers` the pending zero timers with the
generation each one captured. `onFinished` is a parameterised operator because it
runs as the slot of `finished`, inside the abort of `drain` and of the deadline,
and from its own deferred tick. Replies are event streams: the plain-JSON
fallback and the egress checks (a `rejected` send) are reduced to their outcome.
The chunk slots do not call back into the client, as the one in `AiDialog` does
not. A request has a deadline or, with `deadlineMs` 0, none; `SendSettles` is about
those that have one (ten minutes by default) and about those that have ended. The
inactivity timeout of Qt is a `finished("failed")` that may happen at any time.

### RoadmapWrite

Each writer walks the steps of `commitAndRender`: pre-image, drift, `BEGIN
IMMEDIATE`, mutation and dry render, the refusals and the dry run, commit, backup,
publishing render, one rename per file. An item's status says which file renders
it, so closing an item changes both files. A line is an item with the status it
was rendered from, or a line only an editor wrote, with an id (`Bullet`, which the
divergence guard refuses to drop) or without (`Note`, which it lets go). All reads
of the store for one render are one step, and so are the reads of the files for
one check. A death at any step rolls back an open transaction. The convert path
(`AfterMutation`), the publish stamp and the pruning of old copies are left out.

### RoadmapHold

A process counts its writers and has one flag and one descriptor per root; every
critical section under the mutex is a step, and so is every `flock` of the poll
that runs outside it. `mfd` and `probe` are descriptors a migration has not
published. A lock file that does not open is a possible outcome each time, and
the hold then covers its own process only; `grabbed` remembers which kind a hold
is. The condition variable may wake a sleeper at any time.

### PluginHost

An engine is named by its plugin and the number of its load. `queue` holds the
calls posted to its worker, `calls` what it has posted to the `PluginManager`. The
GUI delivers everything that waits in one step, from its event loop and inside
`waitServicingCalls`. A handler is a `doing = "lua"` interval in which the worker
may enter a C call, make a settings call or post a UI update; the hook may end it
at any time. An event has any number of handlers, run one after the other, each
bracketed and with a budget of its own; `left` counts those to come, and a budget
used up ends them all. Time appears in one place, `Deadline`: one budget of 1500 ms
fits into the 2000 ms of the teardown and two do not; nor does one with settings
calls, since `m_pcallWaitedMs` takes the waits out of the budget and a handler may
go on calling. `slow` counts the budgets a worker may have used since the teardown
began, `own` the handlers and settings calls of its Unload code, and `held` records
a C call. Closing the Lua state is fast: the sandbox's allowlist has no
`setmetatable`, so a plugin has no finalizers for `lua_close` to run. Files may
change to a new version or back to an earlier one. Detached workers take no more
steps, because their signals are disconnected. Permissions, logging and rate caps
are left out.

### McpDispatch

The GUI thread is its call stack above `app.exec()`: prompts and joins. A prompt on
top is an event loop, a join on top only delivers the calls queued by `onGuiThread`.
`onGuiThread` is two steps, the caller's test and the queued call, and the call
tests again. A job's kind says whether it makes no such call, a read or a prompt
(one stands for several: `cmdVerifyChanges` may read before it prompts, and every
call is tested and delivered alike);
only windows in `Prompter` have a configuration to be asked about. A window's
deletion is posted with the loop level it was closed in and a deeper loop leaves it
alone, as Qt does. The end of a request is `answered` or `dropped`: a full queue
is an answer. Inline and deferred verbs, the cache and the text of replies are left
out.

The passing runs give only the main window something to ask. With a second window
that asks, `teardown_over_prompt` shows the deadlock of finding 3, and nothing that
has to return could be stated.

## 3. Runs

| Run | Question | Bounds |
|---|---|---|
| `read_pipeline` | safety, refinement and liveness of the read side | cap of 2 batches, threshold 2, read 2, reset 2, kernel 3, 6 units of output, one reset, two sizes |
| `write_path` | safety of the write side, and that input arrives | slice 2, queue 2, kernel 2, keys of 1 or 5 units, pastes of 3, 8 units, one fatal error |
| `tab_close` | safety of closing a tab, and that a close completes | 3 + 4 polls against a wait of 8 |
| `review_rounds` | safety of the dispatcher, and that rounds end | limit 2, 5 jobs, 2 cancellations |
| `llm_client` | reports of one client, and that requests settle | 3 sends, replies of up to 3 lines, 1 line per tick, cap of 2 lines |
| `roadmap_write` | store and files under two writers, an editor and a crash | 2 writers, 3 operations, one item, one bullet and one note of the editor, one crash |
| `roadmap_hold` | exclusion and release of holds, and that a migration's call returns | two processes: one with 2 writers and 2 migrations, one with one of each; unbounded calls and crashes |
| `plugin_host` | teardown, bookkeeping, UI updates and wedged plugins | 2 plugins, 2 loads, 2 versions of the files, 1 broadcast, 2 handlers per event, 2 acts of handlers |
| `mcp_dispatch` | refusals, what runs while a window is destroyed, that shared jobs are settled and destructors return | two windows of two workers, 2 requests, cap 2, one window with a prompt |
| `all_finished_delete`, `roadmap_race`, `teardown_over_prompt` | three statements of the repository that the code does not keep | the same, or smaller; `roadmap_race` has two items, no editor and no crash; in `teardown_over_prompt` both windows have a prompt |

The passing runs use the fair specification where they check liveness; fairness
does not change which states are reachable, so the invariants lose nothing.

Why the bounds suffice. On the read side six units fill the in-flight window
(two batches of two), the pending batch and the kernel, so that a pause, its end,
an injection at the cap and EOF during a pause all happen; the reset is larger
than the slack left below the threshold. On the write side a key write of 5 units
exceeds both queue and kernel, a paste of 3 needs more than one slice, and 8
units leave room for another message after a loss. The ladder's real lengths matter
only through their sum against the wait, and 3 + 4 < 8 leaves one tick of slack,
so the mutant that doubles the polls does overrun it. Three jobs are enough for
a nested completion; five allow a second round to overlap with the late results
of a cancelled first one. Three sends let a tick of the first request meet the
third; with a cap of 2 a reply of 3 lines is cut. Three operations of two writers
are a failed publish, a second writer that crosses it, and a repair; the one item
moves from the live file to the archive, so a publish has two renames to be cut
between. Two loads are a reload of a plugin whose first worker was given up, or
two plugins that share a deadline; two handlers of an event are what overruns the
deadline without a C call, and two acts are any two of a C call, a settings call and
an update, of one worker or of two. Files restored to a version that wedged before
need a third load, which the theorem covers. Two requests park both lanes of the
window being closed, or one of its lanes while the other window has a prompt.

Deadlock is checked on the read side, where a resize is always possible. In
`mcp_dispatch`, where only a teardown can block for ever, `TeardownReturns` is the
check. The other runs turn it off: a tab whose bounded input is used up, a closed tab and a
dispatcher, client, writer or plugin host with nothing more to do have really
stopped.

Each property of a passing run has a mutant in `PROJECT.json`: a change to one
mapped definition, such as a missing test or an exact comparison, under which
TLC finds the property violated.

### What the passing runs show

`InOrder`, `PauseHasAck`, `PendingHasTrigger`, `Bounded` and `EofIsFinal` together
say that the back-pressure protocol loses nothing, forgets nothing and grows no
further than `Window`; that the exit comes after all output is part of
`ImplementsStream`, and proved on its own as `ExitAfterOutput`. One detail: the batch sent at EOF is not counted, so from EOF on the
counter may be one short; this is harmless because EOF also ends reading.
`FifoOrLost` and `PasteWhole` state what a user can rely on when
typing during a paste, when the queue is full and when the master fails.
`NoShellLeft` and `KillIsLastResort` cover the ladder, `DetachOnlyIfBusy` its
length, `TabCloseReleases` the hand-over of a thread that outlives the wait. `RoundEndsOnce`, `RoundEnds`, `RunnerNotReentered` and
`CancelledNeverForwarded` cover rounds.

`ReportsOnce`, `WholeAnswer` and `BlamesDeadline` say what a caller of `LlmClient`
may conclude from a report, and `SendSettles` that it gets one; the last is what
the fairness of `LlmDispatcher` assumes of its clients. `FileNeverAhead` and
`AckedDurable` hold through crashes and crossing writers; `RepairConverges` is the
comment "re-running the render fixes it" with its condition made explicit: nothing
else may move while the publish runs. `TextKept` covers exactly the lines the
drift check read: a line saved after the check, or when no pre-image could be
built, has no copy. `GivenUpForOwnCode` depends on the GUI serving settings
calls while it waits, on the teardown flag ending the running handler, and on
skipping the backlog. `WedgedFilesNotReloaded` is about two loads in a row: files
that wedged, were edited and are then restored are loaded again, since the edit
dropped their record.

`TeardownReturns` and `NeverReadsTornDown` are the two sides of refusing first and
joining after: without delivery the join hangs, and with the bulk lane refused late a
call of it reads the dying window. `OwnRefusalsOnly` needs the set of threads in
place of a flag. `SharedServed` holds for the shared lane of every window
with a prompt open for ever, which is what the bulk lane is for; bulk jobs may wait
behind the prompt.

### Findings

1. `llmdispatcher.cpp` says that a slot of `allFinished` may delete the
   dispatcher, because the emission is the last thing `pump()` does. If a slot of
   `jobFinished` has enqueued more work and the runner completes it at once,
   the emission happens above a done lambda that still calls `pump()`.
2. `roadmapwrite.h` says that a publish that fails is the one window in which the
   store is ahead of the files. Two writers that share the hold open another: the
   first one reads the store for its publish, the second commits and publishes,
   and the first then renames its older files into place. Both report success and
   the files stay behind until the next write, which puts them right.
3. `claudeintegration.cpp` describes its teardown as the order that cannot
   deadlock. If the last shell of a second window ends while that window's trust
   prompt is open, the window is destroyed inside the prompt's event loop, below
   which the bulk worker's call has not returned. The join waits for the worker, the
   worker for a call under the join.

A smaller remark: `vtstream.h` puts the largest batch at one byte less than the
threshold plus one read. A wake that injects its reset while the batch is nearly
full and the window is full reads once more before it notices the pause, so a
batch can be larger by the reset; `MaxBatch` counts it, and the bound that is
checked and proved is the one with the reset.

Another: `pluginmanager.cpp` says of a worker that missed the deadline that it is
stuck in an uninterruptible C call. Two Unload handlers that each stay within their
budget, or one that goes on calling `settings.set`, miss it as well; the plugin is
then detached and not loaded again until its files change. `GivenUpForOwnCode`
therefore allows for both.

## 4. Fairness

* `VtStream`: each event loop serves posted events, due timers and ready
  notifiers. Fairness is strong where another handler of the same thread can run
  in between. EINTR cannot end every read loop. Nothing is assumed of the child.
* `PtyWrite`: the same of the worker's loop, and a child that goes on reading;
  without that no input could arrive. The `lost` alternative needs no assumption.
* `PtyLifecycle`: slots end, `quit()` reaches a loop that goes on serving slots,
  and the kernel acts on a signal it has not deferred. A sleeping shell may sleep
  for ever, and the close completes all the same.
* `LlmDispatcher`: calls return, and every job is reported. `LlmClient` arms a
  transfer timeout and, by default, a wall-clock deadline, and then always ends in
  `finished`. Nobody has to enqueue or cancel.
* `LlmClient`: pending zero timers run and a running deadline fires. Nothing is
  assumed of the server, which may stop sending at any point.
* `RoadmapHold`: a thread inside `tryHoldRoadmapExclusive` goes on and its clock
  runs. A hold may be kept for ever.
* `McpDispatch`: threads run, an event loop gets to what is queued, a posted deletion
  happens. Nobody has to answer a prompt; where a property needs an answer it says so
  as `[]<>~Prompting`.
* `RoadmapWrite` and `PluginHost` are checked for safety only.

## 5. Proofs

All theorems hold for every value of the constants that satisfies the named
assumptions, each in the module that declares the constants:

* buffers, thresholds, caps and parse budgets are positive, bounds are natural
  numbers, and the dispatcher's limit is any integer, clamped as in the code;
* on the write side a slice fits in the queue (64 KiB and 4 MiB in the code), and
  the two rungs of `~Pty` together are shorter than the GUI's wait (1.5 s and 2 s);
* writers of a root and plugins are finite in number: they are threads and the
  entries of a directory;
* in `RoadmapWrite` the mark of a free lock is no writer, and a line that only the
  editor wrote is none the renderer writes; one that equals a rendered line is that
  item's line, not a foreign one;
* in `McpDispatch` the main window and those that prompt are windows, and the cap is
  positive.

Three theorems have one more hypothesis, stated in the theorem:
`SoloWriterKeepsTheWindow`, `MainPromptsSafe` and `MainPromptsServed`.

`VtStreamProofs` rests on the inductive invariant `IInv`, a conjunction of
`TypeOK`, `StreamInv`, `FinishedLast` and `ControlInv`. The properties are not
inductive alone: the memory bound needs to know how many batches can be queued,
which is the exact counter `InFlightExact`; the counter needs to know where the
finished event is (`FinishedLast`); and the size of a batch needs `PendingBound`,
which says how much can be pending in the read loop, with and without an
injection. `StreamInv` carries `Ordered`, a form of `InOrder` that also bounds
the queue's contents from every position on, so that appending and removing an
event each preserve it locally. Every action has a lemma; `Invariant` combines
them, and `TypeCorrect`, `DeliveryInOrder`, `BackPressure`, `PendingIsSent`,
`MemoryBound`, `ExitOrder` and `EofFinal` follow. `Refinement` shows that each step is a step of
`OutputStream` or leaves its variables alone.

`PtyWriteProofs` proves two invariants. `WInv` has types with the queue's cap,
`InputHasTrigger`, `BacklogReset`, and the relation between backlog and offset
inside and outside `feedPaste`. The interesting case is `feedSlice` when its write
is lost, which leaves an offset of one slice with an empty backlog.
`WriteTypeCorrect`, `NoLostWriteWakeup` and `PasteStateReset` are its consequences.
`FInv`, on top of it, is `FifoOrLost` and `PasteWhole` with what they need to be
inductive: the posted calls are the tail of the history (`PostedIsTail`), messages
are numbered one after the other (`Numbered`), and only what was handed in is given
up (`GivenUp`). The order is stated over kernel, queue and backlog as one sequence
and over the posted messages by comparison with each other, so that a step that moves
units from one to the next needs only a fact about concatenation. `InputInOrder`
and `PastesStayWhole` follow; the second rests on the queue being empty whenever a
slice is written and on a slice fitting in it.

`PtyLifecycleProofs` proves `LInv`. `Together` says where the GUI can stand for
each place of the worker; `PidOwned`, what `m_childPid` tells of the child, from
which `SignalsOwnChild` and `LeavesNoShell` follow; `Sent`, which signals a child
that is still alive on each rung has pending, and that one that outlived a poll was
not going to obey, which gives `KillsLast`; `WaitUsed`, how much of the GUI's wait
each rung may have used, which with the assumption on the lengths gives
`DetachesOnlyBusyWorker`.

`LlmProofs` proves `DInv` of `LlmDispatcher`. The stack has at most one `pump()` in its loop,
with slots below it and at most one runner call and one slot above (`StackShape`);
ids leave the queue in order and are then running, reported or cancelled
(`IdsInOrder`); the in-flight counter is the number of running jobs (`Counted`); the
generation a running job captured differs from the current one exactly if it was
cancelled (`GenerationTells`). `CancelledJobsStaySilent` and `PumpIsNotReentered`
follow; the action property `RoundsEndOnce` needs `Counted` at the moment the loop
is left.

`LlmProofs` proves `CInv` of `LlmClient`. The fields of a client are shared by all its
requests, so the invariant says that they are about the latest one: `m_reply` is
the latest request's and has not reported (`ReplyIsLatest`), its lines are parsed,
buffered or on the wire unless the answer is marked (`FieldsFit`), and a zero timer
that still names the latest request was armed by it and fits its state
(`TimersFit`). `onFinished` has one lemma for all its callers.
`CompleteAnswersAreWhole`, `DeadlineBlamedRightly` and the action property
`OneReportPerSend` follow.

`RoadmapWriteProofs` proves `RInv` for any number of writers, items and lines of the
editor's. The lock belongs to the one writer inside its transaction (`LockOwned`); a
transaction starts at the committed rows and stays above them, and what a writer has
committed stays below the store (`RowsOrdered`); what is about to land was rendered
from committed rows (`ImageNeverAhead`). These give `FilesFollowTheStore` and
`ReportedWritesStay`. `AloneExact` says that an undisturbed publish lands the store
as it is and has already put right every file it has no more to land, which gives
`OkRepairsEveryFile`. `SeenKept` follows a line the drift check read until it is
copied or reported as not copied, which gives the action property
`NoTextLostSilently`. `SoloWriterKeepsTheWindow` assumes in addition that there is one
writer and proves `OneWindow`, the statement `roadmap_race` refutes for two: until a
publish fails, a writer dies or an editor saves, the files of a project at rest equal
the render of the store. `SoloExact` carries it: a publish is undisturbed, and only a
writer past its commit leaves the files behind the store.

`PluginHostProofs` proves `PInv`. `Engines` says for every stage of an engine's life
how its worker and the calls it has posted fit together: a blocked worker has its
call posted, a full box its announcement, a start that waits to be delivered its
handler running; and the time a worker being torn down may have used is that of its
Unload code or of a C call (`OwnTime`), since the hook ends every other handler.
`Teardown` says that `unloadAll` sees every loaded engine once, and that past the
deadline whoever still runs was held by a C call or has Unload code of more than one
budget: a late worker cannot be blocked in a call, since with nothing left to deliver
that call would have been answered. `Numbered` makes the engines of a reload new ones.
`Versions` ties the record of wedged files to the latest load: if that one was
abandoned its version is recorded, and a recorded version is that of an abandoned
engine. `GivesUpOnlyForOwnCode`, `TickSeesNoDeletedEngine`, `NoUpdateForgotten` and
`WedgedStayUnloaded` follow.

`McpDispatchProofs` proves `MInv` for any number of windows and requests, any cap and
whichever windows prompt. It says who owns what. A job is one request, in one worker or
once in one queue (`JobsOwned`); the in-flight counter is what the two lanes hold
(`Counted`); a parked worker waits for exactly one queued call or one open prompt
(`CallsOwned`); a window in its destructor has exactly one join on the GUI's stack, no
prompt of its own lies above it, and its shared worker has ended before the bulk one is
joined (`JoinsOwned`); marshals are refused to the live workers of the windows in their
destructor and to no other window's (`RefusalsOwned`, `QuitOwned`). `OwnRefusalsOnly` needs all
of it: a refusal happens when a call is made or delivered, long after the
destructor raised the flag and possibly inside another window's prompt.
`RefusalsStayHome`, `TornDownUnread`, `InFlightExact`, `GoneMeansEnded` and
`PostsReachAWorker` follow. `JobsHeld`, on top of `MInv`, says where an accepted request
is until it is settled (`NoRequestLost`), and `OneAnswerPerRequest` that its states have
one order. `MainPromptsSafe` and `MainPromptsServed` assume in addition that only the
main window prompts, as in `mcp_dispatch`: then no join lies above a prompt of the worker
it waits for, which is what `teardown_over_prompt` refutes otherwise, and a parked worker
being joined has its call in the queue that the join delivers from. The main window's
join is at the bottom of the stack, since it is destroyed after the event loop, and
that is the whole reason.

`RoadmapHoldProofs` proves `HInv` for any set of processes, any finite set of
writers and any set of migrations. `Counted` ties a process's count to the writers
inside and lets its last release find the descriptor it must close; `FlagOwned`
says that an exclusive flag belongs to exactly one migration between raising and
lowering it, so no other migration of the process can be polling; `FlockOwned` and
`ExclusiveAlone` describe which descriptors can carry a kernel lock and that an
exclusive one excludes all others, across processes; `Backed` ties a hold obtained
through the file to a lock still in place. `HoldsExclude` is not inductive without
them: the exclusion between processes lives in the kernel locks, the one inside a
process in the flag. `HoldsAreExclusive` and `HoldsAreReturned` follow.

Each inductive invariant was checked on the instances of the runs before it was
proved.

Every invariant and every action property of the passing runs has a theorem. Only
model-checked: all liveness (fairness is outside this prover's reach), and the
counterexamples to the three statements that do not hold. For two of those,
`OneWindow` and `JoinNeverOverOwnCall`, a theorem gives the condition under which they
do hold.

## 6. Not modelled

* `VtBatchBuilder`'s bookkeeping of print runs, inline images and the selection
  hint: contents of a batch, which no property here looks at.
* Everything in `onVtBatch` after the grid has been updated except the
  acknowledgement: recording, triggers, scroll anchoring, the synchronised-output
  snapshot and the frame pacer.
* The GUI's unsynchronised look at the child's pid; the header describes why a
  stale value is tolerated.
* The foreground group and the terminal modes a wake samples: `VtStream` lets any wake
  inject the reset that depends on the first; the second only filters keys.
* `TerminalGrid`, `VtParser`, image decoding: large sequential code whose model
  would repeat its assignments.
* The audit, documentation and transcript tools: text in, text out.
* The remaining components are listed with their reasons in `PROJECT.json`.

## 7. Plan

Models still to write:

1. `SocketHub`: the path between processes that start, quit and crash, the probe of a
   dead socket by two of them, the limit and the timeouts of connections, and
   windows that come and go; then the hook events routed by session.
2. The permission prompt of `PluginHost` as a nested event loop.
3. `ReviewDialogBase` composed with `LlmDispatcher` and `LlmClient`.
4. `TerminalView`: snapshots, scroll anchoring and the pacer, on top of
   `VtStream`'s batches.
5. `SelfUpdate`'s session and cancellation; the mutation journal.
6. A bounded check that `VtParser` and `VtBatchBuilder` yield the same actions
   however the input is split.

## 8. Running

```
tlc -workers 2 -config MCVtStream.cfg MCVtStream
tlc -workers 2 -config PtyWrite.cfg PtyWrite
tlc -workers 2 -config MCRoadmapHold.cfg MCRoadmapHold
for m in *Proofs.tla; do tlapm $m; done
```

`PROJECT.json` names the module and configuration of every run.
