# Verification of the Bimax desktop core

Bimax is a desktop assistant. The app (Electron, `src/app/src/main`) keeps a
list of *threads*, conversations bound to a folder. Each thread may have an
*engine*, a worker (`src/src`) that runs the agent loop and talks to the app
over two ports. This directory holds TLA+ models of the parts that decide what
happens to a person's message, to the workers, to the files a conversation is
kept in and to the files a turn edits, the TLC runs that check them, and proofs
checked by TLAPS.

The models answer eight questions.

- Can an accepted message be lost, sent twice, or wait for ever?
- Can two engines work in one folder at the same time?
- Can the app lose track of a worker, or show a state that nothing will end?
- Does the supervisor of an engine always reach a decision, once, and within
  its restart budget?
- Does undoing an edit transaction (`/tx`) restore what it should, spare what
  is not its own, and forget nothing it could not restore?
- Does what an engine says reach the app, in order, however much it says?
- Is what was saved of a conversation found again, in one place, whatever fails
  or crashes while it moves to the archive or the Bin?
- Do sub-agents keep to their limit over all engines, and is each settled once,
  with its slot given back?

## The system

### Components

| component | state | operations | correct when |
|---|---|---|---|
| Thread manager (`thread.manager.ts`, `thread.budget.ts`) | per thread: engine, ready, status, inputs, pending cards, holds, deadlines | submit, steer, interrupt, cancel, stop, reap, restart, start, reply, choice; what engines say; lifecycle phases; timers | no message lost or repeated; one turn per folder; statuses are real; engines within budget |
| Engine session (`headless.session.ts`, `host.ts`, `steering.ts`) | turn in progress, steering inbox, open questions | input, steer, interrupt, reply, resume, pick, command; ask; end of turn; own continuation | one turn at a time; steering taken or handed back |
| Thread storage (`thread.storage.ts`, `thread.bin.recovery.ts`, `thread.bin.actions.ts`) | list folder, archive, recovery copies; pending snapshots, generations, batches | save now, save later, flush, retry; release, final write, archive, bin, unarchive, undo, readmit | what was saved is found after a crash; no older state replaces a newer; a thread is in one place |
| Engine supervisor (`supervisor/*.ts`, `engine.ts`) | phase, child, generation, history, floor, timers | open, retry, safe, minimal, resume, stop, dispose; worker events; watchdog | one engine; bounded restarts; a stop sticks; never stuck |
| Wire queue (`wire.queue.ts`, `queued.host.ts`, `port.host.ts`) | bounded queue, pause, credit window | enqueue, flush, acknowledge, pause, resume, drop at interrupt, dispose | order; nothing critical dropped; the window counted exactly; no line left waiting |
| Transaction manager (`transaction.manager.ts`) | baselines, captures under way, retained records, snapshot budget | begin, track, commit, rollback, recover | rollback restores what it tracked, never what is not its own, and keeps what it could not restore |
| Circuit breaker (`circuit-breaker.ts`) | state, failures, probe | call, success, failure, time | one probe; opens and recovers |
| Sub-agents (`subagent.manager.ts`, `subagent.capacity.ts`, `worker.entry.ts`, the board and its tools) | ledger of leases, lock file, workers, promises, board | spawn, boot, renew, post, exit, time out, stop, release | never more than the limit over all engines; settled once; slots come back |
| Worktrees, task registry and file claims (`worktree.manager.ts`, `task.registry.ts`, `file.claims.ts`) | tasks, claims | claim, release, expire | no two holders of a path |
| Outcome runtime (`outcome.manager.ts`) | claims, revisions, wakeups | claim, complete, review | no continuation on a stale revision |
| Capability installation (`capability/*.ts`) | staged and active sets, journal | stage, commit, roll back | all or nothing |
| Mobile responder (`responder/*.ts`) | pairing, suspended calls | connect, approve, expire | an approval is used once |
| Keys and spend (`credits`, `governor`) | keys, ledger | rotate, charge, veto | no spending past the ceiling |

`PROJECT.json` lists all components, also those left out for good (search and
embeddings, voice, computer use, user interface, archive), with the reason.

### How they interact

The person acts on the manager. The manager calls `sendFromRenderer` on the
supervisor of the thread's engine, which writes to the worker's port when its
phase is ready and drops or queues it otherwise. The worker's `ProtocolHost`
reads the port in order and calls the session. What the session says comes
back through the supervisor to `ThreadManager.receive`, whose last step is to
dispatch (*pump*) what waits, for all threads. Deaths reach the manager as
`lifecycle` phases. Saves go to the storage: synchronously when a message is
accepted or marked sent, later otherwise. Archiving and binning release a
thread from the manager's list first and put it back when they fail.

Every line an engine writes goes through the wire queue, which holds back
display lines for a slow app and never a critical one; the app's
acknowledgements give the window back. Inside a turn, each tool that edits a
file asks the transaction manager for its baseline before it writes. A turn may
spawn sub-agents, worker threads of the engine; all engines share one ledger of
slots in a file.

### What is hard

- *Two queues for one message.* A message is `queued`, then saved as `sent`,
  then sent, then acted on. A crash fits between any two.
- *Two views of one turn.* The manager's `status` says whether a turn runs;
  the session knows. Steering, interrupts, commands and the engine's own
  continuations make them differ.
- *Exits are slow.* A stopped worker still writes for a while, and its folder
  must not be given away.
- *Deaths have several messengers:* the error event, the exit event, the
  watchdog, the supervisor's phases, and the app's own stop.
- *Timers outlive what they were armed for:* the resume deadline, the restart
  timer, the escalation to SIGKILL.
- *Awaits between a look and an act:* a baseline is captured while other tools
  write, a batch of saves is written while immediate saves land, a thread leaves
  the list while its saves are in flight.
- *Holding back without hanging:* a queue that waits for an acknowledgement, a
  lock that is waited for, a slot that somebody must return.
- *Several ends of one life:* a sub-agent's result, error, exit, watchdog and
  stop all want to settle it.

The full list, with lines, is under `hazards` in `PROJECT.json`.

## Modules

| module | models |
|---|---|
| `EngineLink` | the state that manager and engines share: threads, storage, ports, workers, histories |
| `ThreadManager` | the manager's handlers and timers, and the storage behind them |
| `EngineSession` | the engine's side of the ports |
| `ThreadSystem` | their composition, fairness, properties |
| `MessageFate` | abstract specification: what is promised for each message |
| `MCThreadSystem` | instances for TLC |
| `ThreadSystem_proofs`, `ThreadMessages_proofs`, `ThreadTurns_proofs` | theorems about `ThreadSystem` |
| `EngineSupervisor` | one engine's supervisor, self-contained, with its workers |
| `EngineSupervisor_proofs` | theorems about `EngineSupervisor` |
| `TransactionManager` | the transactions of `/tx` with tools, a person and a disk that fails |
| `WireQueue` | the engine's output queue, the window and the app that acknowledges |
| `DisplayChannel` | abstract specification: the ordered channel the queue promises |
| `ThreadStorage` | the files of the threads in full: generations, batches, archive, Bin |
| `SubAgents` | the ledger of slots, the sub-agents and their manager |
| `MCTransaction`, `MCSubAgents` | instances for TLC |
| `TransactionManager_proofs`, `WireQueue_proofs`, `ThreadStorage_proofs`, `SubAgents_proofs` | theorems about these four |

`ThreadSystem` extends `ThreadManager` and `EngineSession`, which both extend
`EngineLink`. `EngineSupervisor` refines what `ThreadSystem` assumes of an
engine (`EngineRestarts`, `EngineStopping`, `EngineGone`), but the two are not
composed yet. `TransactionManager`, `WireQueue`, `ThreadStorage` and `SubAgents`
are self-contained: `ThreadSystem` takes of the
storage only what is on disk and what was handed over, and of the wire that
lines arrive in order or not at all, which `ThreadStorage` and `WireQueue`
justify.

### ThreadManager and the code

`th[t]` is a `LiveThread` record. Inputs are split into `queue` (state
`queued`, in order) and `sent` (state `sent`, unordered: the code only asks
which are there). `pending` is `cards`; `RESUME_CHOICE_ID` is `"choice"`.
`draining` is the worker whose exit promise the field holds.

Every action is a whole handler. Its last part is `Finish(m, l, who, now,
later, dropped)`: given the threads and ports as the handler left them, it runs
the pumps the handler runs (`who`), makes its saves and records what the person
was told. Pumps go in start order, and a thread that goes takes its folder from
the later ones. `TriedInOrder` states this as a fixed point rather than a loop:
a thread is tried exactly when it can be pumped and no earlier overlapping
thread goes. Ranks are distinct, so there is exactly one such set.

A save writes what the handler leaves. Where the code saves twice in a handler,
the model has the final one: a crash between them is not separate. The flush of
pending snapshots is one step.

`start()` evicts the least recently used reclaimable engine; the model evicts
any of them. `prepareInput` may refuse a message when it is dispatched
(`Unpreparable`). A file that cannot be written is `diskOk = FALSE`.

### EngineSession and the code

The worker's `run` is the message of the turn in progress, `OwnTurn` for a
continuation it started alone, `NoRun` when idle. `asking` holds the open
questions. What a turn computes is left out: a turn starts, may ask, may take
steering, and ends; while its question is open it waits.
A worker that has been told to exit may still take steering, since it is a
process that runs on.

### EngineSupervisor and the code

`sup` holds the fields of the class, `worker` the processes. The boot phases
between `booting` and `restoring_session` are merged into `booting`: they have
the same successors up to order. `spawnedAt` is what the code asks of it: never,
recently, or at least `stableMs` ago. The crash history is what the policy
counts in it: `streak` (`consecutiveCrashes`) and `hangs` (resource crashes in
the window). `watchdogVerdict` is its presence and whether it is
`unresponsive`. `armed` counts restart timers that will fire and `held` says
that `restartTimer` refers to one; in the code the difference is a variable
overwritten.

`autos` and `stopped` are histories: automatic restarts since the last stable
run or act of the person, and whether the person has stopped the engine and not
asked for one since. No guard reads them.

### TransactionManager and the code

`tx` is `openTx`, `snap` its `snapshots` (how far the capture of a path is),
`held` is `heldSnapshotBytes`, `retained` and `restoring` what is kept and what
is being put back. `restoring` is one restoration with the records it has not
looked at, those it must keep and those it has settled; `rollingBack` is that
there is one. Every `await` is a step boundary: a capture opens, then reads and
checks again; its callers go on one by one; a restoration reads, writes, reads
back, once per record.

A file is its text and its mode, and counts one unit of the budget. What is read
of a file may fail at any time (`Unreadable`), and so may a write, which can
leave a torn file. A tool is what `trackEdit` knows of one: a path and what it
is about to leave there. `DeleteTool` catches the error that `trackEdit` throws
during a restoration, and deletes all the same; the others give up.

`begun`, `spoiled` and `undone` are histories: the files when the last
transaction began, what disturbed it since, and whether it has been rolled back
with nothing written after. Symbolic links, the copies that retained records
leave under `.breakglass`, receipts, and the restoring that a multi-file edit
does by itself are left out.

### WireQueue, DisplayChannel and the code

`q` holds the fields of the queue and of the window: `queue`, `paused`, `over`
(`overflowed`), `waiting` (a drain listener is registered), `failed`, `air`
(`inFlight`). None of the code awaits, so that each call is one step, nested
calls included; the operators (`Pushed`, `Posted`, `Flushed`, `Said`, `Offered`,
`Drained`...) take a queue and give the next one, with what it has posted in
`out`. The order of nested calls is kept, with its consequence: the notice that
output is welcome again, queued inside a flush, is not written by that flush.

Sizes are small numbers: one for a critical line, `BulkSize` for a display line.
`Interrupt`, `Ask`, `Beat` and `Display` are what the host says through the
queue; `AppHandles` and `AppAcks` the app's side in `engine.ts`.

`DisplayChannel` is what the header of `wire.queue.ts` promises, without
windows, sizes or watermarks: an ordered channel that loses display lines only
behind a notice. The mapping makes the channel of the queue and the port
together, so that a flush is a stutter.

### ThreadStorage and the code

`pending`, `written`, `gen` and `timer` are the fields of the class (`written`
as the code uses it: a generation, or `Final` = 100 for
`Number.MAX_SAFE_INTEGER`, above every generation an instance reaches).
`batches` is the chain of writes. A batch takes its entries one by one: compare,
write the temporary file, compare and rename in one turn, or fail and go back.
`leave[t]` is the asynchronous function that takes thread `t` out of the list or
back, with what it has still to do and how many batches it awaits. A thread's
contents are a version number.

`acked` is the history of what was reported as saved. `flaws` records the two
things that are known to go wrong (see the findings), so that the properties can
say that nothing else does: a failed write that goes back to `pending` with an
older state than its thread has (not one that a newer pending save keeps out),
and a recovery copy left by a crash. Left out: unreadable histories, size limits, the
archive's own way to the Bin, the three seconds a quit waits for the disk.

### SubAgents and the code

`op[a]` is the operation on the ledger a thread is in; `Atomics.wait` blocks the
thread, so it does nothing else meanwhile. An operation opens the lock and reads
(one step: the ledger is read right after), writes and unlocks; or finds the
lock old and removes it in two steps; or gives up after its attempts. A
heartbeat is one step, in the moment it has the lock: it skips otherwise. The
manager's count before it spawns decides nothing that `acquire` does not decide
again, and is merged into it.

`agent[t]` is everything about one sub-agent: the worker thread (`at`, `ending`),
its messages to the parent (`says`) and exit code, and what the manager has of
it: `active`, `beat` (it renews the lease until the worker has booted), `owed`
(the watchdog's release, after the worker has ended), the board's status and the
spawner's promise. The watchdog waits for the transport's `terminate()` and then
gives the slot back (`subagent.manager.ts:397`). For a worker thread of its own
that is when the worker has ended (`Waiting`); the bundle of the desktop and the
subprocess answer at once (`202-205`, `224`), so that the slot goes back while
the worker may still run. Left out: sub-agents that spawn, worktrees,
checkpoints, outcome tasks, pausing, the sentinels that carry the messages of
the bundle and of the subprocess, and the check that a lease's process is alive
(one process has all engines).

## Runs

| run | asks | about |
|---|---|---|
| `threads_person` | `OneTurnPerFolder` `WorkingIsReal` `KeepsPromise` | two threads in one folder, three messages, one refused at dispatch, stop and interrupt |
| `threads_faults` | `EnginesOwned` `NoSilentLoss` `NeedsYouIsReal` `Durable` `KeepsPromise` | engines that ask, crash and die, stop and cancel, a disk that fails, an app that crashes |
| `threads_resume` | `SentImpliesTurn` `NoSilentLoss` `WithinBudget` | resuming, its refusal and its deadline, with room for one engine |
| `threads_anything` | `TypeOK` `AtMostOnce` | every event of the environment but asking and resuming |
| `threads_progress` | `EventuallyRuns` | liveness under `FairSpec` |
| `supervisor_recovery` | `TypeOK` `OneEngine` `PhaseIsReal` `BudgetKept` `StopSticks` `ResumeNotForgotten` `ShedStaysShed` `NeverStuck` | everything that happens to one supervisor, but two failures (see below) |
| `transaction_edits` | `HeldExact` `CallersFenced` `UndoneExactly` `NothingForgotten` `ForeignKept` | two transactions, two tools, a person and a disk that fails, with room for one baseline |
| `wire_channel` | `WindowExact` `NothingStranded` `AskArrives` `KeepsChannel` | an engine that says more than the app has acknowledged; the refinement of `DisplayChannel` |
| `storage_moves` | `SavedIsKept` `OnePlace` `NeverOlder` `EventuallySaved` | saves of both kinds, every way out of the list and back, failures and crashes |
| `subagents_slots` | `HardCap` `BoardTrue` `StaysSettled` `SlotReturns` `SpawnSettles` | two engines, two sub-agents, one slot, and one of: a death, a silent end, a sleep |
| `late_steer` `storage_stale_retry` | one property each, violated | the findings below |

`TypeOK` of the last four modules is a conjunct of one of their invariants
(`HeldExact`, `WindowExact`, `OnePlace`, `HardCap`).

Deadlock is checked in all thread runs: there is always a person or a
heartbeat. The other runs do not check it, because they may really stop: a
disposed supervisor whose workers have exited is done, and so are a disposed
wire, and the instances whose bounds are used up.

### Bounds, and why they are enough

- *Threads:* two, in one folder. Exclusivity, eviction and pump order are
  about pairs. `threads_anything` has one thread and every event instead.
- *Messages:* two or three, each sent once. A lost message needs one to be
  lost and one to be taken for it; three lets one queue behind another.
- `Slot`, 2 or 3 workers: one for each thread and one still exiting.
- `QueueLimit` 3 (20 in the code): the guard at the limit only refuses.
- `MaxLive` 1 or 2 (up to 4): below, at the limit, and evicting.
- `LinkLimit` 0 to 2, a bound in the guards of what the environment does at
  will (interrupts, commands, questions): messages in flight one way. The
  ports of the manager's own messages are bounded by `Msg`.
- `Allowed` and `Failures` choose which events of the environment an instance
  has. They are sets, not code: each run names what it looks at.
- `MaxAttempts` 1 or 2 (5): one or two restarts and then the budget is spent.
- Supervisor workers: two, the current one and a superseded one.
- *Transactions:* two paths, one that exists and one that does not; two tools,
  one of which may wait for the capture of the other;
  `MaxTx` 2, so that one has records left while the next is open; `MaxHeld` 1,
  so that the budget is full with one baseline; `MaxOps` 2 and `MaxEdits` 1
  bound the writes.
- *Wire:* `MaxQueued` 5, `BulkHigh` 3, `BulkLow` 1, `Window` 2, `AckEvery` 2,
  and display lines of 1 and 4: a line below and one above the high watermark,
  a window that one line overfills, and a reserve of two lines to overflow.
  The state space is finite without further bounds.
- *Storage:* one thread, since batches treat their entries apart and no
  operation reads another thread; `MaxVersion` 3, `MaxFaults` 2 and `MaxMoves` 3
  let a save fail twice between two moves and a crash.
- *Sub-agents:* one slot for two engines with a task each, so that they always
  compete, one with a transport that waits for its workers and one without; `MaxFaults` 1 fault, besides the timeouts, stops, lock failures and
  stolen locks that are always possible.

### Fairness

`FairSpec` of `ThreadSystem` assumes weak fairness of what the platform runs:
ports deliver and both sides read them, timers fire, a disposed worker exits
(SIGKILL follows SIGTERM), a turn ends (the loop is bounded by its step and time
limits), and that the person answers a question asked. It assumes nothing of
new messages, stops, interrupts, crashes or the disk.
`FairSpec` of `EngineSupervisor` assumes that timers fire, that a worker told
to end does, and that a worker that threw exits. It does not assume that an
engine boots, nor that the person does anything.
`WireQueue` assumes that both event loops go on: the app handles what is posted
and acknowledges it, the engine takes acknowledgements. It assumes nothing of
what is displayed, asked or interrupted.
`ThreadStorage` assumes that timers fire and that started writes and moves end,
well or badly; failures are bounded by `MaxFaults`, without which nothing need
ever be saved.
`SubAgents` assumes that ledger operations end (they are bounded loops), that a
lock without a holder and a lease without a keeper age, that terminated threads
end, and that an engine takes messages, exits and its watchdog's timer. It does
not assume that a worker ever finishes: the watchdog settles it.

## Findings

Each is a run that TLC must find violated, against what a comment or document
says.

1. `late_steer`. `steer()` marks its message sent; when the turn ends first,
   that idle settles it, the session starts a turn with it that the manager
   does not know, and the next queued message meets "Busy" and is gone.
2. `storage_stale_retry`. A coalesced write fails and goes back to `pending`
   although an immediate save of a newer state has succeeded since. Its
   generation keeps it out, until the thread tries to leave and cannot:
   `readmit()` forgets the newer generation, and the retry writes the older
   state over the newer file.

Seen in the same models but not kept as runs of their own. They are why the
passing runs choose their `Allowed` and `Failures`:

| events | property | what happens |
|---|---|---|
| `restop` | `OneTurnPerFolder` | `drain()` keeps one promise per thread: stop, start, stop, and the second replaces the first, so the folder is free while the first worker runs |
| `resume` `engineCrash` | `NothingVanishes` | the resume deadline stays armed across a restart of the engine, makes the thread ready while the new engine boots, and the message then dispatched is dropped by the supervisor |
| `throwsAndExits` | `StopSticks`, `OneEngine`, `PhaseIsReal` | what an uncaught error does in the real adapter: the error and the exit of one worker are handled as two deaths, so that the second one finds a restart announced or a successor booting, and there are two restart timers, of which a stop can cancel one |
| `refusesLate` | `BudgetKept` | the uptime of a launch that failed is counted from the launch before: after a stable run, refusals never use the budget up |
| `engineStop`, a thread to resume | `WorkingIsReal` | the same, with an engine that is being stopped |
| `auto` | `NothingVanishes`, `OneTurnPerFolder` | a message meets a continuation the engine began alone |
| `interrupt` `ask` | `NothingVanishes`, `NoSilentLoss` | an interrupt leaves `needs-you` without a card, so the next message is dispatched while the turn still ends, meets "Busy", and the old idle settles it |
| `engineStop` | `OneTurnPerFolder` | a supervisor told to stop from its card leaves the folder free before the exit |
| `command` | `WorkingIsReal` | answering a command's question sets `working` with no turn |
| `resume` `steer` | `SentImpliesTurn` | a restore that comes after the deadline ends the hold and leaves its choice open; a steer goes out, and answering the choice makes the thread idle under it |
| `resume`, two threads | `NeedsYouIsReal` | a new message ends the hold and drops its choice; the folder is taken by the other held thread, so nothing is dispatched and `needs-you` stays without a card |
| `resume` `interrupt` | `NeedsYouIsReal` | an interrupt of a held thread drops the choice and leaves the status |

And in the four other models. What a property has to except is named in it, as
a history (`flaws`, `spoiled`) or a case; nothing else goes wrong in the runs.

- *Storage.* A crash in the middle of a move to the Bin leaves a recovery copy
  beside the file (`thread.bin.recovery.ts:72-74`); undoing that move, which
  never was, can put an older state over a newer one (`"copy"`). When automatic
  archiving for room fails, the thread is readmitted but put back in no list
  until the app opens again (`index.ts:1890-1892`, the `Abandoned` case), though
  `thread.manager.ts:312` says that nothing is deleted.
- *Sub-agents.* Every lease expires in a sleep longer than its life, and each
  process prunes before it renews (`subagent.capacity.ts:114-116`, `152-161`), so
  that running workers lose their slots (`"sleep"`). An old lock is found with
  one call and removed with another (`94-96`), and a section removes whichever
  lock is there when it ends, so that two can be inside (`"steal"`). A worker
  that the watchdog ends over a transport that does not wait may still run when
  its slot is taken by another, so that more than the limit are at work; it
  is the only one that `HardCap` does not count (`Abandoned`). A worker
  that ends with code 0 and no message settles its promise and leaves the board
  `running` (`subagent.manager.ts:556-569`). A sub-agent that was stopped while
  its result was in flight becomes `done`.
- *Transactions.* A tool whose `trackEdit` has returned can write after the
  rollback (`"late"`); a delete during a restoration is not tracked
  (`"outside"`); a file with a mode of its own that the transaction deletes and
  writes anew has the default mode and is a conflict at the rollback
  (`"remade"`).
- *Wire.* The notice of resumption waits for the next line (the case in
  `NothingStranded`); the count of refused lines that it carries is cumulative,
  though `wire.queue.ts:74-75` says during the pause.

## Proofs

The theorems hold for all values of the constants the modules' assumptions
allow: any number of threads, messages, workers, engines and tools, any limits,
folders, sizes and contents. The assumptions say that numbers are numbers, that
what stands for "nothing" is none of the values it is compared with
(`NothingAssumption` for records, which TLC cannot tell from a model value
otherwise), and that threads, paths and tools are finitely many, where
something counts them. Where a theorem assumes that an event does not happen,
the event is one of the hazards or findings above, and the instance of TLC
leaves it out too.

About the thread system:

- `TypeCorrect` is the invariance of `TypeOK`. It is inductive as it stands,
  given that a worker in use has an owner, which is part of the type.
  `FinishTyped` does the work: what a handler leaves is typed if what it was
  given is.
- `EnginesAccountedFor` is `EnginesOwned`, assuming `"restop" \notin Allowed`:
  a second stop is exactly the counterexample without it. It is proved as an
  invariant of three functions, `Owned(g, d, w)`: which worker each thread has,
  which it awaits, and the workers. Five lemmas say what stopping, booting,
  losing and draining a worker do to them, and `OwnedAfter` that the rest of a
  handler, pumps included, does not matter. Each action is then one of these.
- `EnginesAffordable` is `WithinBudget`. The inductive invariant adds that the
  live threads are finitely many, without which their number means nothing.
  Every handler but `start()` leaves the engines there are or fewer
  (`EnginesKept`), and `start()` adds one below the limit or in exchange for
  the one it evicts. `MaxLive` is a constant, where the code's limit moves with
  the memory of the machine: a limit that falls under the engines already
  running is not covered.
- The other properties of the threads rest on one inductive invariant, `Sound`,
  and on one assumption, `Orderly`. `Sound` has four parts. `TurnsAgree` says, of
  each thread, what its record, its two ports and its worker know of the turn
  (`Local`): at most one of a message on its way down, a running turn, and an idle
  on its way up (`OneTurn`); whenever there is one, and only then, the thread is
  shown as working or waits for the answer to the turn's question (`Shown`);
  and that question is in one place: on its way up, on the person's desk, or on
  its way down as an answer (`Asked`). `Exclusive` says that of the threads that
  share a folder one is busy, a worker that still exits included. `Safe` says
  that an accepted message is with its thread and in both copies of it that the
  storage has, and `SentGoes` that what is recorded as sent is on its port or
  acted on. `TurnsAreAgreed` is the invariance of `Sound`. From it follow
  `WorkingStays`, `SentStays`, `NeedsYouStays`, `TurnsAreAlone`, `NothingIsLost`
  and `NothingIsForgotten`: `WorkingIsReal`, `SentImpliesTurn`,
  `NeedsYouIsReal`, `OneTurnPerFolder`, `NoSilentLoss` and `Durable`.

  A handler changes one thread, or two when an idle engine makes room, and then
  pumps many. `HandsOver` is what each handler is shown to do up to that point:
  it leaves the threads agreed (`Middle`), no thread busier and no message
  without a place. `HandsOverSound` does the pumps and the saves once for all
  handlers. What a worker does is one exchange on its ports (`Spoken`).

  `Orderly` excludes `steer`, `auto`, `command` and `restop`, `ask` together with
  `interrupt`, and, where a conversation can be resumed, `engineCrash` and
  `engineStop`. Each of these breaks a part of `Sound`, and a property with it, in
  the way the table of the findings says. What is left are messages, questions or
  interrupts, cancelling, stopping, restarting, resuming, crashes of engines and
  of the app and a failing disk, in any order. `NeedsYouStays` also assumes that
  nothing is resumed and `TurnsAreAlone` that `engineStop` does not happen, which
  are two more rows of that table. The passing runs that check these properties
  are all instances of their theorems.
- `KeepsThePromise` is `KeepsPromise`, the refinement of `MessageFate`. A message
  has a fate by `NoSilentLoss` and `AtMostOnce`, and moves only forward because
  what was accepted, told or acted on stays so (`HistoryGrows`).
- `ActedOnce` is `AtMostOnce`, under every event, the findings included. The
  invariant `Tokened` treats a message as a token that lies in one place: with
  a thread (its queue, the two copies of it in storage, what comes back up its
  port), on its way down a port, or in a worker's inbox; and at most once in
  each sequence (`Once`, `Tidy`). What an engine begins to act on is in none
  of them afterwards. `Spread` states this of sets, and five lemmas what may
  happen to them: less (`SpreadLess`), a new message (`SpreadNew`), one acted
  on, taken into an inbox, or handed back. `FinishTokens` does the pumps and
  the saves of every handler once and for all.

About the supervisor:

- `SupervisorTyped` is `TypeOK`. It needs that a timer referred to is armed:
  otherwise cancelling could count below zero.
- `OneEngineAlways` and `StopHolds` are `OneEngine` and `StopSticks`, assuming
  `"throwsAndExits" \notin Failures`: a worker that dies twice is the
  counterexample without it. Neither is inductive. `Sole(s, w)` adds that a timer is armed exactly
  when it is referred to, and only without a child; that the child is alive and
  the one listened to; and that what is listened to and alive is the child.
  `Halted(s, w)` adds that after a stop nothing is armed and the child, if one
  is left, will be read as a clean shutdown. A launch starts from `Clear`:
  nothing armed, nothing to hear, every living worker told to end; each
  operation of the person is shown to reach it first. The phases are not needed
  for these two, so they hold whatever the engine says about its boot.
- `ResumesGoOut` and `StaysShed` are `ResumeNotForgotten` and `ShedStaysShed`,
  under every failure. They hold step by step once it is known what a death, a
  launch and an operation of the person do to the wish and to the floor
  (`DiedDoes`, `LaunchedIs`, `PersonIs`); both deaths and launches come in a few
  forms, and the lemmas name them.
- `PhaseTrue` is `PhaseIsReal`, without `"throwsAndExits"`. `Real(s, w)` adds
  the converse to it: that there is a child exactly in the running phases and
  while stopping. It rests on `Sole`.
- `WithinBudget` is `BudgetKept`, without `"throwsAndExits"` and
  `"refusesLate"`, the two findings that break it. The count of the property is a
  history; the policy counts in its own, which it forgets after a stable run.
  `Spent(s, a)` relates them: while a child runs or a countdown goes on, what
  the policy counts is at least the restarts nobody asked for, and a child that
  has run for long has none against it.

About transactions:

- `NobodyLeftBehind` is `CallersFenced`. `Fenced` says that `pending` is the
  number of tools that wait and captures under way, so that when it is zero
  there is none. It is an equation of cardinalities: each step of a tool or a
  capture adds to or takes from one set.
- `ForeignSpared` is `ForeignKept`. What makes it hold sits between two steps:
  a restoration writes only over what it read and judged its own (`Aimed`),
  and its own are only states the transaction's tools declared (`Drafted`).
- `BaselinesKept` is `NothingForgotten`. The records of a transaction are in one
  place: in it, in its restoration, or retained (`Placed`, `Apart`). A step that
  is not of a restoration adds records (`Quiet`), and one that is keeps a record
  unless its file holds the baseline or the restoration failed to see it
  (`Survives`).
- `RollbackExact` is `UndoneExactly`. `Tracked` says that an open transaction has
  a record of every path whose capture ended, and a tool that may write has
  declared its draft there; `Clean` that while nothing disturbed the
  transaction, each file holds what it held at the beginning or has a record of
  that whose declared states hold what is there, also halfway through the
  rollback.
- `BudgetExact` is `HeldExact`. `Budget` adds to it that an open transaction has
  nothing retained under its id, and that a capture that has its size is of a
  file. `Owes` says where the records of a transaction are, one place at a time.
  The sum over the transactions is the number of units they hold (`Weight`),
  which a step changes for one of them (`WeightMoves`, `Balanced`); `FoldIs`
  shows, from a smallest set for which it would not, that the fold of the
  property is this number. Moving a record between what is to be put back, what
  is kept and what is settled changes nothing (`OneLessBulk`).

About the wire:

- `WindowCounted` and `NothingWaits` are `WindowExact` and `NothingStranded`.
  The inductive invariant `Kept` adds to the count of the window that output is
  withheld only with a drain to come, and is stated of the queue a call leaves
  in the middle of its nested calls (`Counted`, `Sane`, `Served`, `Woken`).
- `KeepsTheChannel` is `KeepsChannel`, the refinement of `DisplayChannel`. The
  lines of the port and of the queue are one sequence (`Way`); a flush moves the
  border in it. Each call appends to it what its outcome is named for (`Told`,
  `Full`), and dropping display lines is the channel's dropping, behind the
  notice.
- Byte counts and droppings are folds over the lines. The module proves what
  they do to one more line and to two parts by an induction of its own, over the
  first length for which a set of facts does not hold (`Inductive`, `Grown`),
  where the library's induction needs an operator as a parameter.

About storage, with `IInv`, one thread at a time:

- `InOnePlace` is `OnePlace`. While a thread is out of the list its generation
  is `Final`, which no save in flight passes (`Way`, `Sealed`), so no late save
  brings its file back.
- `SavesAreKept` and `FilesGetNewer` are `SavedIsKept` and `NeverOlder`, outside
  the two flaws the properties name. What waits to be written is ordered by
  generation as it is by age (`Ordered`), is not older than the file or will not
  be written (`Fits`), and what is left of a thread on its way out are its last
  words (`LastWords`).

About sub-agents:

- `BoardTells` and `Settled` are `BoardTrue` and `StaysSettled`. Every step is,
  for each sub-agent, one of four: unchanged, born, at work, or managed
  (`AgentStep`), and the properties follow from what these four may change.
- `LimitHolds` is `HardCap`. Until a sleep or a stolen lock, whoever is in the
  section is alone in it and knows every lease there is (`Exclusive`, and
  `seen` in `Counted`); the ledger is within the limit, and every sub-agent at
  work has a lease on it (`Leased`), one that is being ended included: its slot
  is released when it has exited or is `Abandoned` (`Gone`), and a worker that
  is gone stays so.

Only model-checked is what is out of reach of the prover: liveness
(`EventuallyRuns`, `NeverStuck`, `AskArrives`, `EventuallySaved`,
`SlotReturns`, `SpawnSettles`: fairness and ENABLED). There are no recursive
operators: `Finish` and `Goes` are written without recursion, and what is
added up is a fold, so that they can be proved about.

## Not modelled, and the plan

1. Thread system: done, its safety properties and its refinement proved. Not
   proved: which of them survive the events that `Orderly` excludes; a command,
   for one, breaks `WorkingIsReal` but in the instances tried no message is lost.
2. Engine supervisor: done, its safety properties proved.
3. Transaction manager: done, its safety properties proved.
4. Thread storage: done, its safety properties proved. Not shown: that it
   implements the one-step flush of `ThreadManager`.
5. Sub-agents: done but for nesting and worktrees, the safety properties proved.
6. Wire queue: done, proved with its refinement.
7. Composition of the supervisor with the manager, and the queue of reads.
8. Circuit breaker; file claims; capability installation; the spend ledger.

Not modelled for good are the parts without a protocol of their own: retrieval
and embeddings, voice, computer use, user interface, archive and third party.
The agent loop is the model's answer and the tools' effects; what it shares with
the modelled parts (steering, questions, baselines, sub-agents) is in them.

What the models take on trust: the exit that a stopped thread waits for comes
(the code stops waiting some seconds after SIGKILL, and then frees the folder
all the same); the passing supervisor run leaves out the two failures the
findings are about (a worker heard again after it threw, a late refused
launch); a file that is renamed over another is there whole, also after a crash.
