# Keel: a TLA+ model of commands, turns, runs and the histories behind them

Keel is a multi-device front end for coding agents. Each device runs an engine
that hosts chats, drives agent processes ("harnesses") and synchronises its
state with other devices through rooms on an edge server. This project models
the parts of the engine in which concurrency, crashes and unreliable
connections decide whether it is correct.

## 1. The system

| Part | State it keeps | Operations | Talks to |
|---|---|---|---|
| Command ledger rules (`crates/doc/src/commands.rs`) | immutable command entries and their outcome | `evaluate_command` | the executor |
| Chat document (`crates/doc/src/schema.rs`) | a Loro document: messages, commands, questions | queue, set status, resolve input | document host, rooms |
| Docs store (`crates/sync/src/store.rs`) | SQLite: snapshots, processed-command ledger, chat2 cursors | save, `mark_processed`, `is_processed` | document host |
| Document host (`crates/engine/src/doc_host.rs`) | open documents, a `chat_task` each | open, queue, drain, execute, debounced save | sessions engine, store, workspace |
| Sessions engine (`crates/engine/src/sessions.rs`) | map chat -> run handle, steer ledgers, statuses, last requests | `dispatch`, `steer`, `interrupt`, `respond_input`, `drive_run`, `recover_stale` | harnesses, document host, journal |
| Run journal (`run_journal.rs`) | event log of each chat, revival counters | append, stale sessions, resume attempts | sessions engine |
| ACP adapter (`crates/harness/src/acp/mod.rs`) | turn in flight, queued steers, the steering call, deadlines | prompt, steer, cancel, settle, drain | the agent's process, sessions engine |
| Registry replica (`crates/doc/src/registry.rs`) | authoritative rows, pending batches, cursor, HLC clock | row writes, `apply_op`, `apply_state`, `ack_batch` | registry client |
| Registry client and room (`crates/sync/src/registry.rs`, `registry/mock_server.rs`) | connection, in-flight marks; rows, sequence number, gc floor | hello/state, push, rows, ack | replicas |
| Workspace host (`workspace_host.rs`) | the registry replica of this device | `is_host`, `claim_chat`, snapshot | document host, sessions |
| chat2 client and sink (`chat_client.rs`, `chat2_host.rs`) | cursor, push queue, saved snapshot | hello, checkpoints, backfill, push, ack | document host, edge room |
| Room cutover (`doc_host.rs`: open, seed, watcher) | room generation, document lineage, rollback copy | quiet seed, flip, adopt, retire | registry, both rooms |
| dsh (`crates/dsh/*`) | an agent of its own: driver, inbox, event log, JSONL artifact | wake, turn, step, tool calls, write-behind, repair | harness bridge |
| UI, RPC, accounts, updater, diff sync, ... | | | the engine |

What is hard here: two drains of one document; a document that is saved late
beside a ledger that is saved at once; dispatches that look at a map, wait and
then write it; a run that exits while a message is being handed to it; a
harness that ignores its cancel token or hangs while starting; batches that
are pushed again because an ack was lost; devices with different clocks; a room
that lost its state; a prompt whose reply never comes beside an agent that may
still be working; a steer that was taken and whose confirmation was not; a
crash between the end of a turn and the save that says so; a transcript that is
rebuilt and swapped while others write to it; an event log whose tail is cut
anywhere. `PROJECT.json` lists each under "hazards", at its line.

What makes the parts correct:

* command plane: a command is executed at most once; its outcome does not
  change; the newest steer or interrupt is not dropped; every entry is drained;
  a question is answered once;
* runs: one live runtime per chat; an accepted message is delivered or
  re-dispatched; a call returns and a cancelled run ends;
* registry: replicas converge to the room's row; an acknowledged write is not
  lost; the row's clock does not go back; every batch is acknowledged;
* turns: the engine hears how every turn ended; a steer reaches the agent once;
  only a dead turn is settled for the agent; an interrupted run ends;
* transcript: an entry is streaming only while a run writes it; a tool is shown
  once; an open question can be answered; a finished turn is not run again and
  a crashing one is revived a bounded number of times;
* chat2: a saved cursor never passes a row the document lacks; a caught-up
  client holds what the room holds; a checkpoint loses nothing; at rest the room
  holds what the document holds;
* cutover: the old and the rebuilt document never meet in one room; no message
  and no command is lost on the way;
* dsh: the log is well formed through aborts, failures and crashes; the
  artifact and the queue make up the live log; no message is shown twice or
  forgotten by an idle driver.

## 2. The modules

`MCCommandPlane`, `MCSessionRuns`, `MCRegistrySync` and `MCDshLoop` extend the
specification they are named after; the `.cfg` files give the constants their
values. `MCTurns`, `MCStores` and `MCLive` are suites of several specifications
that share a question. `MCTurns` and `MCStores` extend theirs, so the properties
they check are the components' own, the ones the theorems state: a variable
`part` chosen in the initial state says which component a behaviour belongs to,
the others rest in their initial states, and the bounds of an instance are
conjuncts on primed counters. `MCLive` instantiates its specifications, since
fairness is stated for each. The parts of a suite do not interact, so its state
space is the sum of theirs. No definition is replaced in a `.cfg`.

### CommandPlane

One chat on the device that hosts it. `status` and `talk` are the live
document, `saved` the snapshot on disk, `room` what other devices see, `ledger`
the `processed_commands` table. A command is its position in the document's
list, and stands for the id of the message it delivers. A worker is an
activation of `drain_commands`; `pc`, `cur`, `newer`, `verdict`, `skipped` are
its locals, and each step between two reads or writes of shared state is an
action: `Enter`, `Pick`, `Evaluate`, `Mark`, `Execute`, `Resolve`. The drain of
`chat_task` is `Task`; a second worker is the one `set_sessions` spawns.

What the executor owes to the other devices is `CommandLedger`: a set of
commands, each taken once, run at most once, and told one outcome that says
whether it ran. `CommandPlane` with one drain implements it
(`ImplementsLedger`): `outcome` is `room`, what the other devices read, `taken`
is the processed ledger and `runs` counts executions. A crash can take an
outcome back from the host's document, never from the room.

`Execute` is one step: the sessions engine it calls has its own module, and
here is only what the executor can observe of it (`Dispatch`: steered into the
live run, new run, or failure after the old run is gone). `live`, `config` and
`resolver` stand for the sessions engine's state; `RunReplies`, `RunAsks`,
`RunSteered`, `RunFoldsAnswer` and `RunEnds` are what a run does to the
transcript. `RunSteered` is a steer injected while a question is open: the entry
that holds the question is finished with it unresolved. `CrashAndReopen` throws
away everything in memory and reloads `saved`; `Import` brings back what had
reached the room. `Push`, `Later` and `RowArrives` are external: Loro's merge of
a field with one writer, the room, and another device's registry row.

### SessionRuns

One chat's runs. `runs` is the map entry; `phase[r]` is where `drive_run` of run
`r` is; `mailbox`, `ledger` are the steering channel and `routed_steers`.
A caller is a task inside `dispatch`, `steer` or `interrupt`: `Drain` is the
command executor, `Aux` the tasks that dying runs spawn (the startup retry and
the re-dispatch of orphaned steers; when several are alive they are served one
after the other). The places of a caller (`lookup`, `send`, `enledger`, `check`,
`working`, `interrupt`, `wait`, `launch`) are the stretches between two locks
or awaits. The exit of a run takes two locks, hence `ClaimOrphans`,
`ExitRemove`, `Finish`. `Steered` covers the channel receive, the harness and the
boundary event in one step, so `mailbox` holds a message until its boundary.
Clearing `last_requests`, titles, the route decision's content, transcript
folding and `AwaitingInput` are left out. `status` is kept as the code sets it;
no property is claimed of it (see the hazard at `sessions.rs:458`).

### RegistrySync

One registry row on `NDevices` replicas and in the room; rows do not influence
each other in `apply_op`. A value is the clock of the write that set it, so two
rows are equal exactly when their clocks and their null marks are; a clock is
`tick * NDevices + device`, ordered as `encode_hlc` strings are. `up` and `down`
are the frames of a connection, lost when it drops. The room is the mock
server of the repository, whose `apply_op` is the client's. It stands for the
Durable Object, which is not in the repository. In the mock a socket can read
its hello ahead of rows broadcast since it was accepted; the model has sockets
discard those rows (see the hazard at `registry.rs:481`). `Budgets` bounds the
writes, drops, crashes and wipes of a behaviour: each initial state picks one.

### TurnStream

The engine's half of one turn: `drive_run` of one chat, which reads a harness's
events, journals them (`JournalAppend`), folds them into parts and writes them
into an entry of the document, through steers (`Deliver`, `Steered`), tool calls
and their late echoes, questions, parking (`Parked`), the watchdog (`Quiesce`),
interrupts, deaths and the re-dispatch of orphaned steers; and `recover_stale`
after a crash, with the journal, the saved entries and the revival budget as all
it has. An entry is its author's turn, its status and its part ids. The document
is saved on a debounce (`SaveSnapshot`), the journal at once. `orphans` are
entries whose end a crash lost from the snapshot while the journal says the turn
is over (recovery does not look at them), `otherCut` a crash in a turn that the
last message did not begin: the two ways in which a finished message can run
again, excluded from `NeverRevivesFinished` and listed as a hazard. In `live`
the harness may lose a Done (`LosesDone`).

### AcpTurns

The adapter's half: `run_session`, a `select!` loop between the agent's process
and the engine. `loop` holds its flags and armed deadlines, `call` the steering
request in flight with its followers in `backlog`, `queue` the steers waiting
for a boundary. A step is one arm of the loop. The arms are polled in random
order; deadlines are a second or more, so they fire only when no reply or frame
is ready (`NothingReady`). The agent is external and owes nothing: it may take a prompt into a turn of its own,
lose the reply, answer a steer late, hang in a tool, ask, continue by itself,
exit. `late`, `flooded`, `blind` and `misread` record the four situations in
which the code knowingly or unknowingly guesses, and the properties name them
where they make a difference:

* `late`: an injection confirmed after its turn leaves the steers behind it
  queued with no turn to wait for (the next steer delivers them);
* `flooded`: the answer to a steer was not parsed within a second of the turn's
  end, is taken for lost, and the steer is sent again;
* `blind`: a drain at a steer boundary swallows tool frames the settlement's
  bookkeeping never sees, so silence behind a running tool can settle the turn;
* `misread`: a cost frame of an earlier turn, read in a later one, settles it.

### Chat2Sync

One device's client of a chat's append-only room: document, saved snapshot and
cursor, push queue, the join's slot and buffer, catch-up plan, checkpoint fetch,
backfill, push window, acks, rejection and quota, the checkpoint POST and the
triggers that post one. The room is external (a Durable Object that is not in
the repository), modelled from the frames the client exchanges with it: a log of
rows, a checkpoint that covers a prefix of them, a limit on the log. An
operation is a model value; the document is the set it holds (Loro merges
commute); `InitOp` stands for the operations of `SessionDoc::init`. `fooled` marks a wipe
that went unnoticed because the new head had already passed the cursor,
`stranded` what the code gives up: the push queue lost in a crash after first
contact, and a compensating checkpoint that was dropped because one was in
flight or that failed. `EarlyRows` says whether the room relays live rows to a
socket before it has served its backfill. The client takes any row it reads in
the backfill for the next one, so it counts on `FALSE`, which the run and the
theorems set; presence beats may come before the state frame.

### Cutover

A chat's move from its s2 room to chat2, on the hosting device and a viewer. A
document is its items and its lineage: the chat2 document is rebuilt, and merged
with the old one it would show every message twice. The seed's steps
(`SeedRebuilds`, `SeedPosts`, `SeedChecks`, `SeedSaves`, `SeedFlips`,
`SeedRetires`) interleave with runs, saves, evictions, opens and crashes. A plain
save keeps the stored epoch, as the SQL does (the comment at `store.rs:108`, that
such rows read back with epoch 0, holds for new rows only). The windows the code
leaves open are recorded in `raced`, `unsealed` and `clobbered`.

### DshLoop

The in-process agent: driver, inbox, event log, tool calls, write-behind,
artifact, repair and the bridge that creates, resumes and disposes it.
Everything runs on one thread, so a step is the code between two awaits. A log is
the fold of its events; `Legal` is what the provider or the next load demands of
each event, and an illegal one makes the fold `bad`. The driver's record says
where it awaits, with the batch it claimed and the call it is at (`call` of
`last`); a call that is not admitted, and after an abort every remaining one, is
answered on the spot, call and result together (`Skipped`). `Batch` is
`prepare_batch`: one event per sequence number from the watermark on, the first
that was queued, and `Passed` is the watermark after it. A crash keeps any prefix
of the batch being written and may tear the line after it. `stale` records that a
resume loaded the artifact while a disposed session's last events were still
queued; the properties of the artifact make no claim after that.

## 3. What TLC checks

| Run | Instance | What it shows |
|---|---|---|
| `command_drain` | 2 commands (one remote), run/steer/interrupt, 1 reply, 2 instants, 1 crash, one drain | `TypeOK`, `AtMostOnce`, `NewestIsNeverSuperseded`, `OutcomeIsFinal`, `ImplementsLedger` |
| `command_questions` | 3 commands (one remote), run/answer, mid-question steers, 1 crash | `QuestionAnsweredOnce` |
| `command_wakeups` | 2 commands, both workers, 1 crash, fair | `EveryCommandIsDrained` |
| `command_two_drains` | 2 commands, both workers | violates `AtMostOnce` |
| `session_one_caller` | 3 prompts, 2 runs, mailbox of 1, user interrupts, failing starts | `OneRuntime`, `MailboxIsLedgered` |
| `session_two_callers` | 2 prompts, 3 runs, hanging starts, fair | `UnmappedRunIsCancelled`, `EveryCallReturns`, `CancelledRunSettles` |
| `session_steer_lost` | 2 prompts, 2 runs, mailbox of 2 | violates `AcceptedNeverLost` |
| `registry_merge` | 2 devices, 2 fields, 2 ticks, gc floor 1; a behaviour has 3 writes and a lost connection, a write and a crash, or a write and a wipe | `CaughtUpMeansEqual`, `AckedWriteSurvives`, `AckNeverFlickers`, `RoomClockNeverRegresses` |
| `turns_safety` | AcpTurns: 2 steers, 1 self-continued turn, with cost hints and 1 failed call / without hints, 1 lost reply and 1 question; TurnStream: 2 messages, 1 tool, 2 events, with 1 question / with 2 crashes | `NoStrandedWorking`, `EndsWithDone`, `SteerReachesAgentOnce`, `QueuedSteerHasBoundary`, `OnlyDeadTurnsAreSettled`; `StreamingHasWriter`, `ToolShownOnce`, `OpenQuestionAnswerable`, `RevivalsBounded`, `NeverRevivesFinished` |
| `stores_safety` | Chat2Sync: 3 operations, one of them refused by the room, a log of 1 row, at most 2 faults of 1 drop, 1 crash, 1 wipe, 1 quota; Cutover: 1 message or 1 command, born and old chats, 1 crash, 1 eviction, 2 seeds; DshLoop: 2 messages, 2 calls, 1 cancel, 1 crash, 1 torn line / 3 messages, 1 error, 1 cancel, 1 failed write | `CaughtUpIsConverged`, `CursorIsCovered`, `NothingLeftBehind`, `RoomNeverForgets`; `LineagesNeverMix`, `HistorySurvives`; `LogWellFormed`, `ReplayRebuildsLog`, `MessageShownOnce`, `IdleOwesNothing` |
| `live` | AcpTurns: 1 steer, cost hints; TurnStream: 2 messages, 1 event, 1 crash; RegistrySync: 1 device, 2 writes, a drop, a crash, a wipe; fair | `InterruptEnds`, `TurnSettles`; `WorkingSettles`; `EveryBatchIsAcked` |
| `dsh_artifact` | 3 messages, 1 error, no crash | violates `ArtifactLoads` |

Deadlock is not checked: every instance is bounded by its counters and stops
when they are used up.

Why the bounds are enough. Two commands are a supersession or an execution
beside a re-import; a third is needed for two answers after the run that asked.
One crash rolls back, re-imports and drains again. A mailbox of one makes the
full channel happen with two steers. Three writes are create, delete and revive,
or create and two concurrent changes, and two ticks on two devices give every
order of their clocks. `MaxRuns` ends a behaviour when it is used up, which
`EveryCallReturns` allows for.

In the suites: two steers are one in flight and one behind it; a lost reply or a
failed call is enough to leave a turn to the deadlines, and a self-continued turn
to confuse it with the next. Two crashes are one in the turn and one in its
recovery, which a budget of one revival then refuses. A row limit of one makes
every second row demand a checkpoint; a wipe, a crash and a drop are met in pairs
(`MaxFaults`). Two seeds are one that aborts and one that follows. Two tool calls
are one that runs when the abort comes and one to be skipped.

The three violations are recorded under "findings" in `PROJECT.json`, with the
line of code and the comment each contradicts. In words:

1. The drain of `set_sessions` and that of `chat_task` can both execute an
   entry: neither looks at whether `mark_processed` claimed it.
2. A steer sent before a run's exit drain and ledgered between it and
   `remove_run` is confirmed to its sender and lost.
3. A session of the in-process agent that ends with a message pending writes
   the splice that discards it after its last flush. A resume within the 200 ms of
   the batching delay gives its own events the same numbers; the older event
   wins, and the artifact cannot be loaded again. A re-dispatch of orphaned
   steers resumes at once, so the window is met in practice when a turn fails.

More statements that TLC refutes, kept as hazards and not as runs; the constants
to see them:

* "never two runtimes driving one chat" (`sessions.rs:384`): `OneRuntime` with
  `Callers = {drain, aux}`. Two dispatches that both find no run start two
  harnesses; the first is cancelled when its handle is replaced.
* re-pushes are "idempotent by strict-`>` clock compare" (`registry.rs:9`):
  `RepushChangesNothing` with `NDevices = 1` and a budget of 3 writes, 1 drop.
  Deletes drop field clocks, so after a revival by a partial write a repeated
  upsert wins the other fields.
* "keep them and re-seed the server" (`registry.rs:434`): `ReseedRestoresAcked`
  with a budget of 2 writes, 1 drop and 1 wipe. Updates still pending are pushed before the re-seed of
  their row, and are acknowledged without effect.
* `CursorIsCovered` with `EarlyRows = TRUE` and two `PeerOps`: a live row that
  comes between the state frame and the backfill is saved with its sequence
  number as the cursor, past rows the backfill has yet to bring
  (`chat_client.rs:784`). Whether the room can do this is not in the repository.

### Fairness

* `CommandPlane!Fairness`: `chat_task` and the spawned drains are tokio tasks
  and are polled while they can go on. Nothing is assumed of runs, composers,
  rooms or the clock.
* `SessionRuns!Fairness`: calls and run tasks are polled, and the grace deadline
  of a cancelled run fires. Harnesses owe nothing: turns and start-up may last
  for ever (start-up ends only where `StartMayHang` is FALSE).
* `RegistrySync!FairSpec`: the client redials with backoff for ever and the room
  answers. Connections are lost finitely often (`Budgets`).
* `AcpTurns!FairSpec`: the `select!` takes each ready arm in the end, and a
  deadline fires in a lull that comes again and again (strong fairness). The
  agent ends the turns it runs, its tools end, it answers steering calls and the
  user answers questions. What it does with a cancel, and whether the reply to a
  prompt arrives, are open: `TurnSettles` is about that. An interrupted child that does not wind down is
  killed (`Escalates`).
* `TurnStream!FairSpec`: the run's loop, its exit and the recovery task are
  polled, and tools return. The harness owes no Done.

## 4. What is proved

With TLAPS, for every value of the constants.

`CommandPlaneProofs`:

* `TypeCorrect`: `Spec => []TypeOK`. `TypeOK` is not inductive alone: `Resolve`
  writes `verdict[w]` into the document, so `LocalsOK` says what the drain's
  locals hold at each place.
* `ExecutedAtMostOnce`: `Spec => []AtMostOnce`, assuming `OneDrain`
  (`Workers = {Task}`). The inductive invariant is `TypeInv /\ DrainInv`:
  what was executed or has an outcome anywhere (document, snapshot, room) is in
  the ledger, and the command in hand is unmarked up to `Mark` and not yet
  executed from there to `Execute`. `AtMostOnce` needs the parts about snapshot
  and room because a crash or an import brings them back into the document.
  The assumption is needed: `command_two_drains` is the counterexample without it.
* `OutcomesAreFinal`: `Spec => OutcomeIsFinal`, from the same invariant: a drain
  only resolves a command that is still pending in the document.
* `LastWordIsKept`: `Spec => []NewestIsNeverSuperseded`, with any number of
  drains. The invariant (`SupersededInv`) says it of all three copies, because a
  crash puts the snapshot in place of the document and an import the room's
  entries; and of the drains, which look for a newer entry at `Pick` and write
  the verdict three steps later. It rests on entries being immutable:
  `KeepsCopy` is what a step may do to a copy.
* `CommandPlaneImplementsLedger`: `Spec => ImplementsLedger`, assuming
  `OneDrain`. The mapping is `outcome <- room`, `taken <- ledger`,
  `runs <- execs`; `Mark` is a `Take`, `Execute` a `Run`, `Push` and
  `RemoteQueue` are `Report`s, all else is a stutter. Beside the drain invariant
  it needs `ToldInv`: every copy of an outcome says truly whether the command
  ran, and a saved outcome is the live one.

* `QuestionsAnsweredOnce`: `Spec => []QuestionAnsweredOnce`, with any number of
  drains. `AskInv`: a registered resolver belongs to an open question of a live
  run; once the question is answered the resolver is gone, and the transcript
  shows it resolved, or open on the entry of a live run, where the fallback does
  not look.

`SessionRunsProofs`:

* `UnreachableRunsAreCancelled`: `Spec => []UnmappedRunIsCancelled`. The
  invariant is inductive once the types of `phase` and `cancelled` are added
  (`MapInv`).
* `LoneCallerOneRuntime`: `Spec => []OneRuntime`, assuming `Alone`
  (`Callers = {Drain} /\ ~StartMayHang`). The invariant (`CallerInv`) adds
  that every live run is the mapped one, that while the caller is about to
  launch the map is empty, and that while it waits for a cancelled run the map
  holds that run or nothing.
  With two callers TLC refutes it (section 3).
* `LoneCallerMailboxIsLedgered`: `Spec => []MailboxIsLedgered`, assuming `Alone`.
  Membership is not inductive, because a Steered retires the oldest entry of the
  ledger and not a named one: `LedgerInv` says that the mailbox is the end of the
  ledger, followed by the steer in hand between its `try_send` and its push.

`AcpTurnsProofs`:

* `NeverStrandsWorking`, `StreamEndsWithDone`, `QueuedSteersHaveBoundary`:
  `AcpSpec => []P` for the three boundary invariants, proved together
  (`BoundaryInv`): they need that in the main loop a turn is outstanding exactly
  while no Done has been sent, and that the Done of an interrupt is sent last.
* `SteersReachAgentOnce`: `AcpSpec => []SteerReachesAgentOnce`. `SteerInv` counts:
  the deliveries of a steer and its places (the call in flight, the backlog, the
  queue) are one once it was received and none before. The counting lemmas
  (`Count` over appended, joined and shortened sequences) rest on the cardinality
  theorems.
* `SettlesOnlyDeadTurns`: `AcpSpec => OnlyDeadTurnsAreSettled`. `WatchInv` says
  where the evidence of work is that the quiet settle looks at: a question the
  agent waits for is open or still among the unread frames, a running tool is
  known to the loop or its frame unread. `CostInv` says where Claude's cost
  frames can be: a turn that ended has left its reply, or had nobody to reply to;
  the cost of an injected message comes after the answer that marks the turn as
  steered, and none is outstanding when a turn begins.

`TurnStreamProofs` (every theorem builds on `StreamShape`, the types and the rule
that a parked or absent run has no segment):

* `RevivalsAreBounded`: `StreamSpec => []RevivalsBounded`, for every
  MAX_AUTO_RESUME; `BudgetInv` adds that the recovery that is about to spend an
  attempt still has one.
* `StreamingHasItsWriter` and `ToolsShownOnce`: from `SegmentInv`. A tool's chip
  is in one entry because the entries a run has written share no tool with each
  other or with the segment being folded, and `seen` knows them all (`Apart`).
* `OpenQuestionsAnswerable`: from `QuestionInv`, which says of the fold what the
  property says of the part list.
* `RevivesOnlyUnfinished`: `StreamSpec => NeverRevivesFinished`. `RevivalInv` has
  three parts: the snapshot is an earlier state of the document, and an entry of
  the segment being written is in it only together with the message it answers
  (`DiskInv`); a message is in one place, waiting, being worked on or about to be
  revived (`WaitingInv`); and while every crash left its turn accounted for, none
  of these has completed (`UnfinishedInv`). The crash step then combines
  `StreamingHasWriter` and `DiskInv`: what recovery finds streaming is the turn
  of the last message.

`CutoverProofs`, assuming that the devices differ and that messages and commands
do (`DevicesDiffer`, `ItemsDiffer`):

* `LineagesStayApart`: `CutoverSpec => []LineagesNeverMix`, from the shape
  (`CutoverShape`), the generations (`GenInv`: what a handle, a seed in progress
  and the disk know of the room's generation) and the lineages each copy can have
  (`LinInv`).
* `HistoryAlwaysSurvives`: `CutoverSpec => []HistorySurvives`. `HistInv` says for
  each message, outside the recorded windows (`raced`, `unsealed`, `clobbered`),
  where it is safe, which copy covers it and what the old room has of it;
  `CmdInv` that a command is in a copy that will be read or was processed.

`RegistrySyncProofs`, for any number of devices and any finite set of fields:

* `RoomClockAdvances`: `Spec => RoomClockNeverRegresses`: no merge takes the
  room's row behind a clock it has had; only a wipe does.
* `CaughtUpIsEqual`: `Spec => []CaughtUpMeansEqual`. `StreamInv` says that the
  rows on their way to a replica lead from what it holds to what the room holds;
  `LinkInv` what a connection's two queues can contain in each of its states.
* `AckedWritesSurvive`: `Spec => []AckedWriteSurvives`, from `OpsInv`: every
  acknowledged write is reflected in the room's row by its fields or newer ones,
  or by a tombstone. `Chosen`, the batches a filter keeps, is characterised by
  least counterexample, and so is the maximum of a finite set of clocks.
* `AcksNeverFlicker`: `Spec => AckNeverFlickers`. `AckInv` says that a connected
  replica's pending batches are, in this order, those whose acks are on their way
  back, those whose pushes are on their way to the room and those that wait, their
  ids rising (`InLine`); so an ack retires the first. `Fits` says that a replica
  which has read up to an ack holds a row that the ack's batch does not change:
  the room sends the merged row before the ack, and merging twice is merging once
  (`ApplyTwice`). What the device shows is a `FoldLeft` over the pending batches;
  a first batch that changes nothing can be dropped from it (`OverlayDrop`).

`Chat2SyncProofs`, for any operations and budgets of faults, assuming
`EarlyRows = FALSE` (section 2):

* `SavedCursorIsCovered`: `SyncSpec => []CursorIsCovered`. The saved cursor is
  one of many: the client's, the one read at the open, the one a checkpoint being
  posted or a rows request carries. `Cover` says of each that the document beside
  it holds the log up to there. A cursor advances to the number of a row or an ack
  just read, so `Flow` says of the frames on their way that, once each is read,
  the document holds every row up to its number. That a backfill leaves out pruned
  rows and this device's own needs two more facts: the checkpoint is contained in
  the document of a client that planned its catch-up (`Ckpt`), and after the first
  backfill the document holds all rows this device ever pushed.
* `CaughtUpHoldsTheRoom`: `SyncSpec => []CaughtUpIsConverged`: on a live socket
  the document and the unread frames make up the log (`Flow`).
* `CheckpointsForgetNothing`: `SyncSpec => RoomNeverForgets`: a checkpoint being
  posted holds the rows up to its number and the checkpoint it replaces.
* `RoomGetsTheDocument`: `SyncSpec => []NothingLeftBehind`. `LeftInv` follows an
  operation from the document to the room. `Tracked`: every operation of the
  document is in the room, queued or buffered for a push, in a checkpoint being
  posted or given up by the code (`Kept`), or an event or a bootstrap check is due
  that posts the whole document, or the client has yet to notice a wipe (`Late`).
  `Arrives` says that what an unread ack retires is in the room; `Told` that a
  state frame promises no checkpoint that is not there; `Ids` and `BatchIds` that
  a batch id stands for one set of operations in the queue, on the wire and in the
  log. `Tracked` and `Arrives` are claimed until a cursor from before a wipe passes
  for one of the new room (`fooled`), as the property is.
* `SyncTypes`: `SyncSpec => []SyncTypeOK`.

`DshLoopProofs`, with no assumption on the bounds: `DshInvHolds` is one inductive
invariant, and the four theorems follow from it. `Fine` ties the live log to the
driver: what brackets and unanswered calls are open at each await (`Link`), that
pending input has a driver that will look at it or a failed turn behind it
(`Owes`), and that each message is in one place (`Apart`). `Chain` says that the
live log is the artifact followed by the queue as long as the watermark is where
the artifact ends, that every prefix of that queue replays to a log in which each
message is in one place, which is what a crash leaves, and that only a failed
write lets the watermark run ahead. The log is a `FoldLeft`; its equations
(`Replay` of an appended and of a joined sequence) are proved by least
counterexample from the definition of the fold, since the induction theorems
cannot be instantiated.

* `LogStaysWellFormed`: `DshSpec => []LogWellFormed`.
* `ArtifactAndQueueAreTheLog`: `DshSpec => []ReplayRebuildsLog`. Under `Chain` the
  sequence numbers of the queue are consecutive and end at the live log, so the
  batch is the queue from the watermark on.
* `NoMessageTwice`: `DshSpec => []MessageShownOnce`.
* `IdleDriverOwesNothing`: `DshSpec => []IdleOwesNothing`.

Only model-checked: the liveness properties, which rest on fairness and are outside
the proof system's reach.

## 5. What is not modelled

`PROJECT.json` lists every part with its status and reason. Most of the
repository's lines have no protocol state a model would tell apart: the desktop
UI and its rendering (two fifths of the lines), the conversions of the harness
adapters (one vendor's event format to the engine's), tools, shells, file and
git access, model clients, logins, downloads. The modules take the parts that
keep state across awaits, tasks, processes or devices, so the map covers a small
share of all lines and most of the lines those parts have.

Left out within the modelled parts:

* CommandPlane: SQLite errors and pruning of the ledger, nudges, paging of the
  transcript. The `Cancelled` command status exists in the code, but nothing
  writes it. A host change of a chat that already has a row is not an action.
* SessionRuns: routing, titles, usage; prompts are names.
* RegistrySync: several rows per batch and the chunking of batches, presence and
  probe frames, `seed_from_workspace`.
* TurnStream: the text of parts (a part is its id and whether it is resolved),
  deltas, paging of the journal and its size sweep.
* AcpTurns: spawning and authenticating the agent, models and modes, the
  translation of updates; timeouts are events that may come once armed.
* Chat2Sync: encoding of versions (a version is the set of operations it
  contains), presence but for a beat before the state frame, probes, frames split
  in parts.
* Cutover: the s2 room client, which is one synchronising step.
* DshLoop: what tools and the model do, sub-agents, maintenance phases, forks,
  revisions and listing of artifacts.

## 6. Plan

1. `CommandPlane` composed with `SessionRuns` in place of `Dispatch`, and
   `SessionRuns` with `TurnStream` in place of `Finish`'s status.
2. RPC transport: request correlation across reconnects, the device room's
   nudges.
3. RegistrySync: several rows per batch, the wipe that was not noticed, rows
   broadcast before a hello; order of ledger and mailbox in SessionRuns.
