# A TLA+ model of git-ai's daemon

git-ai records which lines of a repository were written by AI agents. Its daemon
watches git through trace2 events, receives *checkpoints* (snapshots of edited files)
from agents over a control socket, puts both in one order per repository family (all
worktrees that share a git directory), and from that order derives authorship notes. If
a commit and a checkpoint are processed in the wrong order, lines are attributed to the
wrong author; if a sequencer stops, attribution for the whole repository stops; if a
durable checkpoint is applied twice, or an accepted one forgotten, attribution is wrong for
good. This project models the ordering machinery, the way of a checkpoint into and out of
the daemon, the attribution of reflog entries to commands, the durable checkpoint jobs and the
upload queue of the notes, checks them with
TLC and proves their main guarantees with TLAPS.

Source paths below are relative to the repository; `daemon.rs` is `src/daemon.rs`.

## Inventory of the system

| Part | State | Operations | Interacts with | What is hard |
|---|---|---|---|---|
| Trace readers (`daemon.rs`) | per-root maps of `TraceIngressState`: open connections, argv, start time, family, mutating flag, reflog offsets, close markers | open root, track frame, capture offsets, enqueue, close | ingest queue, drain's blocked check | one thread per connection; the lock is dropped for the reflog walk; kills, child processes of the same root |
| Ingest queue (`daemon.rs`) | bounded channel, sequence counter, reorder buffer, processed number | reserve, number, send, receive, apply, publish, notify | readers, ingest worker, admission | send order differs from number order, overflow, lost wake-ups |
| Trace normalizer | pending, deferred and completed roots | start, def_repo, cmd_name, exit, orphan sweep | ingest worker | frames missing or out of order |
| Family sequencer (`daemon.rs`) | map family -> ordered entries, next ordinal; slot of each pending root | append pending root, replace, append command, append checkpoint, drain, collect | ingest worker, admission, drain tasks | order across sources, gates, nobody left to drain |
| Execution locks (`daemon.rs`) | map family -> lock | look up, lock, unlock, evict | every drain | eviction racing a drain that holds or awaits the lock |
| Checkpoint admission (`daemon.rs`) | quota, receipt counter, unadmitted counter, ingress channel | accept, wait for trace, admit, fail, schedule drains | control socket, ingest worker, sequencer | the gate between acceptance and admission, shutdown |
| Deferred checkpoint jobs (`metrics/deferred_checkpoint_jobs.rs`) | SQLite rows with state, lease token, owner, attempts | enqueue, claim, renew, applied, complete, fail | admission, recovery worker | lease expiry, crash between effect and completion |
| Deferred commit and lifecycle jobs (`metrics/`) | as above | as above | side effects | as above |
| Notes upload queue (`notes/db.rs`) | rows with synced flag, processing lock, attempts | upsert, dequeue, mark synced, mark failed, cache | uploader, fetch | note rewritten while an upload is in flight |
| Metrics database (`metrics/db.rs`) | telemetry records and delivery locks | insert, claim, delivered, failed | telemetry worker | stale locks, retries |
| Family actor, reducer | applied commands, sequence | apply command, checkpoint | sequencer drain | sequential |
| Ref cursor (`daemon/ref_cursor.rs`) | offset, anchor and consumed entries per reflog | capture offset, enrich command | trace readers, family actor | reflog read later than written, offset captured by another thread, reflog rewritten by expiry |
| Stream worker (`daemon/stream_worker.rs`, `streams/`) | task queue, watermarks | sweep, process, retry | checkpoint notifications, telemetry | crash between emit and watermark |
| Notes sync (`git/sync_authorship.rs`) | refs/notes/ai | fetch, merge, push with retries | git remote | concurrent pushes |
| Daemon life cycle | shutdown flag, health counters, restart budget | request shutdown, health check, restart | everything | restart loops, abandoned work |
| Authorship algorithms (`authorship/`) | none (pure) | diff, shift, merge attributions | side effects | arithmetic at boundaries |
| CLI, hook installers, auth, CI, API clients | configuration files | - | - | I/O only |

What makes each part correct: the readers and the queue deliver every frame of a root
once and in order; the sequencer runs the entries of a family in the order in which the
commands started and the checkpoints were received, each exactly once; nothing that stops
a family stays forever; one drain per family at a time; every accepted checkpoint ends.

## Modules

* `FamilySequencer` - the core. Git processes, one reader per connection (a root's and
  one of a child process), the ingest worker, checkpoint admission, drain tasks and
  the sequencers of all families.
* `TraceIngestQueue`, `IngestOrder` - the queue between the readers and the worker, and
  the abstract promise it implements (frames applied in acceptance order; a fence passes
  only when everything accepted before it is applied).
* `FamilyExecLock` - the map of execution locks with the collector that evicts them.
* `CheckpointIntake` - one checkpoint from its control connection to its execution, refusal
  or the end of the process: quota, acceptance gate, ingress worker, drains, `sync.family`,
  shutdown and teardown.
* `DeferredCheckpointJobs` - the durable checkpoint jobs across daemon generations.
* `NotesQueue` - the notes table as upload queue and read cache.
* `RefCursor` - how a finished command finds its record in the HEAD reflog of its worktree.
* `FamilySequencerProofs`, `FamilySequencerFirstProofs`, `TraceIngestQueueProofs`,
  `FamilyExecLockProofs`, `CheckpointIntakeProofs`, `NotesQueueProofs`,
  `DeferredCheckpointJobsProofs`, `RefCursorProofs` - theorems.
* `MC...` - the instances for TLC: symmetry sets and constants that a `.cfg` cannot write.

The modules share the same code at their borders. The core relies on two others: it takes from a queue that delivers in number order
(what `ImplementsIngestOrder` says of `TraceIngestQueue`) and lets at most one actor hold
a family's lock (what `MutualExclusion` says of `FamilyExecLock`). `CheckpointIntake` has the
same admission and drains as the core with one family and no git commands, and adds what the
core leaves out: quota, requests that wait, and the end of the process. An entry that the core
executes is, for a durable checkpoint, a live execution of `DeferredCheckpointJobs`; for a git command
it is an `Enrich` of `RefCursor`, which takes the order by start time from the core.

### FamilySequencer and the code

State: `openConns`, `rootStarted`, `rootFamily`, `rootMutating`, `readOnly`, `offsets`,
`active` and `marked` are the maps `root_open_connections`, `root_started_at_ns`
(with `root_argv`, set and removed together), `root_families` (with `root_worktrees`),
`root_mutating`, `root_definitely_read_only`, `root_reflog_start_offsets`,
`root_last_activity_ns` and `root_close_markers_enqueued` of `TraceIngressState`.
`entries`, `nextOrdinal` and `slots` are `family_sequencers_by_family` and
`pending_root_slots`; `processed` is `processed_trace_ingest_seq`; `enqueued` is
`next_trace_ingest_seq`; `unadmitted` is `unadmitted_checkpoints`. `ready[F]` is the batch
a drain has popped and not yet run, `log[F]` the history of what ran.

Each lock region of the code is one action. A reader handles a frame in three: `OpenRoot`
(`trace_root_connection_opened`), `Track`, split by `Capture` where the code releases the
ingress lock for the reflog walk, and `Send` (`enqueue_trace_payload`). The end of a
connection is `Close` (`record_trace_connection_close`) and `SendMarker`. The ingest worker
takes one payload (`IngestFrame`, `IngestAtexit`, `IngestClosed`), then awaits the family's
lock to replace or append the root's entry (`WorkerReplace`, `WorkerAppend`), clears the
root's tracking (`WorkerClear`) and drains the family or all families (`WorkerSnapshot`,
`WorkerDrain`, `WorkerDone`); every `GcInterval` payloads it collects (`WorkerGc`).
`BeginDrain` is the locked part of a drain: nothing while a checkpoint is unadmitted, else
the longest prefix without a pending root and without an entry blocked by an open root;
`Execute` runs one entry. Checkpoints are `AcceptCheckpoint`, then `AdmitCheckpoint` or
`FailAdmission`, which schedule a drain task when the last admission ends (`TaskSnapshot`,
`TaskDrain`).

Git commands are abstracted to the classes that the ordering tells apart: `commit` (ordered
in its family), `pull` (ordered, with mutating children), `clone` (mutating, not ordered),
`alias` (of a commit, recognised only at exit), `status` (definitely read-only), `add`
(everything else). A root writes start, def_repo and atexit frames; the other frames that
the readers keep change nothing that is modelled. A killed root closes without atexit.

Simplifications, each of which merges steps that nothing can come between or leaves out a
path that cannot be reached: the blocked check of a whole batch is evaluated at once (the
code takes the ingress lock per entry; a reader may move in between, which can only end the
batch earlier or later, as a later drain would); acquiring the lock, changing the entry and
popping the batch are one step; the limit of two concurrent family drains is not modelled
(no more families than that occur); `replace_pending_root_entry` always finds the slot's
entry (`PendingRootsWillResolve` shows it); a panic in the admission worker, shutdown and the
quota are left out; the full queue is in `TraceIngestQueue` only.

### TraceIngestQueue and the code

A reader reserves a slot (`Reserve`, or `Refuse` when the channel is full or closed, which
shuts the daemon down), takes a number (`TakeNumber`), sends (`Send`). The worker's `select!`
is `Receive` or, with an empty channel and shutdown requested, `Stop`; the inner loop is
`Ingest`, `Publish` (store of `processed_trace_ingest_seq`), `Notify`, and `ReceiveNext` when
the next number has not arrived. Overflow of the reorder buffer and a duplicate number stop
the worker. An admission is `SetFence` (the number read at acceptance), then the loop of
`wait_for_trace_ingest_seq`: `Enroll` (`enable`), `Check`, `Sleep`, `Wake`. The channel's
permits and `Notify` are tokio's and modelled from their use.

### FamilyExecLock and the code

`Lookup` is `side_effect_exec_lock` (create on demand and clone, under the map's mutex),
`Queue` and `Acquire` the `lock().await`, `Unlock` and `DropHandle` the end of scope of guard
and Arc, `Collect` the `strong_count > 1` retention of `gc_stale_family_state`. A lock identity
may be reused once nobody refers to it.

### CheckpointIntake and the code

A connection thread is `Reserve` (the unlocked look at `accepting_checkpoints` and
`CheckpointIngressQuota::reserve`), `BodyFails` or `ChannelClosed`, and the acceptance block,
split where it has drawn its number and not yet sent (`BeginAccept`, `EndAccept`): it holds the
lock of the sequencer map, which `request_shutdown` does not take. The ingress worker is
`TakeReceipt`, `Admit` or `PrepareFails` (an error or a caught panic), `Record`
(`record_checkpoint_admission_processed` and the drain that the last admission schedules) and
`WorkerStops`. `Drain` is `drain_ready_family_sequencer_entries_locked` for whoever holds the
execution lock. `sync_family` and the Shutdown request are waiters that go through admission,
gate, drain and check; `Finished` is where they differ. The process ends through
`StopTakesEffect`, `InternalShutdown` or a `HealthCheck`, then `CountAbandoned` and `Exit`, by
teardown or by the deadline enforcer. After `Wedge` nothing on the runtime moves; connection
threads, health loop and enforcer are threads of their own.

`HealthCheck` is one turn of `daemon_socket_health_check_loop`: it fails on a Ping or trace probe that
fails or after `MaxStalls` turns in a row (12 in the code) with trace payloads queued and none processed;
a failure is deferred while checkpoints are retained, at most `MaxDeferrals` times in a row, and a turn
without failure resets that count. What it reads of the trace queue comes from `TraceQueued` (reader threads)
and `TraceProcessed` (the ingest worker). Ping is answered on a connection thread and the probe by
reader threads, so neither tells whether the runtime moves: **a runtime that hangs with no trace
payload queued passes every check, and nothing ends that process**. `Unnoticed` names that state;
`ReservationsEnd` and `RequestsReturn` except it, and `WedgedExits` starts from a hang with a payload queued.

Left out: trace waits and git commands (in the core), the error paths that only a poisoned mutex
reaches (one of them opens acceptance again after a failed drain), and other families (a
`Shutdown` drains all of them; a checkpoint's family does not matter for the quota and the gate).

### DeferredCheckpointJobs and the code

`row` is the table (`absent` until inserted), `outbox` counts the metric insertions, `log` is the
sequence of checkpoint traces in a repository's working log, `exec` one record per execution of
`process_specific_job`: a daemon generation has a live one (a sequencer entry) and a recovery one.
An execution is the durable steps of `process_claimed_durable_checkpoint_job` one by one: claim,
`PersistPrepared`, `RenewForPublication`, `ReadLog` and `WriteLog` (the two halves of
`append_checkpoint_idempotent`), `MarkApplied`, `Complete`; a row already applied goes from the
claim to `Complete`. Each statement that is fenced by the lease token finds it gone in
`LostLease`; `TransientError` is any other failure, whose record may itself fail;
`EvidenceError` is `mark_blocked`. `LiveFault` and `RecoveryFault` are errors before the claim (registration
of the family, `status_global`, `claim_specific_global`). A live execution that failed gives up its admission
(`ReleaseOwner`), unless that fails too (`ReleaseFails`, or a `LiveFault` that lasts), which the code only logs
(`daemon.rs:6006-6019`): a row that is still pending is then owned by the living daemon, whose recovery
skips it until the process ends or the checkpoint is admitted again. `faults.kept` remembers such rows, and
`JobsSettle` excepts them and what is behind them in the repository (`HeldByStranded`). `Heartbeat`, `ExpireHeld`, `ExpireOrphan` and `BackoffElapses`
are the clock. `Shutdown` releases the daemon lock while threads run on, `Kill` ends the process.
`Repair` is `git-ai repair checkpoint-baseline`, which holds the daemon lock.

A token is named after the execution that drew it, which is enough because an execution that
still runs cannot claim again. `StallsInPublication` says whether a process may stop for longer
than its lease between the renewal and the write of the log: the code has no defence against that
(`PublicationKept` then fails: a paused owner writes its old copy of the log over what its
successor appended), and the comment at `daemon.rs:1436` claims none. All else may stall at will.

### NotesQueue and the code

`note` is the table, `written` and `remote` what this machine wrote last and what the server
holds; contents are version numbers. `Upsert` is `upsert_note`; `FetchMissing` and `FetchDone` are
`warm_cache_for_commits` with the request between them (the answer and the write to the cache are one step;
apart, an older content of the server could be cached, which the properties do not tell apart); `Select`, `LockRows` and `ReadRows` are
the statements of `dequeue_pending`, which runs outside a transaction; `Upload` is the request
with any part stored and an answer or none; `MarkSynced`, `MarkFailed` and `Evict` are the
functions of these names. Writing the result may fail as well, which is `Crash` after `Upload`.
`notes_migrate` is left out, and the backend is taken to be configured and logged in: `flush_notes`
returns before the dequeue otherwise, and notes wait.

### RefCursor and the code

`reflog` is `logs/HEAD` of one worktree, with records of length one (so an offset is a position and the
anchor of an offset is the record's id); `cursor` holds `offsets`, `anchors` and `consumed_offsets` with
`consumed_anchors` for that key, and `None` as offset when there is none. `Begin`, `Finish`,
`FinishInPlace`, `Fail`, `Untraced` and `Expire` are git: one process at a time moves HEAD, a hook may replace the subject of a
commit, records appear that nobody traced (also one that leaves HEAD where it is), and expiry removes the
oldest. `Capture` is the unlocked walk of the trace reader, at any time after the command began;
`LoseCapture` drops its result because the root was closed meanwhile. `Enrich` is `enrich_command` for
the next command: `SeededCursor` and `CommandStartHint` are
`initialize_from_command_reflog_start_offsets`, `ValidCursor` is `reflog_start_offset`, `FindEntry` the
search by message and then by command window, `ConsumeEntry` the consumption with its compaction.

Commands are `commit`, `commit --amend` and `reset`. A reset to where HEAD is, and an amend that changes
nothing within the second, write a record with equal ids, which `read_reflog_entries` drops, and a reset of
paths writes none (`FinishInPlace`; a reset without target can only end so or fail). Such a command has no
record of its own, and `select_candidate_with_hint` (`ref_cursor.rs:1826`) falls back to an equal-looking
record of another command, if an unconsumed one is there: the properties claim nothing of it and say so.

Object ids are not compared: a commit is found without its old id once the message is known; a reset
without target would be compared by its old id where that is known, so the model lets it match more
records than the code. The seconds of start and finish are equal, and
the branch reflogs, which follow the HEAD record by its pair of ids, are left out, as are the spans of
rebase, pull and cherry-pick and the stash stack.

## Runs

| Run | Checks | Instance and why it is enough |
|---|---|---|
| `SequencerOneRoot` | `TypeOK`, `AttributedRootFirst`, `LaterCommandWaits`, `ExactlyOnce`, `PendingRootsWillResolve` | one root of every class but pull, with a child connection and a kill, one checkpoint, two families (root and checkpoint may differ), clock steps 0 and 1, collection every 2 payloads: every reader, worker and admission interleaving of one root |
| `SequencerLiveness` | `CheckpointsInReceiptOrder`, `ExactlyOnce`, `CheckpointsComplete` | two checkpoints with equal timestamps and one killable commit, under fairness |
| `SequencerOtherFamily` | `CheckpointsComplete` violated | one commit, one checkpoint, two families |
| `IngestQueue` | `TypeOK`, `NoGapNoDuplicate`, `ImplementsIngestOrder`, `FenceReleased` | two readers with two frames each on two slots and one waiting admission, under fairness: full queue, reordering, overflow, shutdown |
| `ExecLock` | `MutualExclusion`, `HandlesCurrent`, `DrainsServed` | three drains, two families, lock identities reused |
| `DeferredJobs` | `TypeOK`, `LogOnceInOrder`, `PublicationKept`, `MetricsOnce`, `OnePublisher`, `JobsSettle` | a pre and a post of one repository, two generations with a live and a recovery execution each, one error (before the claim, at the release, over both, or after the claim), any number of lease expiries, blocks and repairs |
| `NotesUpload` | `TypeOK`, `NoNoteLost`, `NotesSettle` | one commit with three contents, two uploaders, two crashes, three attempts; rows share nothing but the answer to their batch, and a row stored in a failed batch looks like a lost answer, so one row meets every case |
| `NotesRewrite` | `SyncedIsCurrent` violated | one commit with two contents, one uploader |
| `IntakeShutdown` | `TypeOK`, `QuotaExact`, `SyncAdmits`, `StopLosesNothing`, `RetainedWereCounted`, `ReservationsEnd`, `RequestsReturn`, `WedgedExits` | two checkpoints of one byte, one `sync.family`, one Shutdown request, one deferral, two stalled turns: the gate closed by the other checkpoint at every step of a waiter, the stall counter and the deferrals at their limits and reset before. Bodies that do not fit into the quota together are left to `IntakeSync` and to the theorem `QuotaIsExact` |
| `IntakeSync` | `SyncProcesses` violated | as above, with bodies that fit together or not |
| `RefCursor` | `TypeOK`, `TimelyOwnsItsEntry`, `LateOwnsItsEntry` | two commands of any kind, moving HEAD, leaving it in place or failing, two subjects, an untraced record, an expiry, the second command in the same seconds or later: a cursor that is cold, seeded, clamped or stale when the second command comes |
| `RefCursorCold` | `ColdFailsClosed` violated | one command after one untraced record |

The core's instances have one git process. Order between two processes, and with any number of families
and checkpoints, is what the theorems about `AttributedRootFirst`, `LaterCommandWaits`, `ExactlyOnce` and
`PendingRootsWillResolve` state (see Proofs).

Bounds: each root, checkpoint and child occurs once (`Roots`, `Checkpoints`, `Children`), the
clock moves only when one of them does (`Ticks`), a reader of the queue model has `MaxFrames`
frames, a repository has `MaxEntries` admitted checkpoints at a time and executions make
`MaxFaults` errors, failed releases among them (the last daemon generation stays up), a health loop counts to `MaxStalls` and `MaxDeferrals`, a commit gets `MaxVersion`
contents and uploaders crash `MaxCrashes` times. A worktree sees `MaxCommands` traced commands, of which
`MaxLag` may wait for their enrichment, `MaxUntraced` other records and `MaxExpiries` expiries; `Gaps` are
the seconds between commands. `GcInterval` is 2 instead of 500, so that a collection happens between any two kinds of
payload. Deadlock is checked where the system cannot come to rest (`ExecLock`); the other
instances end when all their git processes and checkpoints are done.

### What the four violations show

* `SequencerOtherFamily`: a mutating root whose family is not known (before its def_repo frame, or
  after its atexit frame cleared its tracking and before its connection is closed) blocks the
  checkpoints of every family. If the only drain that an admission scheduled falls there, nothing
  drains again: the end of the root drains the root's family, the close queues no marker. The
  checkpoint waits for some later event of its family.
* `NotesRewrite`: `mark_synced` marks by commit id; a note rewritten while its older content was on
  the way is marked as synced and not uploaded again.
* `IntakeSync`: `sync_family` may drain while a new checkpoint keeps the gate closed and look at the
  gate after that one was admitted; it then returns with an older checkpoint still in the sequencer.
  What does hold is `SyncAdmits`.
* `RefCursorCold`: `docs/daemon-trace2-ingestion-spec.md` (144-145, 203-204, 212, 230-231) says that the
  first traced command of a cold repository fails closed when it was captured late, and only seeds the
  baseline. The code does not: a commit captured after its own record seeds nothing (the offset is the end
  of the log, and `command_can_clamp_non_authoritative_cold_seed` admits cherry-picks only), and
  `enrich_commit` takes the first record of the whole log with its message. If that message is unique it is
  the right one (`LateOwnsItsEntry`, which states what the code does and is more than the document
  allows); if an untraced commit had the same message, the commit is given that one's record.

Two more can be seen by changing constants of the core. `CheckpointsComplete` with `Kinds =
{"status"}` and one family: a read-only command blocks the only drain while it is registered and not
yet known to be read-only, and its close wakes nobody (`daemon.rs:4476`).
`PendingRootsWillResolve` with `Kinds = {"pull"}`, a child and a kill: the marker of a child
connection that closed before the root's own connection was registered suppresses the root's marker,
and the pending entry of the killed root stays (`daemon.rs:4479`). The early marker also clears the
root's ingress state, so that `AttributedRootFirst` fails with the same constants. The class `pull` is
therefore left out of the passing runs.

Weaker promises that the models make visible: admission waits for the frames queued at acceptance, not
for those an exited command still has in its socket (`FamilySequencer`, `FencePassed`); such a commit can
be overtaken by a checkpoint accepted after it had exited. With the def_repo frame queued the order is
right: `AttributedRootFirst`. A note fetched for the cache replaces what was written
since the look for it (`NotesQueue`, `FetchDone`); receipts that a panicking ingress worker drops are
never counted as abandoned (`CheckpointIntake`, status `lost`); the count of abandoned checkpoints may
include some that a drain still executes before the process exits.

In `RefCursor` the conditions of the properties are needed. `TimelyOwnsItsEntry`: this command and all before
it were captured while they ran, nothing expired between the capture of one of them and its enrichment
(`steady`; expiry at other times is allowed and is what the anchors are for), the commands before it were given
what they wrote, and it moved HEAD or failed; the full claim also needs that no hook replaced its own
subject. An expiry between capture and enrichment makes the captured offset itself stale, which nothing
notices. `LateOwnsItsEntry`: nothing has expired so far, each command so far moved HEAD or failed and
matches no record but its own, and only commits were captured late. A late capture of a `reset` or of a failed
command seeds a cold cursor past records that it, or the next command, wrote, and those are never found.
With late captures a record can even be given to two commands, although the cursor is meant to bound the
candidates to unconsumed entries (`ref_cursor.rs:1814`): as long as the cursor is cold, consumed entries
are remembered beside it, and the first command that seeds it clears them
(`initialize_reflog_cursor`). Three commands show it: `commit -m a`, captured after its own record, which
is not the first one in the log; a commit without `-m`, captured after its own record too, which clamps
the seed to the start of the log and takes the record of the third; and `commit -m a` again, which is left
with the first one's.

### Fairness

`FairSpec` of the core: every reader thread, the ingest worker, the admission worker and the
drain tasks keep running (OS threads and tokio tasks that are never blocked except by the
waits modelled), and a started git process ends. Nothing makes git start, a child connect or a
checkpoint arrive. Weak fairness suffices everywhere: a disabled drain waits for a lock that
`Execute` releases. `TraceIngestQueue`: an enqueue once begun ends, the worker and the waiting
admission run. `FamilyExecLock`: a drain once begun goes on.

`CheckpointIntake`: reads of a control connection time out, so some connection thread that can move does;
while the runtime does not hang it runs some task that can run (one condition for all of them: no order
among tasks is assumed); the answer to a Shutdown takes effect, and the health loop and the enforcer always
run. Trace payloads, hangs and the outcomes of the probes are not fair. `DeferredCheckpointJobs`: a
daemon is started again, sequencer entries and recovery passes (every three seconds) run, threads go
on, clocks pass; a release is tried once and may fail; lease expiry under a live holder, errors, crashes and repairs are never fair.
`NotesQueue`: with a configured backend and a login the flush loop runs every three seconds, and time passes; the server's answers are not
fair, which is why `NotesSettle` ends in upload or in exhausted attempts.

## Proofs

All theorems hold for every value of the constants that satisfies the assumptions named in
the modules (`ConstantsAssumption`, `QueueAssumption`, `LockAssumption`, `IntakeAssumption`,
`NotesAssumption`, `JobsAssumption`, `RefCursorConstants`): finite sets, identifiers that are told
apart (the core's `NoSlot` is no slot, the ref cursor's `None` no anchor), positive intervals and
capacities.

* `TraceIngestQueueProofs`: `TypeCorrect`, `NumbersAreSafe` (`NoGapNoDuplicate`) and
  `QueueRefinesOrder` (`ImplementsIngestOrder`). The inductive invariant says that the
  history of accepted frames has one frame per number, that what is numbered, in the channel
  or in the buffer carries its own frame and a number above the worker's, and that the worker's
  number and the published number follow the applied frames. The refinement then needs one
  case per action; only `TakeNumber`, `Ingest` and the fence steps are not stuttering.
* `FamilyExecLockProofs`: `TypeCorrect`, `HandlesStayCurrent` (`HandlesCurrent`) and `Exclusion`
  (`MutualExclusion`). The invariant adds that the queue of a lock holds exactly its active
  drains once each and that a draining one is at its head; eviction keeps it because it spares every
  lock that some drain has a handle on, also one that has not queued yet.
* `FamilySequencerProofs`: five theorems. `WellFormed` and `TypeCorrect` (`TypeOK`): `TypeOK` is not inductive;
  `Shapes` adds that a payload about to be sent is one, that the worker has a root, a slot and an
  outcome when its next step needs them, that exactly the checkpoint entries name
  checkpoints, and that `unadmitted` is the length of the admission queue (without which
  it could go below zero).
  `LaterCommandsWait` (`LaterCommandWaits`) is the ordering promise to
  a checkpoint. The property is about the log only; `OrderInv` carries it there in three parts.
  `Heard`: a start time recorded, sent, queued or held by the worker is unknown or right, and only
  started roots have one (so no step of `GitStart` changes a time in use). `Placed`: entries carry
  the time of what they stand for, ordinals are fresh, so no insertion overwrites an entry, and a
  slot leads to its root's own pending entry, so a replacement cannot take a checkpoint's.
  `Tracked`: an accepted checkpoint is in the admission queue, an admitted one in the sequencer or
  the batch, an executed one in the log, and a batch that holds a command holds every earlier
  checkpoint that has not run. The last is where the admission gate and the prefix order enter
  (`DrainOrder`, `BatchPrefix`); garbage collection is harmless because it only resets the
  ordinals of an empty sequencer (`PlacedQuiet`).

  `ReceiptOrder` (`CheckpointsInReceiptOrder`) and `PlacedOnce` (`ExactlyOnce`) are the conservation
  theorems. `ReceiptInv` orders the receipts of a family: log before ready batch before sequencer
  before admission queue, with times that follow them. `RootInv` follows the frames of a root through
  the queue (in order, behind the one its reader is at), so that a root starts once and ends once, and
  keeps its one entry where its slot says until the worker replaces it; what is popped or replaced
  is therefore in one place before and after.
* `FamilySequencerFirstProofs`: `PendingRootsResolve` (`PendingRootsWillResolve`) and
  `AttributedRootsFirst` (`AttributedRootFirst`), under `AllPlain`: no ordered command of the behaviour
  has a child process that mutates references itself, which leaves out only `pull` with a child. The condition is needed:
  the connection of such a child can put a close marker before its root's own connection is known, and
  TLC finds counterexamples to both properties with it. `ConnInv`: while a plain root's
  connection is open nobody clears its ingress state (the connection count covers root and child, and
  no marker is under way), so start time and family reach the def_repo payload. `EndInv`: a
  pending entry's end is still to be read, sent, queued or applied. `FirstInv`: a root whose def_repo
  frame is queued is counted, its entry is in front of everything that came later (`InFront`) or the
  frame is in front of the trace fence that an admission or a later command waits for (`AdmissionWaits`,
  `FramesWait`). The four invariants, `OnceInv` among them, were checked with TLC
  on one root with a child in two families (2.5 million states) and two roots in one family (1.3
  million) before they were proved.

* `CheckpointIntakeProofs`: `IntakeTypeCorrect` (`TypeOK`), `QuotaIsExact` (`QuotaExact`), `SyncsAdmit`
  (`SyncAdmits`), `StopsLoseNothing` (`StopLosesNothing`) and `RetainedCounted` (`RetainedWereCounted`).
  One invariant serves all: every checkpoint is in the one place its stage says (`Placed`), the gate
  counts the ones accepted and not admitted (`GateCounts`), receipts are numbered in order (`Numbered`),
  what a sync waits for is still ahead of it (`WaitedFor`), reservations are held from the quota to the
  end of a checkpoint and nowhere else (`QuotaKept`, sums over finite sets), and the shutdown flags
  go forward only (`Closing`).
* `NotesQueueProofs`: `TypeCorrect` and `NotesKept` (`NoNoteLost`). `KeptInv` adds that a synced row
  has something on the server, that an uploader which was told of success has all its rows there, and
  that what an uploader sends is some content; eviction is then safe because it takes synced rows only.
* `DeferredCheckpointJobsProofs`: `TypeCorrect` and `MetricsPublishedOnce` (`MetricsOnce`), without
  any assumption on stalls. `RowInv` adds that row ids are unique and below the counter and that a row
  in processing is the unblocked head of its repository. Every action changes the table in one of a
  few ways (kept, created, claimed, failed, finished), each of which is shown once to keep the
  invariant.
  `LogSafe`, `SinglePublisher` (`OnePublisher`), `PublicationsKept`
  (`PublicationKept`) and `LogsInOrder` (`LogOnceInOrder`) hold under `~StallsInPublication`. `LogInv`
  adds to `RowInv` that a publisher holds a fresh lease (so, being the head of its repository, it is
  alone there), that the log it read is still the log, that an execution past the write has its
  checkpoint in the log, and that the rows in a log are older than every outstanding one but its head
  (so an append is in order).

* `RefCursorProofs`: `CursorTypeCorrect` (`TypeOK`) and the two action properties, `TimelyCommandsOwn`
  (`TimelyOwnsItsEntry`) and `LateCommandsOwn` (`LateOwnsItsEntry`), each under the conditions listed above,
  for logs and lags of any length, where TLC reaches two commands. Records are told apart by their numbers, which expiry does not change (`Numbered`).
  `OwnInv` adds that the records of commands are in the order of the commands (`EntriesInOrder`), that the
  first record after a timely capture is the command's own while nothing expires, since the git processes
  of a worktree exclude one another (`CapturedBefore`), and that, as long as the commands so far meet the
  condition of one of the properties, the anchor and the consumed entries of the cursor have smaller
  numbers than the records still to be found (`CursorBehind`). The anchor check then makes a stale offset
  harmless (`ValidBehind`): an offset that survives it stands for the number of its anchor.

Every invariant and action property of the passing runs is stated by a theorem. Only model-checked is
liveness
(`CheckpointsComplete`, `FenceReleased`, `DrainsServed`, `JobsSettle`, `NotesSettle`,
`ReservationsEnd`, `RequestsReturn`, `WedgedExits`), which the prover does not reach.

## Not modelled, and plan

Order of further work, most important first:

1. The rest of the ref cursor (branch reflogs, spans of rebase, pull and cherry-pick, stash stack) and the
   reducer that it feeds.
2. Stream worker and watermarks; notes sync with remote retries; the restart budget, whose file
   two processes may read and write; `hunk_shift` as operators against a reference definition.
3. Deferred commit and lifecycle jobs: the claim and lease statements of `DeferredCheckpointJobs`
   without a file to publish.
4. Proofs: the weaker order that `pull` with a child process still keeps.

Left out for good: the command line, hook installers, upgrade, login, CI and HTTP clients
(I/O and configuration editing), logging and telemetry upload, and the parts of the
attribution algorithms that work on file contents through git.
