# A TLA+ verification project for teploy-observe

teploy-observe is a self-hosted observability server: one Go process
(`cmd/observe`) in front of one SQL/KV database (Nucleus), with SDKs that send it
events, errors, traces, logs, metrics and session replays. Almost all of its
60 000 lines of implementation are request handlers that read or write rows. What
is hard in it is the part that must not lose or repeat data while requests, flush
workers, fsync loops, retries, shutdowns and crashes interleave. That part is what
this project models, checks with TLC and, for its core, proves with TLAPS.

- [1. The system](#1-the-system) — inventory of the parts, their state and hazards
- [2. The modules](#2-the-modules) — what models what, and how it corresponds to the code
- [3. The runs](#3-the-runs) — what TLC checks, the bounds, the fairness
- [4. The proofs](#4-the-proofs) — what holds for every value of the constants, and why
- [5. Where code and documentation disagree](#5-where-code-and-documentation-disagree)
- [6. What is left out](#6-what-is-left-out)
- [7. Plan](#7-plan)
- [8. Running it](#8-running-it)

## 1. The system

### 1.1 The ingest data path (modelled)

```
  HTTP  ──> batch handler ──> Buffer ──────> DiskQueue (WAL, observe events)
            (dedupe cache)      │ flush          segments, checkpoint file,
                                v                committer, fsync loop
                            database
  HTTP  ──> error handler ──> ErrorBuffer ─> DiskQueue (WAL, errors)
            (admission cache)   │ flush     └> quarantine directory
                                v
                            error_inbox + error_events (one transaction)
  HTTP  ──> trace ingest ───> spans + derived_outbox (one transaction)
                                                │ dispatcher
                                                v
                            rollups, detector snapshots (SQL), markers (KV)
```

| Part | State it keeps | Operations | Hard because | Correct when |
|---|---|---|---|---|
| **Write-ahead log** `ingest/queue.go` | segment files, checkpoint file (`checkpoint`), offsets, sync horizon, dirty flag, sticky error, registered waiters | `AppendBatch`/`AppendRecords` (roll, seal, high-water), `WaitCommit`, committer loop, fsync loop, `Checkpoint`, segment GC, `Close`, open with torn-tail repair, replay | group commit runs while callers register, roll, checkpoint and close; every file operation may fail and the process may die after any of them | what was acknowledged is on disk and replayed until stored; the checkpoint file always names the log; every waiter is answered; lossy mode counts what it drops and closes its window |
| **Event buffer** `ingest/buffer.go` | queued events and their bytes, in-flight bytes, last log offset, worker error, batch deduper | `PushContext`, `Flush` (chunks, one transaction each), worker with panic recovery, `Stop`, `AttachQueue` (replay) | the flush holds no lock while it inserts; commits may be ambiguous; a panic, a stop or a failed replay can happen in the middle | the checkpoint never passes an unstored event; a durable 200 is stored or replayable; storage is once; byte accounting is exact |
| **Batch deduper** `ingest/handler.go` | per-producer keys with digests, eviction ring, a time to live | `duplicate`, `record` | a cached answer must be backed by a durable batch | answers only what was admitted durably; map and ring agree |
| **Error buffer and inbox** `errors/buffer.go`, `inbox.go`, `quarantine.go` | queued records with reservations, admission cache, gap and target of a flush, claim rows, spool | `PushContext`, `Flush`, `ApplyInbox`, `Quarantine`, `Stop`, `AttachQueue` | records become final in any order while the checkpoint is a prefix; claims and rows race retries | the checkpoint covers only final records; an identified record is applied once; every reservation is returned |
| **Derived-work outbox** `outbox/outbox.go`, `tracing/ingest.go`, `tracing/detectors/engine.go`, `jobs/retention_bounded.go` | intent rows in a replacing-merge table (latest version wins), completion markers in another store, attempts and backoff | ingest, dispatcher pass, `ProcessIDs` of the seed path, `Stop`, prune | two stores without a common transaction; versions from a millisecond clock; handler cancelled by `Stop`; merge runs whenever it likes | no derived work an answered export owes is lost; settled is final; overcount only by interruptions |

How they interact. `Buffer` and `ErrorBuffer` each own a `DiskQueue`: the append under
the buffer's mutex, `WaitCommit` outside it (the answer to the client), `Checkpoint`
after a flush, replay at attach. Nothing else calls the queue. The queue's own
goroutines (committer, fsync loop) share its mutex. `main` opens the queues, falls
back to memory-only buffers when that fails and stops the components in reverse
order of start. The outbox shares only the database with ingest and with retention.

### 1.2 Parts beside it with protocols of their own (modelled)

| Part | State | Hard because | Modules |
|---|---|---|---|
| Notification outbox `platform/notify_outbox.go` | intents per target, attempts, dispositions, maintenance windows | the POST and its mark are two steps; a mark may never be possible; the drain, the retention and a crash meet | `NotifyOutbox` |
| Alert engine, incidents, crons `platform/alerts_engine.go`, `cron_transitions.go`, `incidents/`, `monitoring/` | active incident per source, edges, intents | an edge and its intents commit together while operators close what the engine opens | `AlertEdges` on `NotifyOutbox` |
| Issue merges and lifecycle `errors/merge.go`, `errors/issues.go` | merge table and its cached copy; status row and cache entry | fetches, invalidations and operators cross; merges must stay a forest | `IssueMerges`, `IssueLifecycle` |
| Issue dispatcher and alert emitter `integrations/issue_dispatch.go`, `platform/issue_alerts.go` | bounded queues, worker slots, cooldowns, buckets, settle deadlines | slot hand-back against enqueue; drop-oldest; shutdown | `IssueDispatch`, `IssueEmitter` |
| Spike protection `errors/spike.go` | caps per minute, trailing windows, bounded maps | order of the caps, sampling, evictions | `SpikeGuard`, `SpikeDetector` |
| SDKs `sdk/go`, `sdk/python`, `sdk/browser` | client queues, retry budgets, shutdown accounts | a deadline passes while a request is under way; a replaced client drains | `SdkQueue`, `SdkMetrics`, `PySdkQueue`, `BrowserQueue` |
| Session replays `replays/` | batch ledger, session row versions, heat | repeated and conflicting batches under two ingesters | `ReplayLedger` |
| Persons, erasure `persons/` | aliases, documents, tombstones | an erasure fails between any two of its writes | `PersonErasure` |
| Audit chain `audit/` | head in memory, rows, checkpoints | an append of unknown outcome; verification page by page beside appends | `AuditChain` |
| Scheduled exports `jobs/exports.go` | runs, attempts, objects | two drains deliver the same run | `ExportLedger` |
| Self-upgrade `upgrade/` | binaries, service, health | killed between any two system calls; rollback | `BinaryUpgrade` |
| Backup `backup/` | dump lease, key-value section, manifest | writers during and after the lease; restore into a target that must be empty | `BackupArchive` |
| Rollups `jobs/rollups.go` | hourly, daily and session summaries | clear and insert are two statements; retention removes what they are made of | `Rollups` |
| Sites `sites/`, static cohorts `cohorts/`, service tokens `svctoken/`, accounts `principals/`, `auth/` | versioned rows without unique keys | repeated and lost answers, concurrent writers, no lock over a read and its write | `SiteRegistry`, `StaticCohort`, `ServiceToken`, `PrincipalStore` |
| Funnels, metric queries `query/funnel.go`, `tracing/funnels.go`, `metrics/query.go` | none | pure walks and reducers whose answer must mean what the question asks | `FunnelWalk`, `MetricReduce` |

These parts share the database and nothing else, but for three hand-overs: the error path
asks `SpikeGuard`, resolves its issue (`IssueLifecycle`, through the map of `IssueMerges`) and hands events
to the dispatcher and the emitter; the emitter and `AlertEdges` write intents for
`NotifyOutbox`; and the SDKs are the clients of the ingest handlers.

### 1.3 Parts without a model

Logs, OTLP and Sentry compatibility, flags, experiments and surveys, LLM endpoints, source maps, seeding, live
view, geo data, OIDC, the web interface: request-scoped reads and writes, rendering, or translation of
one protocol into another. `PROJECT.json` lists each with its reason. About a quarter of the
implementation is user interface.

`PROJECT.json` also lists the hazards, each at its line, with the properties that
would catch it going wrong.

## 2. The modules

```
  DurableLog ............ abstract: a FIFO with acknowledgement and crashes
    ^ implemented by           ^ used as
  DiskQueue                  Buffer         ErrorBuffer        Outbox
    MCDiskQueue(Live)          MCBuffer       MCErrorBuffer      MCOutboxPaths
    DiskQueueProofs            BufferProofs   ErrorBufferProofs  OutboxProofs
                                    \_ MCBuffers _/

  NotifyOutbox <- AlertEdges \         (AlertProofs)
  IssueDispatch ------------- MCDelivery   (liveness, small queues)
  SdkQueue ------------------/

  IssueMerges IssueLifecycle IssueDispatch IssueEmitter SpikeGuard
  SpikeDetector SdkQueue SdkMetrics PySdkQueue BrowserQueue ........ MCSignals
  (the first six: AlertProofs; the clients and MCSignals: SignalsProofs)

  ReplayLedger PersonErasure AuditChain SiteRegistry StaticCohort
  ServiceToken PrincipalStore ExportLedger BinaryUpgrade BackupArchive
  Rollups FunnelWalk MetricReduce .................................. MCRecords
  (RecordsProofs: each of them but the last two, and MCRecords)
```

`DurableLog` is the contract between the layers. `DiskQueue` is shown to implement
it (TLC, and a proof). `Buffer` and `ErrorBuffer` contain a log of their own that is
exactly that abstract one (frames, a stable prefix, a checkpoint, a crash that keeps
some prefix not shorter than the stable one) and are checked, and proved, to use it as
`DurableLog` allows (`UsesDurableLog`). This is how the layers compose: each is
checked alone against the same specification, and the byte-level log never has to be
multiplied with the event-level buffer.

`MCSignals`, `MCRecords`, `MCDelivery`, `MCBuffers`, `MCOutboxPaths` and `MCDiskQueueLive` are sums. A variable
(`focus`, `instance`, `ofErrors`, `seeded`, `lossy`) says in the first state which part or instance a
behaviour is about; the others stay in one initial state. The parts share no state, so a
product would only add interleavings of independent steps.

### DurableLog

`place` (position, 0 when not in the log), `acked`, `stored`. `Append` puts an item
behind all others, `Ack` may name only items in the log or stored, `Store(cut)` takes
a prefix, `Crash(cut)` keeps a prefix that holds every acknowledged item.

### DiskQueue — `internal/ingest/queue.go`

| Variable | Code |
|---|---|
| `first`, `active`, `base`, `offset` | `q.segments`, `q.fileSeg`, the segments' bases, `q.offset` |
| `spare` | file `active+1` exists on disk although the table does not list it (roll failed or crashed after the create) |
| `torn`, `soft` | sealed segments with a partial frame at their end; frames of sealed segments that no fsync covered |
| `end[c]` | where the frame of call `c` ends |
| `stable`, `synced`, `dirty` | up to here everything but the soft frames is on stable storage; `q.syncedOffset`; `q.dirtySinceFlush` |
| `cp`, `cpFile` | `q.cpSeg/q.cpOff`; the checkpoint file |
| `latched`, `bufErr`, `syncLost` | `q.lastErr`; the `bufio.Writer`'s sticky error; an fsync failed and the kernel dropped dirty pages |
| `call`, `signal`, `wake`, `committer` | each append/`WaitCommit` caller, the ones between registering and sending the wake token, the token, the committer goroutine |
| `done` | frames the consumer has stored |

One action is one critical section of `q.mu`; a crash inside a section that leaves
the disk in a state no complete section leaves it in is an action of its own
(`CrashInRoll`, `CrashInCheckpoint`). Every file operation that the code checks has
a fault kind (`create dir flush sync close remove cpwrite`), and the code's own
error handling decides what happens then: the sticky latch, refused appends, the
spare segment.

Abstractions. Positions are global: the code re-derives bases from zero at open, which
is a uniform shift because segments are only removed at the low end and no offset
outlives its process. There is no variable for bytes handed to the operating system and
not yet synced: a crash keeps any prefix of the active file that is at least the stable
one, which includes every such state. When an open makes a spare file the active one, the former active
segment becomes a sealed one, and nothing ever syncs it: its frames are `soft`, and a power loss
may cut it at any of them (`CutSealed`). `fsync` failure is modelled as Linux behaves:
later syncs succeed although the data is gone; `syncLost` may outlast a restart of the process alone. Statistics counters and the
legacy single-file name of segment 0 are left out.

### Buffer — `internal/ingest/buffer.go`, `handler.go`

Variables follow the struct (`events`, `queuedBytes`, `flightBytes`, `lastOffset`,
`workerErr`, `stopped`), plus `flight` (the batch a flush or a replay works on, the
target captured with it, how much of it is committed), `flusher`/`owner` (where the
flush is, and who runs it: the worker, the last flush of `Stop`, nobody), `call` (one
delivery of one request), `cache` (the batch deduper with its eviction ring) and `db`
(how often an event is in the table, saturated at 2).

A call is one delivery; a retry is another call with the same `Key` and `Batch`,
at any time, also concurrently. `Push` is the critical section of `PushContext`
(budget test, append to the log, enqueue); `Acknowledge`/`CommitFails` its
`WaitCommit`. `Detach`, `InsertChunk`, `InsertFails`, `Release`, `Checkpoint` are the
steps of `Flush` between which other goroutines run. `InsertChunk(FALSE)` is a lookup
of committed keys that failed open. `Panic`, `LatchWorkerErr`, `Stop`, `StopWorker`,
`StopFlush`, `StopClose` are the recovery and shutdown paths, `OpenQueue`,
`ReplayNext`, `Attach` and their failing variants the start.

Abstractions. The size-triggered wake-up (`flushCh`) is left out because the ticker may
fire at any moment. Replay goes frame by frame instead of in chunks of 500 events.
The log is the abstract one with a failing append, flush (sticky, as the `bufio.Writer`'s error is) and group
commit; failing fsyncs are `DiskQueue`'s subject. The deduper's record is merged with the answer of the commit. The check for erased
persons at commit, and the 24 h horizon of the committed-key lookup, are left out
(`buffer.go:795`, `:689`).

`acked` is a 200 in durable mode; `accepted` is the 200 of lossy and memory-only mode,
which promises nothing across a crash.

### ErrorBuffer — `internal/errors/buffer.go`, `inbox.go`, `quarantine.go`

As `Buffer`, with a reservation per record (`used`), a flush that disposes of one
record after another (`Final`, `Pending`, the gap and the target), the ledger
`error_inbox` that claims an identity in the transaction that inserts the row, and
the quarantine directory. `adm` is the admission cache. `AckedDisposed` takes a 200 to be about an identity and a payload: the
record that was answered, or one that says the same, is disposed of or will be replayed. `Unreadable` records do not
decode any more; `Stuck` ones fail every apply.

Abstractions. `release` is merged with the apply it follows. The worker's deadlines (35 s
a flush, 30 s an apply) are applies that may fail. Grouping, issue counters, search
index and scrubbing happen inside `Final` and are not looked at.

### Outbox — `internal/outbox/outbox.go` and its neighbours

`rows[i]` is the set of versions of an intent's row in the replacing-merge table: a
reader sees the highest (`Latest`), `Merge` may remove the others at any time or
never. `backoff` holds the intents whose `next_attempt_at` lies ahead (`BackoffEnds`
is the clock reaching it). `written` counts what a handler wrote, `marked` is the
completion marker in the KV store. `pass`, `batch`, `current`, `todo` are a
dispatcher or `ProcessIDs` pass under `processMu`. `Now` are readings of the
millisecond clock, so ties and clocks that stand still or jump back occur. `Budget`
varies from start to start.

Abstractions. The page limit of the due scan and the counters are left out. Items of a
handler run in any order. `written` saturates above the bound `OvercountBounded` speaks
of. Bucket values of rollups are not modelled: no reader uses them
(`tracing/query.go:168` reads the spans).

### NotifyOutbox, AlertEdges — `platform/notify_outbox.go`, `alerts_engine.go`, `cron_transitions.go`, `incidents/`

`NotifyOutbox` keeps, per intent, the row of the highest version as one record, and in `before` which intents
have the lesser `created_at` (those of one transaction tie, and the scan may return them either way). A pass scans its
batch, takes its rows one at a time, no row before one of the batch that `before` puts ahead of it, POSTs
it (`answered` counts what the target answers, also where the answer comes too late or a stop cuts the request), and marks it; the two are separate steps, a mark may fail, and a crash or `Stop` may fall between them. Maintenance windows, backoff, the
attempt budget and the retention are actions. `AlertEdges` extends it with what writes
intents: evaluation of a rule, check-ins and misses of a cron, and the operator, who closes and creates
incidents under the same mutex; an edge and its intents are one transaction. The evaluation ledger,
severities, silences and acknowledgements decide no transition and are left out.

### IssueMerges, IssueLifecycle — `errors/merge.go`, `errors/issues.go`

`IssueMerges` has the table of active merges and its cached copy with a revision, lookups that
fetch while operators merge, unmerge and invalidate, reads and writes that fail or lose their answer.
`IssueLifecycle` has the status row, the copy in the cache of the event's group, one event
at a time against one operator, across merges.

### IssueDispatch, IssueEmitter — `integrations/issue_dispatch.go`, `platform/issue_alerts.go`

The dispatcher's bounded queue (drop-oldest), its slots and workers, cooldown per integration and issue,
buckets with one summary an hour, and its shutdown. The emitter's queue (drop-newest), its one
drain, the settle deadline and the second read of the issue, and the intents it writes per webhook.

### SpikeGuard, SpikeDetector — `errors/spike.go`

The limiter's three caps per window in the order the code asks them, sampling, and the map of
fingerprints with its limit; the detector's current window and trailing windows, with evictions from its map.
A retry of a failed apply is counted again, as in the code.

### SdkQueue, SdkMetrics, PySdkQueue, BrowserQueue — `sdk/`

Each client's queue with admission limits, chunks, attempts, its one flush at a time, what a shutdown
waits for, and the accounts it keeps (delivered, dropped, rejected). A request may be stored although it failed;
the server knows only the browser's batch ids.

### ReplayLedger, PersonErasure, AuditChain — `replays/`, `persons/`, `audit/`

`ReplayLedger`: batches with identity and digest, the claim, the session row in versions and the
children in one transaction under a lock of the replay, heat behind it. `PersonErasure`:
merges, properties and an erasure that writes key by key and may fail or die after any write; a retry takes up the
rest. `AuditChain`: appends from a head in memory whose outcome may be unknown, re-derivation of
the head, checkpoints, and verification in pages while appends go on.

### ExportLedger, BinaryUpgrade, BackupArchive, Rollups — `jobs/`, `upgrade/`, `backup/`

`ExportLedger`: a frozen run, two drains, attempts that upload data and manifest. `BinaryUpgrade`: stop,
swap, start, health, undo; every call may fail and the updater die anywhere. `BackupArchive`: tables under a
lease, a key-value section without one, validation and restore. `Rollups`: hourly and session
summaries over their windows beside late events and retention.

### SiteRegistry, StaticCohort, ServiceToken, PrincipalStore — versioned rows

Every statement is a step, may fail, and may have been carried out when it fails. The clock shows
what it likes, so versions tie. `PrincipalStore` has the token version of sessions, sign-in,
renewal, password change, promotion and removal.

### FunnelWalk, MetricReduce — pure answers

The walk of a funnel (one pushed event at a time) and that of a trace against a reference definition
over all short sequences; the rate and quantile reducers against what the counted processes really did.

## 3. The runs

Twelve runs. Every property of a passing run is also checked to
*fail* for a plausible bug in the code it is about (`PROJECT.json`, `mutants`): the
mutated operator stands beside the original in the module, marked `Mutant:`.

| Run | Question | Instance |
|---|---|---|
| `wal_durable` | Does the durable log keep what it acknowledged, whatever crashes and fails, and is it a `DurableLog`? | 3 calls, frames of 2 or 3, segments of 4, budget 6, all faults but fsync, 2 crashes, either of which may cut a soft segment |
| `wal_live` | Is every `WaitCommit` answered, also by a failing disk and by `Close`, and by how much can the budget be exceeded? In lossy mode: is every dropped segment counted, and does the fsync window close? | two queues: durable, 3 calls, segments and budget of 4, flush and fsync faults; lossy, segments of 3, 1 crash |
| `wal_torn_sealed` | *violation*: a sealed segment can be torn | 2 calls, 1 crash |
| `wal_ack_after_latch` | *violation*: after a failed fsync the fsync of `Close` makes lost bytes count as synced | 2 calls |
| `buffers_durable` | Do the checkpoints of both buffers stay behind what is final, is a durable answer kept, are the budgets exact, is nothing stored twice? | events: a batch, its retry, another batch under the same key sharing an event; errors: a record, its retry, an unreadable one; failing appends, flushes, inserts, commits; 1 crash |
| `buffer_stored` | The same promises with lookups that fail and a memory-only fallback; is what was acknowledged stored in the end; does the buffer use the log as `DurableLog` allows? | two batches with two keys in a cache of one, buffer of 2, every fault |
| `error_disposed` | Is the checkpoint a final prefix, an identity applied once, every record disposed of in the end beside one that never applies? | two payloads under one identity, one stuck record, failing flushes, applies, checkpoints and starts, panics |
| `outbox_paths` | Is owed work kept and derived in the end, settled work final, overcount bounded by interruptions? | two instances: one export, budgets 1 and 2, clock readings 0 and 1, 1 crash, 1 prune; one seed export, timeouts, 1 stop |
| `outbox_pruned` | *violation*: retention brings a processed intent back | no faults, 1 prune |
| `delivery` | One incident per fault, recoveries behind openings, deliveries repeated only by an interruption, an end for every intent, and shutdowns that end? | a rule with a hook: failing targets and a stop; the same with prunes instead of stops; a cron with a hook: failing marks, a stop, a crash, a prune; both with two incidents and no hook; the dispatcher; the SDK's queue with two entries |
| `signals` | Is what `MCSignals` sums sound? | see `Signals.cfg`: two or three of each thing |
| `records` | Is what `MCRecords` sums sound? | see `Records.cfg`: two writers of each record |

### Why the bounds are enough

*Log.* Two frames of 2 and 3 bytes against a segment of 4 give a segment with room for
one frame, one that is exactly full and one whose next frame rolls it; a budget
of 6 is reached with one sealed segment and the third frame; with three calls
there is a frame behind the checkpoint, one acknowledged past it and one being written.
Two crashes give a crash during recovery from a crash. Calls are symmetric and the run
uses that (no liveness in it); the liveness runs do not.

*Buffers.* A retry, a key reuse and a shared event are the three ways two calls can
meet; chunks of one event make every flush of a batch stop in the middle; a
cache of one key makes eviction happen at the second key. One crash is enough
because after it a process starts from log, checkpoint and table alone, and every
such combination is reached (the proofs do not bound it). The faults are divided among the
three runs; each run has those its questions are about.

*Outbox.* One export has two intents (rollup and detector), which is where the
interleavings are; two findings make a detector stop in the middle. Clock readings are
chosen freely at each write, so two readings give ties, progress and a step back.

*The sums.* Two actors per lock, key or row, and one more item than a queue holds: the
second actor makes the races, the extra item the eviction, the drop or the refusal. Clocks run two or
three windows past the horizon they are compared with. Retries go one past their budget.

`CHECK_DEADLOCK FALSE` everywhere: calls are finite and a stopped process stops.

Bounds named in the modules: `MaxCrashes`, `MaxStops`, `MaxPrunes` and the `Max...` constants of the
parts; saturation of `db` and `rows` at 2 (`StoredOnce`, `AppliedOnce` tell only 0, 1, more
apart) and of `written` at `Cap`.

### Fairness, and why the code justifies it

- *Goroutines and callers run* (weak fairness on the committer, the fsync tick, the steps
  of a flush and the `recover` of its panic, a dispatcher pass, a caller that holds the answer of its commit): Go's
  scheduler, tickers that re-arm, mutexes that are held for one section.
- *A process that is down is started again* (weak): the service manager restarts it. Nothing
  says it then stays up; crashes are bounded only so that the state space is finite.
- *A transaction tried again and again at the same place commits* (strong, `Buffer`): the
  assumption the code itself makes. It has no exit for a batch the database always refuses
  (hazard `buffer.go:743`). `ErrorBuffer` assumes it only of records that are not
  `Stuck`, because there a bad record must not hold up others.
- *A disposition or a mark tried again and again is written* (strong, `Outbox`, `NotifyOutbox`);
  nothing is assumed of handlers and targets, which may fail every time and then dead-letter.
- *Some worker of the dispatcher goes on, and its shutdown returns at its deadline* (weak); the
  SDK's flush goes on and its deadline passes (weak). Nothing is assumed of integrations and servers.
- *Not assumed*: that a client calls, that a flush succeeds, that `Stop` or a panic does not
  happen. `AckedIsStored` and `AckedIsDisposed` therefore end in "or the process was
  shut down, its worker died, or it came up without its log": the record is then in the log, and the safety
  properties say so.

## 4. The proofs

| Theorem | Module | States | Assumes |
|---|---|---|---|
| `TypeCorrect` | DiskQueueProofs | `TypeOK` | — |
| `DurableInvariant` | DiskQueueProofs | the inductive invariant `LogInv` | `Reliable` |
| `AckedFramesDurable` | DiskQueueProofs | `AckedDurable` | `Reliable` |
| `CheckpointFileNamesLog` | DiskQueueProofs | `CheckpointNamesLog` | `Reliable` |
| `RefinesDurableLog` | DiskQueueProofs | `ImplementsDurableLog` | `Reliable` |
| `BudgetAndOneSegment` | DiskQueueProofs | `CapOvershoot`: the budget and one segment | durable, no removal fails, a frame fits a segment: `CapOvershoot` says so itself |
| `DurableQueueCapped` | DiskQueueProofs | `DurableCapOvershoot`, the same of the durable queue in `MCDiskQueueLive` | as above |
| `DropsCounted` | DiskQueueProofs | `DropsAreCounted`, in both sync modes and under every fault | — |
| `AckedItemsKept` | DurableLog | an acknowledged item is in the log or stored | — |
| `CheckpointNeverPasses` | BufferProofs | `CheckpointCovered` | — |
| `DurableAckNeverLost` | BufferProofs | `AckedRecoverable` | no fsync fails |
| `BufferStoresOnce` | BufferProofs | `StoredOnce` | no `lookup` fault: `StoredOnce` says so itself |
| `BufferUsesDurableLog` | BufferProofs | `UsesDurableLog` | no fsync fails |
| `BufferBudgetExact` | BufferProofs | `BudgetExact` | — |
| `BufferTyped` | BufferProofs | `TypeOK` | — |
| `CheckpointIsFinal` | ErrorBufferProofs | `CheckpointFinal` | — |
| `AcknowledgedIsDisposed` | ErrorBufferProofs | `AckedDisposed` | no fsync fails |
| `OneIdentityOnce` | ErrorBufferProofs | `AppliedOnce` | — |
| `ErrorsUseDurableLog` | ErrorBufferProofs | `UsesDurableLog` | no fsync fails |
| `ErrorReservationsExact` | ErrorBufferProofs | `ReservationsExact` | — |
| `ErrorBufferTyped` | ErrorBufferProofs | `TypeOK` | — |
| `BuffersTyped` | ErrorBufferProofs | `BuffersTypeOK` of both buffers | — |
| `LogsKept` | ErrorBufferProofs | `LogKept` of both buffers | no fsync fails |
| `BothBudgetsExact` | ErrorBufferProofs | `BudgetsExact` of both buffers | — |
| `RowsAreOnce` | ErrorBufferProofs | `RowsOnce` of both buffers | no `lookup` fault: `StoredOnce` says so itself |
| `TypeCorrect` | OutboxProofs | `TypeOK` | — |
| `AcknowledgedIsKept` | OutboxProofs | `DerivedOrKept` | — |
| `SettledIsFinal` | OutboxProofs | `SettledForGood` | — |
| `OvercountIsBounded` | OutboxProofs | `OvercountBounded` | no `torn` and no `marker` faults |
| `AlertTyped` | AlertProofs | `AlertTypeOK` | — |
| `AnswersAreOwed` | AlertProofs | `OverdeliveryBounded` | — |
| `OpeningsFirst` | AlertProofs | `OpeningFirst` | — |
| `SettledIntentsFinal` | AlertProofs | `NotifySettledFinal` | — |
| `OneEdgePerFault` | AlertProofs | `EdgesOnce` | — |
| `TokenTheorem` | RecordsProofs | `TokenSound`, `TokenTypeOK` | — |
| `UpgradeTheorem` | RecordsProofs | `UpgradeSound`, `UpgradeTypeOK` | — |
| `ExportTheorem` | RecordsProofs | `ExportSound`, `ExportTypeOK` | — |
| `ReplayTheorem` | RecordsProofs | `ReplaySound`, `ReplayTypeOK` | — |
| `PrincipalTheorem` | RecordsProofs | `PrincipalsSound`, `PrincipalTypeOK` | — |
| `SiteTheorem` | RecordsProofs | `SitesSound`, `SiteTypeOK` | — |
| `CohortTheorem` | RecordsProofs | `CohortSound`, `CohortTypeOK` | — |
| `BackupTheorem` | RecordsProofs | `BackupSound`, `BackupTypeOK` | — |
| `RollupTheorem` | RecordsProofs | `RollupsSound`, `RollTypeOK` | — |
| `AuditTheorem` | RecordsProofs | `AuditSound`, `AuditTypeOK` | — |
| `PersonTheorem` | RecordsProofs | `ErasureSound`, `PersonTypeOK` | — |
| `RecordsTheorem` | RecordsProofs | `RecordsSound` of the composed specification | — |
| `RecordsTyped` | RecordsProofs | `RecordsTypeOK` of the composed specification | — |
| `DispatchTheorem` | AlertProofs | `DispatchSound`, `DispatchTypeOK` | — |
| `EmitterTheorem` | AlertProofs | `EmitterSound`, `EmTypeOK` | — |
| `LifecycleTheorem` | AlertProofs | `LifecycleSound`, `LifecycleTypeOK` | — |
| `MergeTheorem` | AlertProofs | `MergesSound`, `MergeTypeOK` | — |
| `DetectorTheorem` | AlertProofs | `DetectorSound`, `DetectorTypeOK` | — |
| `GuardTheorem` | AlertProofs | `SpikeSound`, `SpikeTypeOK` | finitely many fingerprints: `SpikeAssumption` says so |
| `IssuesTheorem` | SignalsProofs | `IssuesSound` of the composed specification | — |
| `SdkTheorem` | SignalsProofs | `SdkSound`, `SdkTypeOK` | — |
| `PyTheorem` | SignalsProofs | `PySdkSound`, `PyTypeOK` | — |
| `MetricsTheorem` | SignalsProofs | `MetricsSound`, `MetricTypeOK` | `MtKinds`: no key of a counter is a gauge's or a histogram's too |
| `BrowserTheorem` | SignalsProofs | `BrowserSound`, `BrTypeOK` | — |
| `DeliveryTheorem` | SignalsProofs | `DeliverySound` of the composed specification | `MtKinds` |
| `SignalsTyped` | SignalsProofs | `SignalsTypeOK` of the composed specification | `MtKinds` |

They hold for any number of calls, events, records, exports, intents, updaters, batches, frame sizes, budgets, clock
readings and crashes and any set of fault kinds, under the named assumption each module makes of its
constants and what the last column adds. `Reliable` (durable mode, no fsync reported failed) is needed
where `wal_ack_after_latch` shows the code to be wrong without it; the logs inside the buffers have no failing fsync
at all, which is what "no fsync fails" stands for. A `torn` or `marker` fault is a
write, or a completion marker, that is carried out and reported as failed, or fails alone after the SQL transaction
has committed: the handler then counts again on its retry although nothing was interrupted, which is the write-then-mark residual that
`tracing/detectors/engine.go:80` describes, and no bound on crashes and stops explains it. The run of
`OvercountBounded` excludes the same faults.

Put together: `RefinesDurableLog` says that, as long as no fsync fails, the durable queue is a FIFO of which a crash takes only what it has
not acknowledged; `BufferUsesDurableLog` and `ErrorsUseDurableLog` say that both write-behind buffers keep to
that FIFO's rules; `DurableAckNeverLost` and `AcknowledgedIsDisposed` say what a client
gets from it: a durable 200 means stored, or in a frame that the next start replays.

*The log's argument.* `AckedDurable` is not inductive: a crash cuts the log at any place
that is at least `stable`, an open moves the checkpoint to wherever its file points, and a GC
removes segments up to it. `DurableInv` adds what the code relies on:
`LogShape` (segments are contiguous and ordered, every frame ends at or before `offset`),
`SyncShape` (`synced <= stable <= offset`, sealed segments end at or before `stable`, no pages were
dropped), `CheckpointShape` (both copies of the checkpoint name a segment that exists
and a frame boundary at or before `stable`, and only stored frames lie behind them) and
`CallShape` (frames are stored in order; what a call's state says about its frame; a soft frame is stored or was never acknowledged).
A power loss may cut a soft segment below the place the checkpoint file names in it. So the invariant is `LogInv`: `DurableInv`, or `StrandedInv`,
in which the process is down and all that is left of the checkpoint is that what lies before the first segment is stored; the
next open finds the position past the end of its segment and falls back to the start of the log, which gives `DurableInv` back. The
core of the proof is that `Checkpoint` in all its partial failures and `CrashInCheckpoint`
keep `CheckpointShape` for both copies, and that an open with a spare segment does
too. Each action has a step; the crashes and the open are lemmas of their own. On the invariant a frame
is in the log exactly when it has an end and is not stored, which is what the refinement mapping reads off.

*The budget's argument.* The budget is looked at when a segment rolls and not when one is opened, so `CapOvershoot` needs `CapInv`: what is
sealed is within the budget, the active segment within its own, and a next file that a roll left behind (`spare`), which the
next start makes the active one without looking, exists only beside a log that is within the budget as a whole, and latches a queue that
is up. The last point is decided by the order of a checkpoint: it collects first and rolls afterwards (`queue.go:1145-1171`), so a crash
in it leaves a spare file only once its collection is complete.

*The drops' argument.* `DropsAreCounted` holds in both modes and under every fault, so it cannot rest on `LogInv`. `DropInv` is what is left then: the segments of
the table behind either copy of the checkpoint hold stored frames only, so no collection takes another one; only the cap of the lossy queue goes further, and it looks
for an un-acked frame in each segment that it drops.

*The buffer's argument.* `CheckpointCovered` says nothing about the next checkpoint. What
makes it safe is that **every event of a frame between the checkpoint and `lastOffset` is
accounted for**: stored, in the batch in flight with the target captured beside it
(`FlightCovers`), queued (`MemoryCovers`), or about to be replayed (`ReplayCovers`). A panic
breaks the accounting: it drops the batch in flight. The invariant survives because the
panic is latched as a worker error, and with a worker error neither the worker nor `Stop`
flushes again (`buffer.go:377`); this is the one line of shutdown code that the whole promise
rests on. `CacheSafe` says that the deduper only knows batches whose events are
recoverable, which is what lets it answer a retry.

*The error path's argument.* Here a checkpoint is not where a flush ended but the end of the longest prefix
without a gap, and what is put back is put back in front of what came in between. So the invariant orders the queue:
`QueueOrdered` says that pending, remaining and new records are frames of the log, in its order, in this order of the three;
`QueueCovers` that every frame behind the checkpoint is disposed of or among them; `TargetFinal`
that everything up to the target a batch has earned is disposed of, whatever the batch still finds. Together they make
the next checkpoint safe although records become final in any order. `CacheSafe` says of the admission cache that for each identity
it vouches for, a record with that identity and payload is disposed of or will be replayed;
`AckedDisposed` says the same of every durable 200, the one that the cache gives to a retry included. `AppliedOnce` is
inductive as it stands: the ledger row and the event row are of one transaction. Both buffers need one more fact for their
refinement, `LogOnce`: a call is in one frame at most, and its 200 follows the group commit of that frame.

*The budgets' argument.* Both buffers refuse by a counter of bytes that is added to and taken from at different places, by client and worker.
`Cost`, a fold over the queue, has the laws it needs (of an element put in front or at the end, of two queues joined, of a queue cut) by induction over the positions of the
sequence, which are well founded. `BudgetKept` says that `queuedBytes` is what the queue costs and `flightBytes` what the flushed batch costs,
together within the budget; only a worker that panicked, which nothing follows, has credit that nobody gives back. So the clamp at zero (`NotNegative`) never acts, and a
requeue exceeds no budget because its credit was never given up. `ReservedKept` says the same of the errors' one counter, with the pending records
of a batch as a third place, and during a replay, which reserves nothing yet, that what is held pending was looked at against the budget; the attach then
reserves just that. For `TypeOK` of the errors, `Unplaced` adds that what a process without its log has queued has no place in it.

*The outbox's argument.* `DerivedOrKept` and `SettledForGood` rest on four facts: a pass holds the newest row of an
intent while it has taken it (`VersionsAdvance`: its disposition, one version higher than the row it read, is then the latest, also when the
clock stands still), a dispatcher pass holds unsettled intents only (`DueOpen`), what is marked or neither in the
handler's list nor written has been written (`WorkDone`), and an answered export has its rows until its work is complete (`Owed`).
`OvercountIsBounded` needs an account (`CountsExplained`): each count beyond the first is paid for by a crash or a stop
(`Toll`); a process that is stopping may still owe one or two to come (`Ahead`: its pass, and a seed pass after it); an item
that is written and not yet marked is one interruption short (`Unsettled`), and one that is marked is never written again.

*The alerts' argument.* `OverdeliveryBounded` needs an account again (`AnswersOwed`): a pending intent has been
answered at most once for each of its failed attempts and for each failed mark, crash and request cut by a stop so far (`Owed`), once more while a pass holds an outcome
it has not recorded, and any intent at most once more than `Owed`. A stop cuts one request: there is one pass, and it takes no other row (`CutsOK`).
What orders a recovery behind its opening is not the drain alone: a pass holds no intent without every older one that was
never tried (`DrainInOrder`), the opening of an incident is older than its recovery (`OpeningBefore`), a recovery exists only for an
incident that is closed (`RecoveredClosed`), and no step turns the order of two intents around or lets a settled row come to life again
(`OrderStays`, `SettledStays`). `NotifyInv` speaks of no incident and `AlertInv` of no pass, so the proof of the edges uses three
facts about a step of the outbox and none of its internals. `EdgesOnce` is an action property and follows from the invariant: the
engine opens under the mutex and on the row it read there, so where it opens nothing is open.

*The service token's argument.* Verifying a token and revoking it write rows of one token without a common lock. `Revoke`
answers after it has read a revoked row, and no prune of `noteUsed` takes a revoked row, so every later read finds one.
The prunes never empty the table because where a verifier is about to prune, a row at least as new as its own is left (`Covered`):
its own, or the one of the verifier whose prune took its own. A verifier that nobody disturbed writes above every row of a use and prunes all of
them but its own (`AloneAbove`).

*The upgrade's argument.* `NothingLost` follows from where the two versions are at each step of the one updater that has the lock
(`Located`): up to the rename the version found is live, from then on it is the previous one and the candidate is live, and
after the restore it is live again. Only "restart" allows both, since a failed sync may or may not have been undone. No report stands
while an updater is at work (`WhereBinaries`), so one that says "upgraded" or "restored" speaks of what no other has touched. `NoDowngrade`
holds because the version installed is read under the lock: what was announced is never above what an updater found.

*The export's argument.* Outside `overlapped` one drain at most executes a run (`DrainedAlone`), so what it uploaded is what the
bucket holds when it marks the run finished (`UploadsStand`). A run that waits has an attempt left (`AttemptsLeft`), which is what bounds its tries.

*The replay's argument.* A request holds the replay's lock until it ends, so what it found stays true: no other site has a session,
no row of this batch, and the session row its own version follows (`Ingests`, `Extends`). The pages counted are the batches taken, a finite set that
a commit makes greater by one (`TakenFinite`).

*The accounts' argument.* A rewrite under the lock and a sign-in beside it do the same to an account: they make one row its newest,
above every other, and change no other account (`Renews`). Every token minted says no more than that row (`Dated`): a rewrite that changes
role or password raises the token version above all of them, one that keeps the version keeps both. The setup's account is the only one of
its origin because no call is between its count and its insert while there is one (`SetupFirst`).

*The sites' argument.* What a call read under `managedMu` is still so when it writes (`Holds`): the steps that do not take the lock,
the deletions, only make sites and mappings fewer. So a reference is given to one live site at most and a site
that was answered has its mapping. A cached privacy setting is that of the row, or a write of the row has yet to drop it, or has failed
(`SettingKnown`); the same holds of what a miss has read and not yet put in, because it holds the cache's lock meanwhile and an invalidation has to wait.

*The cohort's argument.* The rows of an edit have one version, above that of every row before it, and while it is under way nobody else
writes (`EditsAbove`). So the list that the rest of the edit makes (`Reached`) is the same before a chunk and after it, in whatever order the
chunks go; a chunk alone leaves the list between the old one and the new, within the limit. An edit that fails leaves rows of its
version behind, which the next version passes because it is taken from the rows and not from the summary.

*The backup's argument.* Every upload has a number of its own, so a value once seen gone does not come back (`GoneForGood`): a key
that was read twice the same was so at the listing between the two (`KeysRead`), which is the moment of the section. While the window is open
the lease holds and every dumped table is as it is now (`TablesHeld`). The completion record is written last, and a restore
applies sections in order to a target that was empty (`Restoring`).

*The roll-ups' argument.* What a roll-up has cleared stays at nothing until the fill that follows (`ClearedStays`), so the fill adds to nothing twice.
Retention takes the oldest events and a late one is younger than any of those (`RawIsLast`); so what a session's row has counted is among what is
read, or older than all of it (`ReadIsLast`), which is what the row's bounds tell apart.

*The audit chain's argument.* Unless an insert landed late, every row's chain begins every later one's and no row is missing
(`OneChain`); a head in memory is the top of the table, and so was the head that an insert of unknown outcome went on from (`HeadIsTop`). A
verification stays on rows of that chain, and the checkpoint it compares with lies before its watermark (`WalksRows`), so it finds nothing broken.
Late inserts or not, if the chain was forked when the verification began, two rows that disagree are still ahead of the walk or in the chain it has
walked (`ForkIsAhead`); two rows of one sequence number on either side of a page's end are what `Straddles` is for.

*The erasure's argument.* The way from a key is the least set that has it and is closed under aliases. No key is on the way from its own alias
(`NoCycle`), so a walk of as many steps as there are keys ends at a root, and merging moves one whole group, detaching splits one.
What somebody asked to erase is one group until it is gone (`SoughtTogether`); everything in one group with a key that is yet to be detached is
tombstoned and blanked, or about to be (`ErasureCovers`). So an erasure that fails half way leaves a group that its retry finds whole.

*The dispatcher's argument.* A notice that enters the queue finds a free slot and a worker for it, or all slots held (`NotifyKeepsDispatch`), and the look at an
empty queue and the way out of the drain are one critical section; so a notice in the queue has a worker with a slot. Whoever tells an integration of an issue has its
cooldown entry and is alone with it (`ClaimedByOne`); a worker has one notice while it is at one and none otherwise (`OneNotice`). The slots are a finite set that one
step makes greater by one, below the limit only.

*The emitter's argument.* Drain and queue hold the events in the order they came, behind everything handed over (`EmQueuedInOrder`), and a row
that has not landed is not yet due (`EmClocked`): so a read at an event's deadline counts the event and all before it (`EmNumbersRise`); where the read
failed or the process is stopping, the payload counts the event alone. A number is spent for each event emitted, one of them possibly still to come (`EmNumbersSpent`), which bounds them; an issue's numbers
rise until the map of them is full, when they start again in a later epoch.

*The lifecycle's argument.* An event reads the cache entry or the row, and acts on what it read two statements later. What it has seen is still so unless somebody
touched its group meanwhile (`LcJudged`), and an event and a change that meet know of each other (`LcApart`), which is what `disturbed` stands
for. Only an event that moved the row and has not stored the entry is ahead of the cache (`LcFollows`); every other disagreement is one of the ways `strayed` names.

*The merges' argument.* That every issue's links end within `MaxMergeDepth` is said of walks of that length, which are functions the recursion has to be
shown to have (`HopsExist`). What a merge writes was checked on the very table it changes, for every issue (`MgWritesAForest`), and the lock of the site holds the table
still between the check and the write (`MgOneRequest`); taking a link away needs a proof of its own, that a walk of the new table is the old one or has stopped at the issue let go
(`UnmergedStillEnds`). What a lookup read may be cached if nobody has invalidated since, and is then the table or about to be invalidated (`MgReadFresh`).

*The detector's argument.* "Once an hour" survives evictions because what is evicted was touched last before the hour began: an issue that
fired is tracked with that time, or an hour has passed (`DtGated`). The windows of a trail are those of the last hour, `TrailIsCut` bounds them.

*The guard's argument.* A window's account of what was kept, thinned, exempted, refused and created is by fingerprint, and the caps are on sums over fingerprints;
the sum of a column as the fold defines it is shown to grow row by row (`RowByRow`, by induction over the well-founded subsets of a finite set). An issue is charged to
the cap of new issues before it is made (`GdCharged`), also when an apply fails and the fingerprint comes again. What was thinned for the site was past its fair share *then*; the
share is the cap divided by the number of fingerprints tracked, which only grows within a window, so it is past it now (`GdSteady`). What an issue keeps of a flood is
within the quota of its own count (`GdFlood`), unless the map was full and the count not kept.

*The Go client's argument.* One sender has the mutex and every other is at rest (`SqHolds`), so where it is says what of the queue's head is in its hands, what the server
has of it and what is already counted. A chunk is the head of the queue until it is counted, also when the queue overflows meanwhile: the sender that has the mutex is
then not between taking and counting. The attempts the server saw of the head are those its spans were part of, which `SpansKeepTheirBudget` needs at the one step that gives them up.

*The Python client's argument.* The queue is always the run of `n` records after the first `b` admitted ones (`PyRun`), and a request under way is its head. A chunk that leaves the queue moves `b` by its
length, and what was delivered are at most those of the first `b` that the server has; a transport that was abandoned and ends later finds its records
still at the head or gone for good.

*The metrics' argument.* An observation is in the buffer, in an envelope, delivered or lost (`MtCovered`). A snapshot makes cumulative points of counters and clears the rest, so
what is live always holds an observation that no earlier snapshot has seen (`MtFresh`): a point that is made is a new one, and can be counted once. One flusher works at a time and holds the head of the pending
envelopes; envelopes share no point, and what is owed is not counted yet, except by a shutdown that gave up on it and may see it arrive after all (`MtApart`, the overcount of section 5). A counter's points rise along
the envelopes, behind what has arrived and up to its total (`MtRises`). The code does not keep the kinds apart where it looks up a key (`metrics.go:324` uses what a counter
has registered); a point is named by its key here, so the theorem is about programs that use one name for one kind, as the run does.

*The browser's argument.* What is queued is the active request, the frozen ones and the buffer, in one line that rises (`BqOrder`); each way of an event from one to the
next keeps the line or cuts off its head. A request keeps the events its id was given for and no two at rest share an id (`BqApart`), so an answer acknowledges what the server got. The byte account is twice the buffer
and the weights of all requests, those of a drain after `unload` included (`BqBooks`): an event reserves two so that freezing it into a request of its own never lacks room. The
laws of `FlattenSeq` are proved along the cuts of a sequence (`BqCut`), a function whose values are shown to exist by the least number that has none; the sum over the set of a drain's requests by the same over its enumeration.

*The types of the records.* Those of `MetricReduce` have sums in them, which its bound on observations (`mrSeen`) bounds: what each process
has counted in a bucket is at most what all have observed so far, and so is the number of restarts, since a process with nothing counted does not restart.

*The compositions.* No step of `MCRecords` or `MCSignals` moves the focus, and a part out of focus stays where it is; so a step does to each part one of
that part's steps or nothing (`PartsStepOrStay`), the composed specification implements every part, and `RecordsSound`, `RecordsTypeOK`, `IssuesSound`, `DeliverySound` and `SignalsTypeOK` follow from the theorems of the parts.
A behaviour of `MCBuffers` is one of both buffers, since the one it is not about never moves: the event buffer's theorems are taken over by an `INSTANCE` of `BufferProofs` for the calls, events
and sizes of `MCBuffers`, the error buffer's hold as they are.

*Only model-checked.* Everything temporal (`WaitersResolved`, `LossyWindowCloses`, `AckedIsStored`,
`AckedIsDisposed`, `AckedIsDerived`, `NotifySettles`, `ShutdownsEnd`): liveness under fairness is out of the
prover's reach. `AnswersSound` (what the walks and the reducers answer, which are folds).

## 5. Where code and documentation disagree

Three disagreements have a run that TLC violates:

1. **`wal_torn_sealed`.** `rollLocked` (`queue.go:963-1012`) creates the next segment before it
   flushes and syncs the old one. A crash, or a flush that fails for lack of space followed by a
   restart, leaves the old segment torn while a higher-numbered file exists. Open repairs
   only the highest-numbered file and `streamFrames` refuses the torn one, so the process goes
   on without its queue. The comment at `queue.go:408` says only the active segment can carry a torn tail. Nothing
   acknowledged is lost (`AckedFramesDurable` covers these states); it is not replayed
   until someone repairs the file.
2. **`wal_ack_after_latch`.** After a failed fsync latched the queue, `Close` flushes and syncs
   once more, successfully, and sets `syncedOffset` to the end of the log (`queue.go:1417-1426`); a `WaitCommit` that comes then tests
   coverage before the latch (`:779`) and acknowledges bytes that the failed fsync lost. The contract at `queue.go:28` says otherwise.
   `Checkpoint` publishes its fsync the same way (`:1137`), a second way to the same state.
3. **`outbox_pruned`.** Retention deletes the processed version of an intent and leaves those
   it superseded (`retention_bounded.go:130`); the due scan then sees the intent as pending and derives it again, a week late.
   `OvercountBounded` shows that the completion markers keep this from counting anything twice.

Observed while modelling, without a run of their own:

- *Log.* `queue.go:49` says the total budget bounds all segments; the test at `queue.go:717` is made only when a
  segment rolls, so the log may exceed it by the active segment. `DurableCapOvershoot` states and checks the
  bound that does hold.
  The comment at `queue.go:480` calls the checkpoint boundary known to be durable; where a reopening has sealed a segment
  that nothing synced, a power loss may cut it below that boundary (the open then replays from the log's start).
- *Errors.* `errors/inbox.go:15` promises producers without an event id exactly-once replay by the server; a crash
  between the apply and the checkpoint replays the record and inserts it again. The spike limiter counts
  an event again on every retry of a failed apply.
- *Outbox.* `tracing/detectors/engine.go:81` names a crash as the cause of an overcount; `Stop` (`outbox.go:446`), which cancels a
  handler between its write and its marker, is another. `OvercountBounded` counts both.
  `ProcessIDs` on an intent that is already processed can make it pending again when its handler
  fails (`outbox.go:240`); `SettledForGood` excludes exactly this step.
- *Alerts.* A `CheckMissed` that works from a stale scan can leave a cron incident open
  (comment at `main.go:735`). A suppressed row may already have been posted. Retention
  removes a row only once the engine has merged what it superseded.
- *Issues.* The ignored flag of a cache entry is lost after a lookup that missed a merge. A regression may be told twice
  after a bump that was attributed to a merged issue.
- *Issue emitter.* `issue_alerts.go:222` says `Stop` waits for the event in flight; its context is
  cancelled, so that event's intents fail.
- *Spikes.* Sampling with N = 1 keeps everything (`spike.go:89`); an eviction changes the
  verdict for an issue idle between 60 and 65 minutes (`spike.go:402` says it does not).
- *SDKs.* `Dropped` of the Go metrics counts what a deadline leaves behind although a request under way may still deliver it
  (`observe.go:424`); log entries that ride in the head chunk of others are dropped after fewer than the
  promised attempts; the Python client's `log()` may raise from its flush although the entry is queued; a
  deduplicated acknowledgement makes the browser client count more as delivered than was stored (`index.ts:1026`).
- *Exports.* Two drains of one run may leave a ledger checksum of the other's object and take a finished run back.
- *Upgrade.* A failing rename of the undo (`upgrade.go:651`) is reported as a failed swap although the candidate is in place.
- *Replays.* Two batches in the same millisecond and heat bucket collapse; heat is lost when the commit's answer is.
- *Sites.* Creating the default site again makes a leftover mapping live (`sites.go:453` calls it inert). A privacy
  write whose answer is lost leaves the cache stale.
- *Accounts.* A renewal reads the row again after it checked the token version, so a bump in between is carried into the
  renewed token. A crash may leave a bootstrap claim (documented, `auth.go:230`).
- *Service tokens.* A prune at equal clocks can leave two rows.
- *Rollups.* `rollups.go:38` says a lost hour heals itself; the next tick's window starts an hour later, so the oldest
  cleared bucket is not filled again. Retention deletes in chunks without an order, so a session roll-up between two chunks may
  find the entry event and miss later ones. Session summaries ignore events behind their watermark.
- *Queries.* The retention grid's period count is one more than the buckets that start in an unaligned range. The published
  evaluation order of flags (`flags/eval.go:402`) differs from the code's (`:419`).

## 6. What is left out

Section 1.3 and the `not_modelled` components. In the modelled parts: counters and logging;
request decoding, validation, enrichment and rate limits; the erasure check at event admission; all wall-clock
horizons other than those named above (a deadline is a failure that may happen, a
backoff or a cache entry ends at any time); what a stored error does to its search index.
The database is external: a transaction commits, fails, or commits without
its answer; KV and SQL have no common transaction. Statements that land after they were given up are
modelled where the code re-reads because of them (`AuditChain`) and left out elsewhere. Second
processes on one database, audit key rotation, stream tickets, API keys, MCP tokens, the SDKs' flag and replay
clients and the minified tracker are left out, as is the case of two restores that both pass the emptiness check.

Steps that the code makes in two and a model in one: a retention pass of `Rollups`, which the code does in chunks (section 5);
`PyLoses`, whose removal is under the lock and whose count is not (`client.py:559-573`), so `PyAccounted` is not claimed between the two. The run
`records` has one session per account, so that TLC does not exercise the mint of a renewal; `PrincipalTheorem` covers it for any number. A failing
fsync, and the loss of unacknowledged frames in the middle of the log, are in `DiskQueue` only and not repeated in the buffers.

Hazards that no property covers: the poison transaction at `buffer.go:743`, which the code
has no exit for (a fairness assumption here); and, not in `PROJECT.json`, the committed-key lookup of `Buffer`, which
reaches back 24 h (`buffer.go:689`); one slow error record that uses up the time of a whole flush
(`errors/buffer.go:562`); spans, which have no batch ledger, so that an exporter that retries after a lost answer stores
them twice (`tracing/ingest.go:165`).

## 7. Plan

Done: the ingest path (`DurableLog`, `DiskQueue`, `Buffer`, `ErrorBuffer`, `Outbox`), the modules beside it, and
the proofs of section 4.

Modules that could follow: source maps (uploads beside prunes), OIDC sign-in, flag evaluation, uptime
checks, API keys, cohort trees, retention grids, webhooks.

The proof that remains is `AnswersSound`: the greedy walk of a funnel against its definition, and the sums of the reducers.

## 8. Running it

```
tlc -workers 2 -config DiskQueueDurable.cfg MCDiskQueue     # any run: see PROJECT.json
tlapm BufferProofs.tla                                      # any proof module
```

`PROJECT.json` maps every definition that models code to the lines it stands for, every run to
its configuration and properties, every property to a mutant, and every hazard to the properties that cover it.
