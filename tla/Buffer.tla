------------------------------- MODULE Buffer -------------------------------
(***************************************************************************)
(* The ingest path between the HTTP handler and the database: the batch    *)
(* handler with its admission cache (internal/ingest/handler.go) and the   *)
(* write-behind Buffer with its flush worker, shutdown and recovery        *)
(* (internal/ingest/buffer.go).  The write-ahead log under it is the one   *)
(* DurableLog describes: a sequence of frames with a stable prefix and a   *)
(* checkpoint, cut by a crash somewhere behind the stable prefix.  Its     *)
(* writes and flushes may fail; an fsync that fails, after which a later   *)
(* one proves nothing, is in DiskQueue and not among the faults here.      *)
(*                                                                         *)
(* A call is one delivery of one request; a producer that retries sends    *)
(* another call with the same Key and Batch, at any time.  An action is    *)
(* one critical section of b.mu or of the cache, one transaction, or one   *)
(* log operation.  The ticker may wake the worker at any moment, so the    *)
(* size-triggered wakeup (flushCh) adds no behaviour and is left out.      *)
(***************************************************************************)
EXTENDS Integers, FiniteSets, SequencesExt

CONSTANTS
  Call,              \* deliveries of requests
  Event,             \* event identities: (site, event id)
  Batch,             \* the prepared events of a call
  CacheKey,          \* (site, producer, batch) keys
  Key,               \* the cache key of a call, NoKey for a request without ids
  NoKey,
  Size,              \* serialized size of an event
  MaxSize,           \* count cap of the buffer
  MaxBufferedBytes,  \* byte budget, queued and in flight
  ChunkSize,         \* events per insert transaction
  CacheMax,          \* keys the admission cache remembers
  MaxDigestsPerKey,
  Lossy,             \* the queue was opened WithLossySync
  RequireWAL,        \* OBSERVE_REQUIRE_WAL
  FaultKind,         \* the failures the environment may produce
  MaxCrashes         \* bound on crashes

Faults == {"append", "flush", "insert", "ambiguous", "lookup", "panic",
           "checkpoint", "open"}

ASSUME BufferAssumption ==
  /\ Batch \in [Call -> Seq(Event)]
  /\ \A c \in Call : Batch[c] # <<>>
  /\ NoKey \notin CacheKey
  /\ Key \in [Call -> CacheKey \cup {NoKey}]
  /\ Size \in [Event -> Nat \ {0}]
  /\ MaxSize \in Nat /\ MaxBufferedBytes \in Nat
  /\ ChunkSize \in Nat \ {0} /\ CacheMax \in Nat \ {0}
  /\ MaxDigestsPerKey \in Nat \ {0}
  /\ Lossy \in BOOLEAN /\ RequireWAL \in BOOLEAN
  /\ FaultKind \subseteq Faults
  /\ MaxCrashes \in Nat

VARIABLES
  proc,         \* "down" | "recovering" | "up" | "stopped" (the queue is closed)
  attached,     \* b.queue # nil; otherwise the process runs memory-only
  log,          \* the frames of the log, each the batch of one call
  stable,       \* how many of them are on stable storage
  cp,           \* how many of them the checkpoint covers
  latched,      \* the queue's sticky failure
  bufErr,       \* a write failed: its bufio.Writer refuses every later flush
  events,       \* b.events
  queuedBytes,  \* b.bufferedBytes
  flightBytes,  \* b.inFlightBytes
  lastOffset,   \* b.lastOffset
  flight,       \* the detached batch, or the frame being replayed
  flusher,      \* "idle" | "inserting" | "inserted" | "released" | "panicking"
  owner,        \* "worker" | "final" | "exited" | "stopper" | "closing": who flushes
  workerErr,    \* b.workerErr # nil
  stopped,      \* b.stopped
  call,         \* state of each call
  cache,        \* the admission cache
  db,           \* rows of each event in the events table, 2 for more than one
  crashes

disk == <<log, stable, cp, bufErr>>
memory == <<events, queuedBytes, flightBytes, lastOffset>>
worker == <<flight, flusher, owner, workerErr, stopped>>
vars == <<proc, attached, disk, latched, memory, worker, call, cache, db, crashes>>

NoFlight == [batch |-> <<>>, committed |-> 0, target |-> 0, cost |-> 0]

(* seen holds the digests of a key, newest first; fresh the keys admitted  *)
(* within the TTL; order and head are the eviction ring.                   *)
EmptyCache == [seen |-> [k \in CacheKey |-> <<>>], fresh |-> {}, order |-> <<>>, head |-> 1]

CallState == {"idle", "checked", "waiting", "acked", "accepted", "full",
              "unavailable", "gone"}

Init ==
  /\ proc = "up" /\ attached = TRUE
  /\ log = <<>> /\ stable = 0 /\ cp = 0 /\ latched = FALSE /\ bufErr = FALSE
  /\ events = <<>> /\ queuedBytes = 0 /\ flightBytes = 0 /\ lastOffset = 0
  /\ flight = NoFlight /\ flusher = "idle" /\ owner = "worker"
  /\ workerErr = FALSE /\ stopped = FALSE
  /\ call = [c \in Call |-> "idle"] /\ cache = EmptyCache
  /\ db = [e \in Event |-> 0] /\ crashes = 0

Cost(s) == FoldLeft(LAMBDA n, e : n + Size[e], 0, s)

-----------------------------------------------------------------------------
(* The admission cache.  The digest of a call is what it digests: the      *)
(* event identities of its prepared batch.                                 *)

\* Mutant: the key alone decides, whatever the batch holds.
DuplicateKey(c) ==
  Key[c] # NoKey /\ Key[c] \in cache.fresh /\ cache.seen[Key[c]] # <<>>

Duplicate(c) ==
  Key[c] # NoKey /\ Key[c] \in cache.fresh /\ Contains(cache.seen[Key[c]], Batch[c])

(* Remembering a new key in a full ring forgets the key it overwrites.     *)
Evicted(k) ==
  IF cache.seen[k] = <<>> /\ Len(cache.order) = CacheMax THEN {cache.order[cache.head]} ELSE {}

Ring(k) ==
  CASE cache.seen[k] # <<>> -> <<cache.order, cache.head>>
    [] cache.seen[k] = <<>> /\ Len(cache.order) < CacheMax -> <<Append(cache.order, k), cache.head>>
    [] OTHER -> <<[cache.order EXCEPT ![cache.head] = k], (cache.head % CacheMax) + 1>>

Digests(k, digest) ==
  IF Contains(cache.seen[k], digest) THEN cache.seen[k]
  ELSE LET all == <<digest>> \o cache.seen[k]
       IN SubSeq(all, 1, IF Len(all) < MaxDigestsPerKey THEN Len(all) ELSE MaxDigestsPerKey)

Record(c) ==
  LET k == Key[c]
  IN cache' =
       IF k = NoKey THEN cache
       ELSE [seen  |-> [x \in CacheKey |-> IF x = k THEN Digests(k, Batch[c])
                                           ELSE IF x \in Evicted(k) THEN <<>>
                                           ELSE cache.seen[x]],
             fresh |-> (cache.fresh \ Evicted(k)) \cup {k},
             order |-> Ring(k)[1],
             head  |-> Ring(k)[2]]

(* The TTL of a key passes.                                                *)
Expire(k) ==
  /\ k \in cache.fresh
  /\ cache' = [cache EXCEPT !.fresh = @ \ {k}]
  /\ UNCHANGED <<proc, attached, disk, latched, memory, worker, call, db, crashes>>

-----------------------------------------------------------------------------
(* The batch handler and PushBatch.                                        *)

Reply(c, r) == call' = [call EXCEPT ![c] = r]

(* What a 200 means: backed by an fsynced log, or held in memory only.     *)
Granted == IF attached /\ ~Lossy THEN "acked" ELSE "accepted"

Check(c) ==
  /\ proc = "up" /\ call[c] = "idle"
  /\ Reply(c, IF Duplicate(c) THEN Granted ELSE "checked")
  /\ UNCHANGED <<proc, attached, disk, latched, memory, worker, cache, db, crashes>>

Fits(c) ==
  /\ Len(Batch[c]) =< MaxSize - Len(events)
  /\ queuedBytes + flightBytes + Cost(Batch[c]) =< MaxBufferedBytes

Admitting == ~stopped /\ ~workerErr

PushFull(c) ==
  /\ proc \in {"up", "stopped"} /\ call[c] = "checked"
  /\ ~(Admitting /\ Fits(c))
  /\ Reply(c, "full")
  /\ UNCHANGED <<proc, attached, disk, latched, memory, worker, cache, db, crashes>>

(* AppendBatch refuses: the queue is latched, latches now, or is over its  *)
(* high-water mark.                                                        *)
PushUnavailable(c) ==
  /\ proc = "up" /\ call[c] = "checked"
  /\ Admitting /\ Fits(c) /\ attached
  /\ \/ latched /\ UNCHANGED <<latched, bufErr>>
     \/ /\ ~latched /\ "append" \in FaultKind
        /\ latched' \in BOOLEAN /\ bufErr' \in {bufErr, latched'}
  /\ Reply(c, "unavailable")
  /\ UNCHANGED <<proc, attached, log, stable, cp, memory, worker, cache, db, crashes>>

Buffered(c) ==
  /\ events' = events \o Batch[c]
  /\ queuedBytes' = queuedBytes + Cost(Batch[c])

Push(c) ==
  /\ proc = "up" /\ call[c] = "checked"
  /\ Admitting /\ Fits(c) /\ attached /\ ~latched
  /\ log' = Append(log, c) /\ lastOffset' = Len(log) + 1
  /\ Buffered(c)
  /\ IF Lossy THEN Reply(c, "accepted") /\ Record(c)
              ELSE Reply(c, "waiting") /\ UNCHANGED cache
  /\ UNCHANGED <<proc, attached, stable, cp, bufErr, latched, flightBytes, worker, db, crashes>>

PushMemoryOnly(c) ==
  /\ proc = "up" /\ call[c] = "checked"
  /\ Admitting /\ Fits(c) /\ ~attached
  /\ Buffered(c)
  /\ Reply(c, "accepted") /\ Record(c)
  /\ UNCHANGED <<proc, attached, disk, latched, flightBytes, lastOffset, worker, db, crashes>>

(* WaitCommit: the frame is covered by a sync, or the queue failed or was  *)
(* closed first.  The call then records itself in the cache and answers;   *)
(* a call that looked in between found nothing, as if it had come earlier. *)
\* Mutant: an appended frame counts as committed.
CommittedAppended(c) == \E i \in 1..Len(log) : log[i] = c

Committed(c) == \E i \in 1..stable : log[i] = c

Acknowledge(c) ==
  /\ proc \in {"up", "stopped"} /\ call[c] = "waiting" /\ Committed(c)
  /\ Reply(c, "acked") /\ Record(c)
  /\ UNCHANGED <<proc, attached, disk, latched, memory, worker, db, crashes>>

CommitFails(c) ==
  /\ call[c] = "waiting" /\ ~Committed(c)
  /\ latched \/ proc = "stopped"
  /\ Reply(c, "unavailable")
  /\ UNCHANGED <<proc, attached, disk, latched, memory, worker, cache, db, crashes>>

(* writer.Flush fails: the frames it held stay in the process.  (A Flush   *)
(* that succeeds before an fsync that fails is DiskQueue's subject.)       *)
FlushFails ==
  /\ bufErr \/ "flush" \in FaultKind
  /\ latched' = TRUE /\ bufErr' = TRUE

(* The queue's group commit and backstop loop.                             *)
Sync ==
  /\ proc = "up" /\ attached /\ ~latched /\ stable < Len(log)
  /\ \/ ~bufErr /\ stable' = Len(log) /\ UNCHANGED <<latched, bufErr>>
     \/ FlushFails /\ UNCHANGED stable
  /\ UNCHANGED <<proc, attached, log, cp, memory, worker, call, cache, db, crashes>>

-----------------------------------------------------------------------------
(* Flush.                                                                  *)

(* What becomes of the flushing goroutine when Flush returns.              *)
Returned ==
  /\ flusher' = "idle"
  /\ owner' = CASE owner = "final" -> "exited"
                [] owner = "stopper" -> "closing"
                [] OTHER -> owner

Detach ==
  /\ proc = "up" /\ flusher = "idle" /\ events # <<>>
  /\ owner \in {"worker", "final", "stopper"}
  /\ flight' = [batch |-> events, committed |-> 0, target |-> lastOffset, cost |-> queuedBytes]
  /\ flusher' = "inserting"
  /\ events' = <<>> /\ queuedBytes' = 0 /\ flightBytes' = flightBytes + queuedBytes
  /\ UNCHANGED <<proc, attached, disk, latched, lastOffset, owner, workerErr, stopped,
                 call, cache, db, crashes>>

Rest == SubSeq(flight.batch, flight.committed + 1, Len(flight.batch))

ChunkEnd == IF Len(Rest) < ChunkSize THEN Len(flight.batch) ELSE flight.committed + ChunkSize

Chunk == SubSeq(flight.batch, flight.committed + 1, ChunkEnd)

(* filterUncommitted and the two INSERTs of one transaction.  A failed     *)
(* lookup keeps every distinct candidate of the chunk.                     *)
\* Mutant: nothing is filtered.
InsertedAll(found) == [e \in Event |-> IF e \in ToSet(Chunk) THEN db[e] + 1 ELSE db[e]]

Inserted(found) ==
  [e \in Event |-> IF e \in ToSet(Chunk) /\ db[e] \in (IF found THEN {0} ELSE {0, 1})
                   THEN db[e] + 1 ELSE db[e]]

Found == {TRUE} \cup (IF "lookup" \in FaultKind THEN {FALSE} ELSE {})

Inserting == \/ proc = "up" /\ flusher = "inserting"
             \/ proc = "recovering"

InsertChunk(found) ==
  /\ Inserting /\ Rest # <<>>
  /\ db' = Inserted(found)
  /\ flight' = [flight EXCEPT !.committed = ChunkEnd]
  /\ flusher' = IF proc = "up" /\ ChunkEnd = Len(flight.batch) THEN "inserted" ELSE flusher
  /\ UNCHANGED <<proc, attached, disk, latched, memory, owner, workerErr, stopped,
                 call, cache, crashes>>

(* A transaction fails, or reports a failure although it committed.        *)
TxFails ==
  \/ "insert" \in FaultKind /\ UNCHANGED db
  \/ "ambiguous" \in FaultKind /\ \E found \in Found : db' = Inserted(found)

(* requeueFailed: the uncommitted tail goes back to the front.             *)
\* Mutants: the tail is truncated to the count cap; the whole batch's cost
\* goes back to the queued side.
RequeueTruncated ==
  LET all == Rest \o events
  IN /\ events' = IF Len(all) > MaxSize THEN SubSeq(all, 1, MaxSize) ELSE all
     /\ queuedBytes' = queuedBytes + Cost(Rest)
RequeueWholeCost == events' = Rest \o events /\ queuedBytes' = queuedBytes + flight.cost

Requeue == events' = Rest \o events /\ queuedBytes' = queuedBytes + Cost(Rest)

NotNegative(n) == IF n < 0 THEN 0 ELSE n

InsertFails ==
  /\ proc = "up" /\ flusher = "inserting"
  /\ TxFails
  /\ Requeue
  /\ flightBytes' = NotNegative(flightBytes - flight.cost)
  /\ flight' = NoFlight /\ Returned
  /\ UNCHANGED <<proc, attached, disk, latched, lastOffset, workerErr, stopped,
                 call, cache, crashes>>

(* The flush is complete: its credit is released, then the log is told.    *)
Release ==
  /\ proc = "up" /\ flusher = "inserted"
  /\ flightBytes' = NotNegative(flightBytes - flight.cost)
  /\ IF attached THEN flusher' = "released" /\ UNCHANGED <<flight, owner>>
                 ELSE flight' = NoFlight /\ Returned
  /\ UNCHANGED <<proc, attached, disk, latched, events, queuedBytes, lastOffset,
                 workerErr, stopped, call, cache, db, crashes>>

\* Mutant: the target is the place after the batch's last frame.
CheckpointTargetNext == flight.target + 1

CheckpointTarget == flight.target

(* The queue's Checkpoint flushes and fsyncs the whole log first; a        *)
(* failing one may have replaced the checkpoint file all the same.         *)
Checkpoint ==
  /\ proc = "up" /\ flusher = "released"
  /\ flight' = NoFlight /\ Returned
  /\ \/ CheckpointTarget =< cp /\ UNCHANGED <<stable, cp, bufErr, latched>>
     \/ CheckpointTarget > cp /\ FlushFails /\ UNCHANGED <<stable, cp>>
     \/ /\ CheckpointTarget > cp /\ ~bufErr
        /\ stable' = Len(log) /\ cp' = CheckpointTarget
        /\ latched' \in {latched} \cup (IF "checkpoint" \in FaultKind THEN {TRUE} ELSE {})
        /\ UNCHANGED bufErr
     \/ /\ CheckpointTarget > cp /\ ~bufErr /\ "checkpoint" \in FaultKind
        /\ stable' = Len(log) /\ latched' = TRUE /\ UNCHANGED <<cp, bufErr>>
  /\ UNCHANGED <<proc, attached, log, memory, workerErr, stopped, call, cache, db, crashes>>

(* The worker panics inside a flush: the detached batch is garbage, its    *)
(* credit stays taken, and only later is the death latched.                *)
Panic ==
  /\ proc = "up" /\ flusher = "inserting" /\ owner \in {"worker", "final"}
  /\ "panic" \in FaultKind
  /\ flusher' = "panicking" /\ flight' = NoFlight
  /\ UNCHANGED <<proc, attached, disk, latched, memory, owner, workerErr, stopped,
                 call, cache, db, crashes>>

LatchWorkerErr ==
  /\ proc = "up" /\ flusher = "panicking"
  /\ workerErr' = TRUE /\ flusher' = "idle" /\ owner' = "exited"
  /\ UNCHANGED <<proc, attached, disk, latched, memory, flight, stopped, call, cache,
                 db, crashes>>

-----------------------------------------------------------------------------
(* Stop.                                                                   *)

Stop ==
  /\ proc = "up" /\ ~stopped
  /\ stopped' = TRUE
  /\ UNCHANGED <<proc, attached, disk, latched, memory, flight, flusher, owner,
                 workerErr, call, cache, db, crashes>>

(* The worker receives stopCh and makes its final flush, if there is       *)
(* anything to flush.                                                      *)
StopWorker ==
  /\ proc = "up" /\ stopped /\ flusher = "idle" /\ owner = "worker"
  /\ owner' = IF events = <<>> THEN "exited" ELSE "final"
  /\ UNCHANGED <<proc, attached, disk, latched, memory, flight, flusher, workerErr,
                 stopped, call, cache, db, crashes>>

(* Stop has waited for the worker; it flushes what is left itself, unless  *)
(* the worker died.                                                        *)
\* Mutant: flushes whatever became of the worker.
SkipLastFlushNever == events = <<>>

SkipLastFlush == workerErr \/ events = <<>>

StopFlush ==
  /\ proc = "up" /\ stopped /\ owner = "exited"
  /\ owner' = IF SkipLastFlush THEN "closing" ELSE "stopper"
  /\ UNCHANGED <<proc, attached, disk, latched, memory, flight, flusher, workerErr,
                 stopped, call, cache, db, crashes>>

(* The queue's Close flushes and fsyncs, if it can.                        *)
StopClose ==
  /\ proc = "up" /\ owner = "closing"
  /\ proc' = "stopped"
  /\ \/ attached /\ ~bufErr /\ stable' = Len(log)
     \/ (attached => bufErr \/ "flush" \in FaultKind) /\ UNCHANGED stable
  /\ UNCHANGED <<attached, log, cp, bufErr, latched, memory, worker, call, cache, db, crashes>>

-----------------------------------------------------------------------------
(* Crash, exit and restart.                                                *)

(* The process dies: what memory held is gone and the log keeps at least   *)
(* its stable prefix.                                                      *)
Crash ==
  /\ proc # "down" /\ crashes < MaxCrashes
  /\ proc' = "down" /\ crashes' = crashes + 1
  /\ \E n \in stable..Len(log) : log' = SubSeq(log, 1, n)
  /\ attached' = FALSE /\ latched' = FALSE /\ bufErr' = FALSE
  /\ events' = <<>> /\ queuedBytes' = 0 /\ flightBytes' = 0 /\ lastOffset' = 0
  /\ flight' = NoFlight /\ flusher' = "idle" /\ owner' = "worker"
  /\ workerErr' = FALSE /\ stopped' = FALSE
  /\ call' = [c \in Call |-> IF call[c] \in {"checked", "waiting"} THEN "gone" ELSE call[c]]
  /\ cache' = EmptyCache
  /\ UNCHANGED <<stable, cp, db>>

(* AttachQueue streams the frames behind the checkpoint into the database, *)
(* frame by frame.                                                         *)
Replay(i) ==
  IF i =< Len(log) THEN [batch |-> Batch[log[i]], committed |-> 0, target |-> i, cost |-> 0]
  ELSE [NoFlight EXCEPT !.target = i]

OpenQueue ==
  /\ proc = "down"
  /\ proc' = "recovering" /\ flight' = Replay(cp + 1)
  /\ UNCHANGED <<attached, disk, latched, memory, flusher, owner, workerErr, stopped,
                 call, cache, db, crashes>>

ReplayNext ==
  /\ proc = "recovering" /\ Rest = <<>> /\ flight.target =< Len(log)
  /\ flight' = Replay(flight.target + 1)
  /\ UNCHANGED <<proc, attached, disk, latched, memory, flusher, owner, workerErr,
                 stopped, call, cache, db, crashes>>

(* Everything is in the database: checkpoint the end of the log and        *)
(* install the queue.                                                      *)
Attach ==
  /\ proc = "recovering" /\ flight.target > Len(log)
  /\ stable' = Len(log) /\ cp' = Len(log) /\ lastOffset' = Len(log)
  /\ proc' = "up" /\ attached' = TRUE /\ flight' = NoFlight
  /\ UNCHANGED <<log, bufErr, latched, events, queuedBytes, flightBytes, flusher, owner,
                 workerErr, stopped, call, cache, db, crashes>>

(* The queue does not open, a replay transaction fails or the checkpoint   *)
(* does: main runs memory-only or, with RequireWAL, exits.                 *)
StartDegraded ==
  /\ proc' = (IF RequireWAL THEN "down" ELSE "up") /\ flight' = NoFlight
  /\ UNCHANGED <<attached, log, bufErr, latched, memory, flusher, owner, workerErr, stopped,
                 call, cache, crashes>>

OpenFails ==
  /\ proc = "down" /\ "open" \in FaultKind
  /\ StartDegraded /\ UNCHANGED <<stable, cp, db>>

ReplayFails ==
  /\ proc = "recovering" /\ Rest # <<>>
  /\ TxFails
  /\ StartDegraded /\ UNCHANGED <<stable, cp>>

AttachFails ==
  /\ proc = "recovering" /\ flight.target > Len(log)
  /\ "checkpoint" \in FaultKind /\ cp < Len(log)
  /\ stable' = Len(log) /\ cp' \in {cp, Len(log)}
  /\ StartDegraded /\ UNCHANGED db

-----------------------------------------------------------------------------
Next ==
  \/ \E k \in CacheKey : Expire(k)
  \/ \E c \in Call : \/ Check(c) \/ PushFull(c) \/ PushUnavailable(c) \/ Push(c)
                     \/ PushMemoryOnly(c) \/ Acknowledge(c) \/ CommitFails(c)
  \/ Sync \/ Detach \/ (\E found \in Found : InsertChunk(found))
  \/ InsertFails \/ Release \/ Checkpoint \/ Panic \/ LatchWorkerErr
  \/ Stop \/ StopWorker \/ StopFlush \/ StopClose
  \/ Crash \/ OpenQueue \/ ReplayNext \/ Attach
  \/ OpenFails \/ ReplayFails \/ AttachFails

Spec == Init /\ [][Next]_vars

(* The goroutines run, a transaction ends, a process that is down is       *)
(* started again, and a transaction that is tried again and again at the   *)
(* same place of the log commits in the end.  Nothing makes a client call, *)
(* and nothing keeps the process up or the worker alive.                   *)
Fairness ==
  /\ \A c \in Call : WF_vars(Acknowledge(c))
  /\ WF_vars(Detach) /\ WF_vars(Release) /\ WF_vars(Checkpoint) /\ WF_vars(LatchWorkerErr)
  /\ WF_vars(OpenQueue) /\ WF_vars(ReplayNext) /\ WF_vars(Attach)
  /\ WF_vars(InsertChunk(TRUE) \/ InsertFails \/ ReplayFails)
  /\ \A i \in 1..Cardinality(Call), n \in 0..(MaxSize - 1) :
       SF_vars(InsertChunk(TRUE) /\ flight.target = i /\ flight.committed = n)

FairSpec == Spec /\ Fairness

-----------------------------------------------------------------------------
(* Properties.                                                             *)

EventsOf(c) == ToSet(Batch[c])
Stored(e) == db[e] > 0

Flight == [batch : Seq(Event), committed : Nat, target : Nat, cost : Nat]
Cache == [seen : [CacheKey -> Seq(Seq(Event))], fresh : SUBSET CacheKey,
          order : Seq(CacheKey), head : Nat]

TypeOK ==
  /\ proc \in {"down", "recovering", "up", "stopped"}
  /\ attached \in BOOLEAN /\ latched \in BOOLEAN /\ bufErr \in BOOLEAN
  /\ workerErr \in BOOLEAN /\ stopped \in BOOLEAN
  /\ log \in Seq(Call) /\ stable \in 0..Len(log) /\ cp \in 0..Len(log)
  /\ events \in Seq(Event) /\ queuedBytes \in Nat /\ flightBytes \in Nat
  /\ lastOffset \in 0..Len(log)
  /\ flight \in Flight
  /\ flusher \in {"idle", "inserting", "inserted", "released", "panicking"}
  /\ owner \in {"worker", "final", "exited", "stopper", "closing"}
  /\ call \in [Call -> CallState]
  /\ cache \in Cache
  /\ db \in [Event -> 0..2]
  /\ crashes \in Nat

(* The checkpoint never passes an event that is not in the database: not   *)
(* after a partial flush, an ambiguous commit, a push between the commit   *)
(* and the checkpoint, a panic, a shutdown or a failed recovery.           *)
CheckpointCovered == \A i \in 1..cp : \A e \in EventsOf(log[i]) : Stored(e)

(* A 200 in durable mode means: each of the batch's events is in the       *)
(* database, or in a frame on stable storage that the next start replays.  *)
(* That includes the 200 the admission cache gives to a retry.             *)
Recoverable(e) == \E i \in (cp+1)..stable : e \in EventsOf(log[i])

AckedRecoverable ==
  \A c \in Call : call[c] = "acked" => \A e \in EventsOf(c) : Stored(e) \/ Recoverable(e)

(* Delivery is at least once, storage is once: unless an id lookup fails,  *)
(* no retry, requeue, ambiguous commit or replay stores an event twice.    *)
StoredOnce == "lookup" \notin FaultKind => \A e \in Event : db[e] < 2

(* The byte counters are exact and the clamp at zero never acts; what the  *)
(* buffer holds, queued and in flight, stays within the budget.            *)
BudgetExact ==
  /\ queuedBytes = Cost(events)
  /\ queuedBytes + flightBytes =< MaxBufferedBytes
  /\ flusher \in {"inserting", "inserted"} /\ ~workerErr => flightBytes = Cost(flight.batch)
  /\ flusher \in {"idle", "released"} /\ ~workerErr => flightBytes = 0

\* OpenFails without RequireWAL: the log is left for the next start.
MemoryOnly == proc = "up" /\ ~attached

(* What is acknowledged is stored in the end, through requeues, crashes    *)
(* and failing recoveries, unless the process is shut down, its flush      *)
(* worker has died or it came up again without its log.                    *)
AckedIsStored ==
  \A c \in Call : call[c] = "acked" ~>
    \/ \A e \in EventsOf(c) : Stored(e)
    \/ stopped \/ workerErr \/ MemoryOnly

(* The ingest path uses its log as a durable FIFO of frames: a frame is    *)
(* acknowledged only while it is in the log, taken only by a checkpoint.   *)
Frames == INSTANCE DurableLog WITH
  Item   <- Call,
  place  <- [c \in Call |-> IF \E i \in (cp+1)..Len(log) : log[i] = c
                            THEN CHOOSE i \in (cp+1)..Len(log) : log[i] = c ELSE 0],
  acked  <- {c \in Call : call[c] = "acked" /\ \E i \in 1..Len(log) : log[i] = c},
  stored <- {log[i] : i \in 1..cp}

UsesDurableLog == Frames!Spec
=============================================================================
