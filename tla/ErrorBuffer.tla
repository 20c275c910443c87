---------------------------- MODULE ErrorBuffer ----------------------------
(***************************************************************************)
(* The durable error path: admission with its cache, the write-behind      *)
(* ErrorBuffer (internal/errors/buffer.go), the quarantine spool and the   *)
(* error_inbox ledger (internal/errors/inbox.go).  It rides the same       *)
(* write-ahead log as Buffer, and unlike Buffer it gives each record a     *)
(* disposition of its own, keeps the records that have none at the head of *)
(* the queue, and checkpoints the contiguous prefix that is final.         *)
(*                                                                         *)
(* As in Buffer, writes and flushes of the log may fail, but no fsync.     *)
(*                                                                         *)
(* A call is one delivery of one record; a retry is another call with the  *)
(* same Identity and Digest.  Push writes one record to a frame, so a      *)
(* frame of the log is the call that wrote it.                             *)
(***************************************************************************)
EXTENDS Integers, FiniteSets, SequencesExt

CONSTANTS
  Call,         \* deliveries of records
  EventId,      \* (site, producer, event_id)
  NoId,
  Identity,     \* the identity of a call's record, NoId for a producer without one
  Content,      \* payload digests, and Absent
  Absent,
  Digest,       \* the digest of a call's record
  Size,         \* the reservation a record takes
  MaxSize,      \* count cap of the buffer
  MaxBytes,     \* byte budget: queued, in flight and pending
  CacheMax,     \* identities the admission cache remembers
  Unreadable,   \* records that do not decode any more
  Stuck,        \* records whose every apply fails
  Lossy,        \* the queue was opened WithLossySync
  RequireWAL,   \* OBSERVE_REQUIRE_WAL
  FaultKind,    \* the failures the environment may produce
  MaxCrashes    \* bound on crashes

Faults == {"append", "flush", "apply", "ambiguous", "thinned", "spool", "panic",
           "checkpoint", "open"}

ASSUME ErrorBufferAssumption ==
  /\ NoId \notin EventId /\ Absent \notin Content
  /\ Identity \in [Call -> EventId \cup {NoId}]
  /\ Digest \in [Call -> Content]
  /\ Size \in [Call -> Nat \ {0}]
  /\ MaxSize \in Nat /\ MaxBytes \in Nat /\ CacheMax \in Nat \ {0}
  /\ Unreadable \subseteq Call /\ Stuck \subseteq Call
  /\ Lossy \in BOOLEAN /\ RequireWAL \in BOOLEAN
  /\ FaultKind \subseteq Faults
  /\ MaxCrashes \in Nat

VARIABLES
  proc,         \* "down" | "recovering" | "up" | "stopped"
  attached,     \* b.queue # nil
  spool,        \* b.quarantineDir # ""
  log,          \* the frames of the log
  stable,       \* how many of them are on stable storage
  cp,           \* how many of them the checkpoint covers
  latched,      \* the queue's sticky failure
  bufErr,       \* a write failed: its bufio.Writer refuses every later flush
  events,       \* b.events
  used,         \* b.usedBytes
  flight,       \* the batch Flush or AttachQueue is working on
  flusher,      \* "idle" | "applying" | "settled" | "panicking"
  owner,        \* "worker" | "final" | "exited" | "stopper" | "closing": who flushes
  workerErr,    \* b.workerErr # nil
  stopped,      \* Stop has begun
  call,         \* state of each call
  adm,          \* the admission cache
  inbox,        \* the error_inbox ledger: the digest an identity was claimed with
  rows,         \* error_events rows of each call's record, 2 for more than one
  thinned,      \* records spike protection dropped
  quarantined,  \* records in the spool
  crashes

disk == <<log, stable, cp, bufErr>>
memory == <<events, used>>
worker == <<flight, flusher, owner, workerErr, stopped>>
tables == <<inbox, rows, thinned, quarantined>>
vars == <<proc, attached, spool, disk, latched, memory, worker, call, adm, tables, crashes>>

(* offset is the position after a record's frame, 0 in memory-only mode;   *)
(* target the checkpoint the batch has earned so far, 0 for none.          *)
NoFlight == [todo |-> <<>>, pending |-> <<>>, target |-> 0, gap |-> FALSE]

EmptyCache == [seen |-> [i \in EventId |-> Absent], fresh |-> {}, order |-> <<>>, head |-> 1]

CallState == {"idle", "checked", "waiting", "acked", "accepted", "conflict", "full",
              "unavailable", "gone"}

Init ==
  /\ proc = "up" /\ attached = TRUE /\ spool = TRUE
  /\ log = <<>> /\ stable = 0 /\ cp = 0 /\ latched = FALSE /\ bufErr = FALSE
  /\ events = <<>> /\ used = 0
  /\ flight = NoFlight /\ flusher = "idle" /\ owner = "worker"
  /\ workerErr = FALSE /\ stopped = FALSE
  /\ call = [c \in Call |-> "idle"] /\ adm = EmptyCache
  /\ inbox = [i \in EventId |-> Absent] /\ rows = [c \in Call |-> 0]
  /\ thinned = {} /\ quarantined = {}
  /\ crashes = 0

-----------------------------------------------------------------------------
(* Admission.                                                              *)

Reply(c, r) == call' = [call EXCEPT ![c] = r]

Granted == IF attached /\ ~Lossy THEN "acked" ELSE "accepted"

Known(c) == Identity[c] \in adm.fresh

(* lookup: the digest an identity was admitted with, while it is fresh.    *)
Lookup(c) ==
  /\ proc = "up" /\ call[c] = "idle"
  /\ Reply(c, CASE ~Known(c) -> "checked"
                [] Known(c) /\ adm.seen[Identity[c]] = Digest[c] -> Granted
                [] OTHER -> "conflict")
  /\ UNCHANGED <<proc, attached, spool, disk, latched, memory, worker, adm, tables, crashes>>

(* record: a new identity in a full ring forgets the one it overwrites.    *)
Record(c) ==
  LET i == Identity[c]
      known == i # NoId /\ adm.seen[i] # Absent
      full == Len(adm.order) = CacheMax
      old == IF known \/ ~full THEN {} ELSE {adm.order[adm.head]}
  IN adm' = IF i = NoId THEN adm
            ELSE [seen  |-> [x \in EventId |-> IF x = i THEN Digest[c]
                                               ELSE IF x \in old THEN Absent ELSE adm.seen[x]],
                  fresh |-> (adm.fresh \ old) \cup {i},
                  order |-> IF known THEN adm.order
                            ELSE IF full THEN [adm.order EXCEPT ![adm.head] = i]
                            ELSE Append(adm.order, i),
                  head  |-> IF known \/ ~full THEN adm.head ELSE (adm.head % CacheMax) + 1]

Expire(i) ==
  /\ i \in adm.fresh
  /\ adm' = [adm EXCEPT !.fresh = @ \ {i}]
  /\ UNCHANGED <<proc, attached, spool, disk, latched, memory, worker, call, tables, crashes>>

Closing == stopped \/ workerErr

\* Mutant: only the count is capped.
FitsCount(c) == Len(events) < MaxSize

Fits(c) == Len(events) < MaxSize /\ Size[c] =< MaxBytes - used

PushFull(c) ==
  /\ proc \in {"up", "stopped"} /\ call[c] = "checked"
  /\ Closing \/ ~Fits(c)
  /\ Reply(c, "full")
  /\ UNCHANGED <<proc, attached, spool, disk, latched, memory, worker, adm, tables, crashes>>

PushUnavailable(c) ==
  /\ proc = "up" /\ call[c] = "checked"
  /\ ~Closing /\ Fits(c) /\ attached
  /\ \/ latched /\ UNCHANGED <<latched, bufErr>>
     \/ /\ ~latched /\ "append" \in FaultKind
        /\ latched' \in BOOLEAN /\ bufErr' \in {bufErr, latched'}
  /\ Reply(c, "unavailable")
  /\ UNCHANGED <<proc, attached, spool, log, stable, cp, memory, worker, adm, tables, crashes>>

Buffered(c, offset) ==
  /\ events' = Append(events, [call |-> c, offset |-> offset])
  /\ used' = used + Size[c]

\* Mutant: the identity is remembered at the append, before the group commit.
PushRecordsEarly(c) ==
  /\ proc = "up" /\ call[c] = "checked"
  /\ ~Closing /\ Fits(c) /\ attached /\ ~latched
  /\ log' = Append(log, c)
  /\ Buffered(c, Len(log) + 1)
  /\ Reply(c, IF Lossy THEN "accepted" ELSE "waiting") /\ Record(c)
  /\ UNCHANGED <<proc, attached, spool, stable, cp, bufErr, latched, worker, tables, crashes>>

Push(c) ==
  /\ proc = "up" /\ call[c] = "checked"
  /\ ~Closing /\ Fits(c) /\ attached /\ ~latched
  /\ log' = Append(log, c)
  /\ Buffered(c, Len(log) + 1)
  /\ IF Lossy THEN Reply(c, "accepted") /\ Record(c)
              ELSE Reply(c, "waiting") /\ UNCHANGED adm
  /\ UNCHANGED <<proc, attached, spool, stable, cp, bufErr, latched, worker, tables, crashes>>

PushMemoryOnly(c) ==
  /\ proc = "up" /\ call[c] = "checked"
  /\ ~Closing /\ Fits(c) /\ ~attached
  /\ Buffered(c, 0)
  /\ Reply(c, "accepted") /\ Record(c)
  /\ UNCHANGED <<proc, attached, spool, disk, latched, worker, tables, crashes>>

\* Mutant: an appended frame counts as committed.
CommittedAppended(c) == \E i \in 1..Len(log) : log[i] = c

Committed(c) == \E i \in 1..stable : log[i] = c

Acknowledge(c) ==
  /\ proc \in {"up", "stopped"} /\ call[c] = "waiting" /\ Committed(c)
  /\ Reply(c, "acked") /\ Record(c)
  /\ UNCHANGED <<proc, attached, spool, disk, latched, memory, worker, tables, crashes>>

(* The refused record stays admitted: it will be flushed or replayed.      *)
CommitFails(c) ==
  /\ call[c] = "waiting" /\ ~Committed(c)
  /\ latched \/ proc = "stopped"
  /\ Reply(c, "unavailable")
  /\ UNCHANGED <<proc, attached, spool, disk, latched, memory, worker, adm, tables, crashes>>

(* writer.Flush fails: the frames it held stay in the process.  (A Flush   *)
(* that succeeds before an fsync that fails is DiskQueue's subject.)       *)
FlushFails ==
  /\ bufErr \/ "flush" \in FaultKind
  /\ latched' = TRUE /\ bufErr' = TRUE

Sync ==
  /\ proc = "up" /\ attached /\ ~latched /\ stable < Len(log)
  /\ \/ ~bufErr /\ stable' = Len(log) /\ UNCHANGED <<latched, bufErr>>
     \/ FlushFails /\ UNCHANGED stable
  /\ UNCHANGED <<proc, attached, spool, log, cp, memory, worker, call, adm, tables, crashes>>

-----------------------------------------------------------------------------
(* Flush: every record of the batch gets a disposition, or stays pending.  *)

Returned ==
  /\ flusher' = "idle"
  /\ owner' = CASE owner = "final" -> "exited"
                [] owner = "stopper" -> "closing"
                [] OTHER -> owner

Detach ==
  /\ proc = "up" /\ flusher = "idle" /\ events # <<>>
  /\ owner \in {"worker", "final", "stopper"}
  /\ flight' = [NoFlight EXCEPT !.todo = events]
  /\ flusher' = "applying" /\ events' = <<>>
  /\ UNCHANGED <<proc, attached, spool, disk, latched, used, owner, workerErr, stopped, call,
                 adm, tables, crashes>>

Applying == \/ proc = "up" /\ flusher = "applying"
            \/ proc = "recovering"

Claimed(c) == Identity[c] # NoId /\ inbox[Identity[c]] # Absent

AddRow(c) == rows' = [rows EXCEPT ![c] = IF @ = 2 THEN 2 ELSE @ + 1]

\* Mutant: the row is written and the identity is not claimed.
ClaimNothing(c) == UNCHANGED inbox

Claim(c) ==
  inbox' = IF Identity[c] = NoId THEN inbox ELSE [inbox EXCEPT ![Identity[c]] = Digest[c]]

(* The transaction of ApplyInbox commits: the ledger has the identity, or  *)
(* the record and its claim are written, or spike protection drops the     *)
(* record and the claim alone is written.                                  *)
ApplyCommits(c) ==
  /\ c \notin Unreadable
  /\ \/ Claimed(c) /\ UNCHANGED tables
     \/ ~Claimed(c) /\ c \notin Stuck /\ AddRow(c) /\ Claim(c) /\ UNCHANGED <<thinned, quarantined>>
     \/ /\ ~Claimed(c) /\ c \notin Stuck /\ "thinned" \in FaultKind
        /\ thinned' = thinned \cup {c} /\ Claim(c) /\ UNCHANGED <<rows, quarantined>>

Quarantine(c) ==
  /\ c \in Unreadable
  /\ quarantined' = IF spool THEN quarantined \cup {c} ELSE quarantined
  /\ UNCHANGED <<inbox, rows, thinned>>

(* A transient failure, a commit whose answer is lost, or a full spool.    *)
ApplyFails(c) ==
  \/ c \notin Unreadable /\ (c \in Stuck \/ "apply" \in FaultKind) /\ UNCHANGED tables
  \/ "ambiguous" \in FaultKind /\ ApplyCommits(c)
  \/ c \in Unreadable /\ spool /\ "spool" \in FaultKind /\ UNCHANGED tables

Current == Head(flight.todo)

\* Mutant: a final record moves the target whatever is pending before it.
TargetAcrossGap == Current.offset

Target == IF flight.gap THEN flight.target ELSE Current.offset

Retired(c) == used' = IF proc = "recovering" THEN used ELSE used - Size[c]

(* A final disposition retires the record's reservation; a replayed record *)
(* has none yet.                                                           *)
Final(c) ==
  /\ Applying /\ flight.todo # <<>> /\ Current.call = c
  /\ ApplyCommits(c) \/ Quarantine(c)
  /\ flight' = [flight EXCEPT !.todo = Tail(@), !.target = Target]
  /\ Retired(c)
  /\ UNCHANGED <<proc, attached, spool, disk, latched, events, flusher, owner, workerErr,
                 stopped, call, adm, crashes>>

Cost(entries) == FoldLeft(LAMBDA n, e : n + Size[e.call], 0, entries)

(* AttachQueue refuses to hold more pending records than the budgets allow. *)
Holds(c) ==
  proc = "recovering" =>
    /\ Len(flight.pending) < MaxSize
    /\ Cost(flight.pending) + Size[c] =< MaxBytes

Pending(c) ==
  /\ Applying /\ flight.todo # <<>> /\ Current.call = c
  /\ ApplyFails(c) /\ Holds(c)
  /\ flight' = [flight EXCEPT !.todo = Tail(@), !.pending = Append(@, Current), !.gap = TRUE]
  /\ UNCHANGED <<proc, attached, spool, disk, latched, memory, flusher, owner, workerErr,
                 stopped, call, adm, crashes>>

\* Mutant: what is pending is dropped.
RequeueNothing == events' = events

Requeue == events' = flight.pending \o events

Settle ==
  /\ proc = "up" /\ flusher = "applying" /\ flight.todo = <<>>
  /\ Requeue
  /\ IF attached /\ flight.target > 0
     THEN flusher' = "settled" /\ flight' = [NoFlight EXCEPT !.target = flight.target] /\ UNCHANGED owner
     ELSE flight' = NoFlight /\ Returned
  /\ UNCHANGED <<proc, attached, spool, disk, latched, used, workerErr, stopped, call, adm,
                 tables, crashes>>

Checkpoint ==
  /\ proc = "up" /\ flusher = "settled"
  /\ flight' = NoFlight /\ Returned
  /\ \/ flight.target =< cp /\ UNCHANGED <<stable, cp, bufErr, latched>>
     \/ flight.target > cp /\ FlushFails /\ UNCHANGED <<stable, cp>>
     \/ /\ flight.target > cp /\ ~bufErr
        /\ stable' = Len(log) /\ cp' = flight.target
        /\ latched' \in {latched} \cup (IF "checkpoint" \in FaultKind THEN {TRUE} ELSE {})
        /\ UNCHANGED bufErr
     \/ /\ flight.target > cp /\ ~bufErr /\ "checkpoint" \in FaultKind
        /\ stable' = Len(log) /\ latched' = TRUE /\ UNCHANGED <<cp, bufErr>>
  /\ UNCHANGED <<proc, attached, spool, log, memory, workerErr, stopped, call, adm, tables, crashes>>

(* The worker panics on a record: the batch is lost to memory, pending     *)
(* records included, and its reservations stay taken.                      *)
Panic ==
  /\ proc = "up" /\ flusher = "applying" /\ flight.todo # <<>> /\ owner \in {"worker", "final"}
  /\ "panic" \in FaultKind
  /\ flusher' = "panicking" /\ flight' = NoFlight
  /\ UNCHANGED <<proc, attached, spool, disk, latched, memory, owner, workerErr, stopped,
                 call, adm, tables, crashes>>

LatchWorkerErr ==
  /\ proc = "up" /\ flusher = "panicking"
  /\ workerErr' = TRUE /\ flusher' = "idle" /\ owner' = "exited"
  /\ UNCHANGED <<proc, attached, spool, disk, latched, memory, flight, stopped, call, adm,
                 tables, crashes>>

-----------------------------------------------------------------------------
(* Stop, crash and recovery.                                               *)

Stop ==
  /\ proc = "up" /\ ~stopped
  /\ stopped' = TRUE
  /\ UNCHANGED <<proc, attached, spool, disk, latched, memory, flight, flusher, owner,
                 workerErr, call, adm, tables, crashes>>

StopWorker ==
  /\ proc = "up" /\ stopped /\ flusher = "idle" /\ owner = "worker"
  /\ owner' = IF events = <<>> THEN "exited" ELSE "final"
  /\ UNCHANGED <<proc, attached, spool, disk, latched, memory, flight, flusher, workerErr,
                 stopped, call, adm, tables, crashes>>

StopFlush ==
  /\ proc = "up" /\ stopped /\ owner = "exited"
  /\ owner' = IF workerErr \/ events = <<>> THEN "closing" ELSE "stopper"
  /\ UNCHANGED <<proc, attached, spool, disk, latched, memory, flight, flusher, workerErr,
                 stopped, call, adm, tables, crashes>>

StopClose ==
  /\ proc = "up" /\ owner = "closing"
  /\ proc' = "stopped"
  /\ \/ attached /\ ~bufErr /\ stable' = Len(log)
     \/ (attached => bufErr \/ "flush" \in FaultKind) /\ UNCHANGED stable
  /\ UNCHANGED <<attached, spool, log, cp, bufErr, latched, memory, worker, call, adm, tables, crashes>>

Crash ==
  /\ proc # "down" /\ crashes < MaxCrashes
  /\ proc' = "down" /\ crashes' = crashes + 1
  /\ \E n \in stable..Len(log) : log' = SubSeq(log, 1, n)
  /\ attached' = FALSE /\ spool' = FALSE /\ latched' = FALSE /\ bufErr' = FALSE
  /\ events' = <<>> /\ used' = 0
  /\ flight' = NoFlight /\ flusher' = "idle" /\ owner' = "worker"
  /\ workerErr' = FALSE /\ stopped' = FALSE
  /\ call' = [c \in Call |-> IF call[c] \in {"checked", "waiting"} THEN "gone" ELSE call[c]]
  /\ adm' = EmptyCache
  /\ UNCHANGED <<stable, cp, tables>>

(* AttachQueue applies every frame behind the checkpoint.                  *)
OpenQueue ==
  /\ proc = "down"
  /\ proc' = "recovering" /\ spool' = TRUE
  /\ flight' = [NoFlight EXCEPT !.todo =
                  [j \in 1..(Len(log) - cp) |-> [call |-> log[cp + j], offset |-> cp + j]]]
  /\ UNCHANGED <<attached, disk, latched, memory, flusher, owner, workerErr, stopped, call,
                 adm, tables, crashes>>

Earned == IF flight.target > cp THEN flight.target ELSE cp

\* Mutant: the records a replay leaves pending take no reservation.
ReservedNothing == used' = used

Reserved == used' = used + Cost(flight.pending)

(* The final prefix is checkpointed, what is pending is queued again.      *)
Attach ==
  /\ proc = "recovering" /\ flight.todo = <<>>
  /\ cp' = Earned /\ stable' = IF Earned > cp THEN Len(log) ELSE stable
  /\ events' = flight.pending \o events /\ Reserved
  /\ proc' = "up" /\ attached' = TRUE /\ flight' = NoFlight
  /\ UNCHANGED <<spool, log, bufErr, latched, flusher, owner, workerErr, stopped, call, adm, tables,
                 crashes>>

StartDegraded ==
  /\ proc' = (IF RequireWAL THEN "down" ELSE "up")
  /\ spool' = (IF RequireWAL THEN FALSE ELSE spool)
  /\ flight' = NoFlight
  /\ UNCHANGED <<attached, log, bufErr, latched, memory, flusher, owner, workerErr, stopped,
                 call, adm, crashes>>

OpenFails ==
  /\ proc = "down" /\ "open" \in FaultKind
  /\ StartDegraded /\ UNCHANGED <<stable, cp, tables>>

ReplayFails ==
  /\ proc = "recovering" /\ flight.todo # <<>>
  /\ ApplyFails(Current.call) /\ ~Holds(Current.call)
  /\ StartDegraded /\ UNCHANGED <<stable, cp>>

AttachFails ==
  /\ proc = "recovering" /\ flight.todo = <<>>
  /\ "checkpoint" \in FaultKind /\ flight.target > cp
  /\ stable' = Len(log) /\ cp' \in {cp, flight.target}
  /\ StartDegraded /\ UNCHANGED tables

-----------------------------------------------------------------------------
Next ==
  \/ \E i \in EventId : Expire(i)
  \/ \E c \in Call : \/ Lookup(c) \/ PushFull(c) \/ PushUnavailable(c) \/ Push(c)
                     \/ PushMemoryOnly(c) \/ Acknowledge(c) \/ CommitFails(c)
                     \/ Final(c) \/ Pending(c)
  \/ Sync \/ Detach \/ Settle \/ Checkpoint \/ Panic \/ LatchWorkerErr
  \/ Stop \/ StopWorker \/ StopFlush \/ StopClose
  \/ Crash \/ OpenQueue \/ Attach \/ OpenFails \/ ReplayFails \/ AttachFails

Spec == Init /\ [][Next]_vars

(* The goroutines run, a process that is down is started again, and the    *)
(* apply of a record that is not stuck succeeds if it is tried often       *)
(* enough.                                                                 *)
Fairness ==
  /\ WF_vars(Detach) /\ WF_vars(Settle) /\ WF_vars(Checkpoint) /\ WF_vars(LatchWorkerErr)
  /\ WF_vars(OpenQueue) /\ WF_vars(Attach)
  /\ WF_vars(\E c \in Call : Final(c) \/ Pending(c) \/ ReplayFails)
  /\ \A c \in Call : SF_vars(Final(c))

FairSpec == Spec /\ Fairness

-----------------------------------------------------------------------------
(* Properties.                                                             *)

Entry == [call : Call, offset : Nat]

TypeOK ==
  /\ proc \in {"down", "recovering", "up", "stopped"}
  /\ attached \in BOOLEAN /\ spool \in BOOLEAN /\ latched \in BOOLEAN /\ bufErr \in BOOLEAN
  /\ workerErr \in BOOLEAN /\ stopped \in BOOLEAN
  /\ log \in Seq(Call) /\ stable \in 0..Len(log) /\ cp \in 0..stable
  /\ events \in Seq(Entry) /\ used \in 0..MaxBytes
  /\ flight \in [todo : Seq(Entry), pending : Seq(Entry), target : 0..Len(log), gap : BOOLEAN]
  /\ flusher \in {"idle", "applying", "settled", "panicking"}
  /\ owner \in {"worker", "final", "exited", "stopper", "closing"}
  /\ call \in [Call -> CallState]
  /\ adm.seen \in [EventId -> Content \cup {Absent}]
  /\ inbox \in [EventId -> Content \cup {Absent}]
  /\ rows \in [Call -> 0..2]
  /\ thinned \subseteq Call /\ quarantined \subseteq Call

(* The dispositions of O01 section 5.4: applied, deduplicated or in        *)
(* conflict (the ledger knows the identity), thinned, quarantined.         *)
Disposed(c) == rows[c] > 0 \/ Claimed(c) \/ c \in thinned \/ c \in quarantined

(* The checkpoint never passes a record without a final disposition:       *)
(* pending records hold it back although later ones are final, across      *)
(* requeues, panics, shutdowns and recoveries that leave a gap.            *)
CheckpointFinal == \A i \in 1..cp : Disposed(log[i])

(* A 200 in durable mode means: the record, or the one its identity and    *)
(* payload were admitted with, has its disposition or is in a stable frame *)
(* the next start replays.                                                 *)
SameRecord(c) ==
  {d \in Call : d = c \/ (Identity[c] # NoId /\ Identity[d] = Identity[c] /\ Digest[d] = Digest[c])}

Replayable(c) == \E i \in (cp+1)..stable : log[i] = c

AckedDisposed ==
  \A c \in Call : call[c] = "acked" => \E d \in SameRecord(c) : Disposed(d) \/ Replayable(d)

(* One identity is one event: however often it is retried, requeued,       *)
(* committed without an answer or replayed, at most one payload of it is   *)
(* in error_events, once, and it is the one the ledger names.              *)
AppliedOnce ==
  \A c \in Call : Identity[c] # NoId /\ rows[c] > 0 =>
    /\ rows[c] = 1 /\ inbox[Identity[c]] = Digest[c]
    /\ \A d \in Call \ {c} : Identity[d] = Identity[c] => rows[d] = 0

(* Every reservation is held by exactly one record of the process, until   *)
(* that record is final; only a panic leaks.                               *)
ReservationsExact ==
  proc = "up" /\ flusher # "panicking" /\ ~workerErr =>
    used = Cost(events) + Cost(flight.todo) + Cost(flight.pending)

\* OpenFails without RequireWAL: the log is left for the next start.
MemoryOnly == proc = "up" /\ ~attached

(* An acknowledged record gets its disposition in the end, whatever other  *)
(* records are stuck, unless the process stops, its worker dies or it came *)
(* up again without its log.                                               *)
AckedIsDisposed ==
  \A c \in Call \ Stuck :
    call[c] = "acked" ~> Disposed(c) \/ stopped \/ workerErr \/ MemoryOnly

(* The error path uses its log as a durable FIFO of frames, as the event   *)
(* path does: a frame is acknowledged only while it is in the log, and     *)
(* taken only by a checkpoint.                                             *)
Frames == INSTANCE DurableLog WITH
  Item   <- Call,
  place  <- [c \in Call |-> IF \E i \in (cp+1)..Len(log) : log[i] = c
                            THEN CHOOSE i \in (cp+1)..Len(log) : log[i] = c ELSE 0],
  acked  <- {c \in Call : call[c] = "acked" /\ \E i \in 1..Len(log) : log[i] = c},
  stored <- {log[i] : i \in 1..cp}

UsesDurableLog == Frames!Spec
=============================================================================
