------------------------------ MODULE DiskQueue ------------------------------
(***************************************************************************)
(* The write-ahead log of the ingest path, internal/ingest/queue.go: the   *)
(* segment files, the checkpoint file, the group commit and the sticky     *)
(* failure latch of one DiskQueue, and what of it survives a crash.        *)
(*                                                                         *)
(* Positions are logical byte offsets.  The code re-derives the bases of   *)
(* the segments from zero at every open; no offset outlives its process    *)
(* and segments are only ever removed from the low end, so that is a       *)
(* uniform shift and the model keeps one coordinate system for ever.       *)
(* Segments are contiguous: segment i covers base[i] .. base[i+1], the     *)
(* active one base[active] .. offset, and the table q.segments is          *)
(* first .. active.                                                        *)
(*                                                                         *)
(* q.mu is held across every operation but WaitCommit's sleep, so an       *)
(* action is one critical section.  A crash inside a critical section that *)
(* leaves the disk in a state no completed section leaves it in is an      *)
(* action of its own (CrashInRoll, CrashInCheckpoint).                     *)
(***************************************************************************)
EXTENDS Integers, FiniteSets

CONSTANTS
  Call,           \* producer calls: each appends one frame and awaits its commit
  FrameSize,      \* the sizes a frame may have
  MaxBytes,       \* segment cap
  MaxTotalBytes,  \* disk high-water
  Lossy,          \* TRUE for WithLossySync
  FaultKind,      \* the I/O errors the environment may produce
  MaxCrashes      \* bound on crashes

Faults == {"create", "dir", "flush", "sync", "close", "remove", "cpwrite"}

ASSUME DiskQueueAssumption ==
  /\ FrameSize \subseteq Nat \ {0}
  /\ MaxBytes \in Nat \ {0}
  /\ MaxTotalBytes \in Nat
  /\ MaxTotalBytes >= MaxBytes
  /\ \A n \in FrameSize : n =< MaxTotalBytes   \* 8 MiB frames, 512 MiB high-water
  /\ Lossy \in BOOLEAN
  /\ FaultKind \subseteq Faults
  /\ MaxCrashes \in Nat

VARIABLES
  proc,      \* "down" | "open" (constructed) | "up" (replayed) | "detached" | "stopped"
  first,     \* number of the oldest segment
  active,    \* number of the active segment
  base,      \* base of every segment ever created
  offset,    \* logical end of the log
  spare,     \* file active+1 exists although the table does not list it
  torn,      \* sealed segments that end in a partial frame
  soft,      \* frames of sealed segments that no fsync covered
  end,       \* end of the frame of a call; 0 while the log holds none
  stable,    \* up to here everything but the soft frames is on stable storage
  cp,        \* q.cpSeg, q.cpOff
  cpFile,    \* the checkpoint file
  synced,    \* q.syncedOffset
  dirty,     \* q.dirtySinceFlush
  latched,   \* q.lastErr is set
  bufErr,    \* the bufio.Writer holds its sticky error
  syncLost,  \* an fsync failed: the kernel took the pages it lost for clean
  dropped,   \* q.droppedUnackedSegments
  call,      \* state of each producer call
  signal,    \* calls that have registered a waiter and not yet sent commitWake
  wake,      \* commitWake holds its token
  committer, \* "idle" | "window" | "exited"
  done,      \* calls whose frame the consumer has stored
  crashes

files == <<first, active, base, offset, spare, torn, soft, end>>
health == <<latched, bufErr, syncLost>>
group == <<call, signal, wake, committer>>
vars == <<proc, files, stable, cp, cpFile, synced, dirty, health, dropped, group,
          done, crashes>>

CallState == {"idle", "appended", "waiting", "acked", "refused", "failed"}
Position == [seg : Nat, off : Nat]

Origin == [seg |-> 0, off |-> 0]

TypeOK ==
  /\ proc \in {"down", "open", "up", "detached", "stopped"}
  /\ first \in Nat /\ active \in Nat
  /\ base \in [0..active -> Nat]
  /\ offset \in Nat /\ stable \in Nat /\ synced \in Nat
  /\ spare \in BOOLEAN
  /\ torn \subseteq Nat /\ soft \subseteq Call
  /\ end \in [Call -> Nat]
  /\ cp \in Position /\ cpFile \in Position
  /\ dirty \in BOOLEAN /\ latched \in BOOLEAN
  /\ bufErr \in BOOLEAN /\ syncLost \in BOOLEAN
  /\ dropped \in Nat /\ crashes \in Nat
  /\ call \in [Call -> CallState]
  /\ signal \subseteq Call
  /\ wake \in BOOLEAN
  /\ committer \in {"idle", "window", "exited"}
  /\ done \subseteq Call

Init ==
  /\ proc = "up"
  /\ first = 0 /\ active = 0 /\ base = [i \in 0..0 |-> 0] /\ offset = 0
  /\ spare = FALSE /\ torn = {} /\ soft = {} /\ end = [c \in Call |-> 0]
  /\ stable = 0 /\ synced = 0 /\ dirty = FALSE
  /\ cp = Origin /\ cpFile = Origin
  /\ latched = FALSE /\ bufErr = FALSE /\ syncLost = FALSE /\ dropped = 0
  /\ call = [c \in Call |-> "idle"] /\ signal = {} /\ wake = FALSE
  /\ committer = "idle"
  /\ done = {} /\ crashes = 0

-----------------------------------------------------------------------------
(* Positions.                                                              *)

ActiveSize == offset - base[active]
TotalBytes == offset - base[first]

Logical(p) == IF p.seg \in first..active THEN base[p.seg] + p.off ELSE 0
CpLogical == Logical(cp)

(* logicalToPos(t) = (s, t - base[s]): the highest segment that starts     *)
(* below t, or the active one when it is empty and t is the log's end.     *)
PosSeg(t, s) ==
  \/ s = active /\ t = base[active] /\ offset = base[active]
  \/ /\ ~(t = base[active] /\ offset = base[active])
     /\ base[s] < t
     /\ \A j \in (s+1)..active : t =< base[j]

\* Mutants: records the live end of the log instead of the target; takes
\* every target to lie in the active segment.
LogicalToPosActive(t) == {[seg |-> active, off |-> t - base[active]]}

LogicalToPosLive(t) ==
  {[seg |-> s, off |-> offset - base[s]] : s \in {s \in first..active : PosSeg(offset, s)}}

LogicalToPos(t) ==
  LET segs == {s \in first..active : PosSeg(t, s)}
  IN IF segs = {} THEN {[seg |-> first, off |-> 0]}
     ELSE {[seg |-> s, off |-> t - base[s]] : s \in segs}

(* A segment ends on a record boundary only if a frame ends there.         *)
Boundary(t) == t = base[active] \/ \E c \in Call : end[c] = t /\ base[active] < t

-----------------------------------------------------------------------------
(* I/O outcomes and segment bookkeeping shared by the operations.          *)

(* writer.Flush followed by file.Sync, both successful.  Once an fsync has *)
(* failed the kernel has marked the lost pages clean: a later success      *)
(* proves nothing about them.                                              *)
SyncOK ==
  /\ ~bufErr
  /\ stable' = IF syncLost THEN stable ELSE offset
  /\ synced' = offset

(* ... or one of them fails and latches the queue.  A failed Flush leaves  *)
(* its error in the bufio.Writer, so every later Flush fails too.          *)
SyncFails ==
  /\ latched' = TRUE
  /\ \/ bufErr /\ UNCHANGED <<bufErr, syncLost>>
     \/ ~bufErr /\ "flush" \in FaultKind /\ bufErr' = TRUE /\ UNCHANGED syncLost
     \/ ~bufErr /\ "sync" \in FaultKind /\ syncLost' = TRUE /\ UNCHANGED bufErr

Higher(m, n) == IF m > n THEN m ELSE n

(* gcSegmentsLocked with the checkpoint in segment s: drop the segments    *)
(* below s; a failing os.Remove ends the sweep early.                      *)
\* Mutant: collects the segment the checkpoint sits in as well.
GcToInclusive(f, s, g) == g = Higher(f, IF s < active THEN s + 1 ELSE s)

GcTo(f, s, g) ==
  \/ g = Higher(f, s)
  \/ "remove" \in FaultKind /\ g \in f..Higher(f, s)

(* enforceCapLocked over segments f..active+1 of a log that ends in an     *)
(* empty segment: drop the oldest while the total exceeds the cap.         *)
NextBase == [i \in 0..(active+1) |-> IF i = active+1 THEN offset ELSE base[i]]

CapTo(f, g) ==
  /\ g \in f..(active+1)
  /\ \A i \in f..(g-1) : offset - NextBase[i] > MaxTotalBytes
  /\ \/ g = active+1
     \/ offset - NextBase[g] =< MaxTotalBytes
     \/ "remove" \in FaultKind

(* ... of which the ones not strictly below checkpoint segment s count as  *)
(* dropped unacknowledged.                                                 *)
\* Mutant: takes the checkpoint's own segment for acknowledged.
DroppedUnackedInclusive(f, g, s) == Higher(0, g - Higher(f, s + 1))

DroppedUnacked(f, g, s) == Higher(0, g - Higher(f, s))

(* rollLocked.  The next file is created before the old one is sealed.     *)
RollOK(f, s, g) ==
  /\ SyncOK
  /\ active' = active + 1 /\ base' = NextBase /\ spare' = FALSE
  /\ CapTo(f, g)
  /\ dropped' = dropped + DroppedUnacked(f, g, s)

RollFails ==
  \/ "create" \in FaultKind /\ UNCHANGED <<health, spare>>
  \/ /\ "dir" \in FaultKind /\ latched' = TRUE /\ spare' \in {spare, TRUE}
     /\ UNCHANGED <<bufErr, syncLost>>
  \/ SyncFails /\ spare' = TRUE
  \/ /\ "close" \in FaultKind /\ ~bufErr /\ latched' = TRUE /\ spare' = TRUE
     /\ UNCHANGED <<bufErr, syncLost>>

-----------------------------------------------------------------------------
(* Appending: AppendBatch / AppendRecords through appendFrame.             *)

CanAppend(c) == proc = "up" /\ call[c] = "idle" /\ ~latched

\* Mutant: forgets the bytes the segment already holds.
RollDueFrame(n) == ActiveSize > 0 /\ n > MaxBytes

RollDue(n) == ActiveSize > 0 /\ ActiveSize + n > MaxBytes

Settle(c, state) == call' = [call EXCEPT ![c] = state]

\* Mutant: leaves the dirty flag as it was.
WriteClean(c, n) ==
  /\ offset' = offset + n
  /\ end' = [end EXCEPT ![c] = offset + n]
  /\ UNCHANGED dirty
  /\ Settle(c, "appended")
  /\ UNCHANGED health

Write(c, n) ==
  /\ offset' = offset + n
  /\ end' = [end EXCEPT ![c] = offset + n]
  /\ dirty' = TRUE
  /\ Settle(c, "appended")
  /\ UNCHANGED health

(* A short write counts the bytes it wrote and latches the queue.          *)
WriteFails(c, n) ==
  /\ "flush" \in FaultKind
  /\ \E k \in 0..(n-1) : offset' = offset + k
  /\ latched' = TRUE /\ bufErr' = TRUE
  /\ Settle(c, "refused")
  /\ UNCHANGED <<end, dirty, syncLost>>

Append(c, n) ==
  /\ CanAppend(c) /\ ~RollDue(n)
  /\ Write(c, n) \/ WriteFails(c, n)
  /\ UNCHANGED <<proc, first, active, base, spare, torn, soft, stable, cp, cpFile, synced,
                 dropped, signal, wake, committer, done, crashes>>

(* The table after the roll's own GC (durable mode only), and the check    *)
(* of the disk budget that follows it.                                     *)
BeforeRoll(g) == IF Lossy THEN g = first ELSE GcTo(first, cp.seg, g)

OverBudget(g, n) == ~Lossy /\ offset - base[g] + n > MaxTotalBytes

AppendRoll(c, n) ==
  /\ CanAppend(c) /\ RollDue(n)
  /\ \E f \in first..active : /\ BeforeRoll(f) /\ ~OverBudget(f, n)
                              /\ \E g \in f..(active+1) : RollOK(f, cp.seg, g) /\ first' = g
  /\ Write(c, n) \/ WriteFails(c, n)
  /\ UNCHANGED <<proc, torn, soft, cp, cpFile, signal, wake, committer, done, crashes>>

AppendRollFails(c, n) ==
  /\ CanAppend(c) /\ RollDue(n)
  /\ \E f \in first..active : BeforeRoll(f) /\ ~OverBudget(f, n) /\ first' = f
  /\ RollFails
  /\ Settle(c, "refused")
  /\ UNCHANGED <<proc, active, base, offset, torn, soft, end, stable, cp, cpFile, synced, dirty,
                 dropped, signal, wake, committer, done, crashes>>

(* ErrWALHighWaterRefused.                                                 *)
AppendHighWater(c, n) ==
  /\ CanAppend(c) /\ RollDue(n)
  /\ \E f \in first..active : BeforeRoll(f) /\ OverBudget(f, n) /\ first' = f
  /\ Settle(c, "refused")
  /\ UNCHANGED <<proc, active, base, offset, spare, torn, soft, end, stable, cp, cpFile, synced,
                 dirty, health, dropped, signal, wake, committer, done, crashes>>

AppendRefused(c) ==
  /\ call[c] = "idle"
  /\ proc = "stopped" \/ (proc = "up" /\ latched)
  /\ Settle(c, "refused")
  /\ UNCHANGED <<proc, files, stable, cp, cpFile, synced, dirty, health, dropped, signal,
                 wake, committer, done, crashes>>

-----------------------------------------------------------------------------
(* Group commit.                                                           *)

(* WaitCommit up to its sleep.  Coverage is tested before the stop and the *)
(* latch.                                                                  *)
WaitCommit(c) ==
  /\ proc \in {"up", "stopped"}
  /\ call[c] = "appended"
  /\ \/ (Lossy \/ synced >= end[c]) /\ Settle(c, "acked") /\ UNCHANGED signal
     \/ /\ ~Lossy /\ synced < end[c] /\ (proc = "stopped" \/ latched)
        /\ Settle(c, "failed") /\ UNCHANGED signal
     \/ /\ ~Lossy /\ synced < end[c] /\ proc = "up" /\ ~latched
        /\ Settle(c, "waiting") /\ signal' = signal \cup {c}
  /\ UNCHANGED <<proc, files, stable, cp, cpFile, synced, dirty, health, dropped, wake,
                 committer, done, crashes>>

(* The non-blocking send on commitWake, after q.mu is released.            *)
Signal(c) ==
  /\ c \in signal
  /\ signal' = signal \ {c}
  /\ wake' = TRUE
  /\ UNCHANGED <<proc, files, stable, cp, cpFile, synced, dirty, health, dropped, call,
                 committer, done, crashes>>

Waiters == {c \in Call : call[c] = "waiting"}
Resolve(good) == call' = [c \in Call |-> IF c \notin Waiters THEN call[c]
                                         ELSE IF c \in good THEN "acked" ELSE "failed"]
\* Mutant: whatever was appended counts as covered.
CoveredAppended == {c \in Waiters : end[c] =< offset}

Covered == {c \in Waiters : end[c] =< synced}

(* committerLoop receives the token and opens the commit window; a token   *)
(* received inside the window only re-evaluates it.                        *)
CommitterWake ==
  /\ proc \in {"up", "stopped"} /\ committer \in {"idle", "window"} /\ wake
  /\ wake' = FALSE
  /\ committer' = IF Waiters = {} THEN "idle" ELSE "window"
  /\ UNCHANGED <<proc, files, stable, cp, cpFile, synced, dirty, health, dropped, call,
                 signal, done, crashes>>

(* The window closes: syncGroup.                                           *)
SyncGroup ==
  /\ proc \in {"up", "stopped"} /\ committer = "window"
  /\ committer' = "idle"
  /\ \/ /\ proc = "stopped" /\ Resolve(Covered)
        /\ UNCHANGED <<stable, synced, dirty, health>>
     \/ /\ proc = "up" /\ ~latched /\ Covered = Waiters /\ Resolve(Waiters)
        /\ UNCHANGED <<stable, synced, dirty, health>>
     \/ /\ proc = "up" /\ latched /\ Resolve({})
        /\ UNCHANGED <<stable, synced, dirty, health>>
     \/ /\ proc = "up" /\ ~latched /\ Covered # Waiters
        /\ \/ SyncOK /\ dirty' = FALSE /\ Resolve(Waiters) /\ UNCHANGED health
           \/ SyncFails /\ Resolve({}) /\ UNCHANGED <<stable, synced, dirty>>
  /\ UNCHANGED <<proc, files, cp, cpFile, dropped, signal, wake, done, crashes>>

(* stopCh is closed: failOrCoverWaiters, and the goroutine returns.        *)
\* Mutant: returns without draining the waiters.
CommitterStopNoDrain ==
  /\ proc = "stopped" /\ committer # "exited"
  /\ committer' = "exited"
  /\ UNCHANGED <<proc, files, stable, cp, cpFile, synced, dirty, health, dropped, signal,
                 wake, call, done, crashes>>

CommitterStop ==
  /\ proc = "stopped" /\ committer # "exited"
  /\ committer' = "exited"
  /\ Resolve(Covered)
  /\ UNCHANGED <<proc, files, stable, cp, cpFile, synced, dirty, health, dropped, signal,
                 wake, done, crashes>>

(* fsyncLoop's tick.                                                       *)
FsyncTick ==
  /\ proc \in {"open", "up", "detached"} /\ dirty /\ ~latched
  /\ \/ SyncOK /\ dirty' = FALSE /\ UNCHANGED health
     \/ SyncFails /\ UNCHANGED <<stable, synced, dirty>>
  /\ UNCHANGED <<proc, files, cp, cpFile, dropped, group, done, crashes>>

-----------------------------------------------------------------------------
(* Checkpoint(target): the consumer has stored everything up to the frame  *)
(* of call c.                                                              *)

Stored(c) == {d \in Call : 0 < end[d] /\ end[d] =< end[c]}

CheckpointDue(c) ==
  /\ proc = "up"
  /\ end[c] > CpLogical
  /\ done' = done \cup Stored(c)

(* The active segment is full and wholly checkpointed: roll it away.       *)
ReclaimDue(p) == ActiveSize >= MaxBytes /\ p.seg = active /\ p.off >= ActiveSize

Checkpoint(c) ==
  /\ CheckpointDue(c)
  /\ SyncOK
  /\ \E p \in LogicalToPos(end[c]) :
       /\ ~ReclaimDue(p)
       /\ cp' = p /\ cpFile' = p
       /\ \E g \in first..active : GcTo(first, p.seg, g) /\ first' = g
  /\ dirty' = FALSE
  /\ UNCHANGED <<proc, active, base, offset, spare, torn, soft, end, health, dropped, group, crashes>>

(* ... with the roll, the rewrite of the checkpoint at the head of the new *)
(* segment, and the second GC.                                             *)
CheckpointReclaim(c) ==
  /\ CheckpointDue(c)
  /\ \E p \in LogicalToPos(end[c]), f \in first..active, g \in first..(active+1) :
       /\ ReclaimDue(p) /\ GcTo(first, p.seg, f)
       /\ RollOK(f, p.seg, g)
       /\ LET head == [seg |-> active + 1, off |-> 0] IN
          \/ /\ cp' = head /\ cpFile' = head
             /\ \E h \in g..(active+1) : GcTo(g, active + 1, h) /\ first' = h
             /\ UNCHANGED latched
          \/ /\ "cpwrite" \in FaultKind /\ latched' = TRUE
             /\ cp' = p /\ cpFile' \in {p, head} /\ first' = g
  /\ dirty' = FALSE
  /\ UNCHANGED <<proc, offset, torn, soft, end, bufErr, syncLost, group, crashes>>

(* ... or the roll fails, which Checkpoint only logs.                      *)
CheckpointReclaimFails(c) ==
  /\ CheckpointDue(c)
  /\ SyncOK
  /\ \E p \in LogicalToPos(end[c]) :
       /\ ReclaimDue(p) /\ RollFails
       /\ cp' = p /\ cpFile' = p
       /\ \E g \in first..active : GcTo(first, p.seg, g) /\ first' = g
  /\ dirty' = FALSE
  /\ UNCHANGED <<proc, active, base, offset, torn, soft, end, dropped, group, crashes>>

(* The flush, the fsync or the checkpoint file's replacement fails.        *)
CheckpointFails(c) ==
  /\ CheckpointDue(c)
  /\ \/ SyncFails /\ UNCHANGED <<stable, synced, cpFile>>
     \/ /\ "cpwrite" \in FaultKind /\ SyncOK /\ latched' = TRUE
        /\ \E p \in LogicalToPos(end[c]) : cpFile' \in {cpFile, p}
        /\ UNCHANGED <<bufErr, syncLost>>
  /\ UNCHANGED <<proc, files, cp, dirty, dropped, group, crashes>>

-----------------------------------------------------------------------------
(* Shutdown, crash and reopening.                                          *)

Close ==
  /\ proc = "up"
  /\ proc' = "stopped"
  /\ \/ SyncOK
     \/ bufErr /\ UNCHANGED <<stable, synced>>
     \/ FaultKind \cap {"flush", "sync"} # {} /\ UNCHANGED <<stable, synced>>
  /\ UNCHANGED <<files, cp, cpFile, dirty, health, dropped, group, done, crashes>>

(* The process dies.  The active file keeps some prefix of what was        *)
(* appended to it, no shorter than what fsync covered; every frame that    *)
(* prefix cuts is gone; whoever was in a call gets no answer.  What a      *)
(* failed fsync left in the page cache only is still there, and still not  *)
(* on disk, unless the machine goes down too.                              *)
Die(lo) ==
  /\ proc # "down" /\ crashes < MaxCrashes
  /\ crashes' = crashes + 1
  /\ proc' = "down"
  /\ \E left \in Higher(lo, base[active])..offset :
       /\ offset' = left
       /\ end' = [c \in Call |-> IF end[c] > left THEN 0 ELSE end[c]]
  /\ synced' = 0 /\ dirty' = FALSE /\ dropped' = 0
  /\ latched' = FALSE /\ bufErr' = FALSE /\ syncLost' \in {syncLost, FALSE}
  /\ call' = [c \in Call |-> IF call[c] \in {"appended", "waiting"} THEN "failed"
                             ELSE call[c]]
  /\ signal' = {} /\ wake' = FALSE /\ committer' = "idle"

Crash ==
  /\ Die(stable)
  /\ cp' = cpFile
  /\ UNCHANGED <<first, active, base, spare, torn, soft, stable, cpFile, done>>

(* ... between the creation of the next segment file and the fsync of the  *)
(* segment it seals.                                                       *)
CrashInRoll ==
  /\ proc = "up" /\ ~latched
  /\ \E n \in FrameSize :
       RollDue(n) /\ \E f \in first..active : BeforeRoll(f) /\ ~OverBudget(f, n) /\ first' = f
  /\ Die(stable)
  /\ spare' = TRUE
  /\ cp' = cpFile
  /\ UNCHANGED <<active, base, torn, soft, stable, cpFile, done>>

(* ... in Checkpoint, after its checkpoint file is in place: at any point  *)
(* of the GC, or after it, when the reclaiming roll has created its file.  *)
CrashInCheckpoint(c) ==
  /\ CheckpointDue(c) /\ ~bufErr
  /\ \E p \in LogicalToPos(end[c]) :
       /\ cpFile' = p /\ cp' = p
       /\ \/ first' \in first..Higher(first, p.seg) /\ UNCHANGED spare
          \/ /\ ReclaimDue(p) /\ spare' = TRUE
             /\ \E g \in first..active : GcTo(first, p.seg, g) /\ first' = g
  /\ stable' = IF syncLost THEN stable ELSE offset
  /\ Die(stable')
  /\ UNCHANGED <<active, base, torn, soft>>

(* ... and takes the machine with it: sealed segment s loses what follows  *)
(* t, bytes that no fsync covered.  The next open re-derives the bases     *)
(* above it from the sizes of the files.                                   *)
Beyond(s, t) == {c \in Call : t < end[c] /\ end[c] =< base[s+1]}

CutSealed(s, t) ==
  /\ proc = "down"
  /\ base[s] =< t /\ t < base[s+1]
  /\ \A c \in Beyond(s, t) : c \in soft \/ stable < end[c]
  /\ LET gone == base[s+1] - t
     IN /\ base' = [i \in 0..active |-> IF i > s THEN base[i] - gone ELSE base[i]]
        /\ end' = [c \in Call |-> IF c \in Beyond(s, t) THEN 0
                                  ELSE IF end[c] > t THEN end[c] - gone ELSE end[c]]
        /\ offset' = offset - gone
        /\ stable' = IF stable =< t THEN stable ELSE Higher(t, stable - gone)
  /\ soft' = soft \ Beyond(s, t)
  /\ torn' = IF t = base[s] \/ (\E c \in Call : end[c] = t) THEN torn \ {s} ELSE torn \cup {s}
  /\ cp' = cpFile /\ synced' = 0
  /\ UNCHANGED <<proc, first, active, spare, cpFile, dirty, health, dropped, group, done,
                 crashes>>

(* NewDiskQueue: the highest-numbered file becomes active and has a torn   *)
(* tail cut off; the former active one keeps its tail, and nothing fsyncs  *)
(* it any more.  A checkpoint that names no position of the log is         *)
(* replaced by the start of the first segment.                             *)
Repaired(t) == \/ t = base[active]
               \/ t > base[active] /\ \E c \in Call : end[c] = t

Open ==
  /\ proc = "down"
  /\ proc' = "open"
  /\ IF spare
     THEN /\ active' = active + 1 /\ base' = NextBase /\ spare' = FALSE
          /\ torn' = IF Repaired(offset) THEN torn ELSE torn \cup {active}
          /\ soft' = soft \cup {c \in Call : stable < end[c]}
          /\ stable' = offset
          /\ UNCHANGED offset
     ELSE /\ \E t \in base[active]..offset :
               /\ Repaired(t) /\ \A u \in (t+1)..offset : ~Repaired(u)
               /\ offset' = t
               /\ stable' = IF stable > t THEN t ELSE stable
          /\ UNCHANGED <<active, base, spare, torn, soft>>
  /\ LET valid == /\ cpFile.seg \in first..active'
                  /\ base'[cpFile.seg] + cpFile.off =<
                       (IF cpFile.seg = active' THEN offset' ELSE base'[cpFile.seg + 1])
         start == IF valid THEN cpFile ELSE [seg |-> first, off |-> 0]
     IN /\ cp' = start /\ cpFile' = start
        /\ \E g \in first..active' : GcTo(first, start.seg, g) /\ first' = g
        /\ synced' = base'[start.seg] + start.off
  /\ UNCHANGED <<end, dirty, health, dropped, group, done, crashes>>

(* AttachQueue's replay of everything past the checkpoint (streamFrames).  *)
(* A partial record in a sealed segment is corruption, and the process     *)
(* goes on without the queue.                                              *)
ReplayFails == \E s \in torn : s >= first /\ s >= cp.seg

Attach ==
  /\ proc = "open"
  /\ proc' = IF ReplayFails THEN "detached" ELSE "up"
  /\ UNCHANGED <<files, stable, cp, cpFile, synced, dirty, health, dropped, group, done,
                 crashes>>

-----------------------------------------------------------------------------
Next ==
  \/ \E c \in Call, n \in FrameSize :
       \/ Append(c, n) \/ AppendRoll(c, n) \/ AppendRollFails(c, n) \/ AppendHighWater(c, n)
  \/ \E c \in Call :
       \/ AppendRefused(c) \/ WaitCommit(c) \/ Signal(c)
       \/ Checkpoint(c) \/ CheckpointReclaim(c) \/ CheckpointReclaimFails(c)
       \/ CheckpointFails(c) \/ CrashInCheckpoint(c)
  \/ CommitterWake \/ SyncGroup \/ CommitterStop \/ FsyncTick
  \/ Close \/ Crash \/ CrashInRoll \/ Open \/ Attach
  \/ \E s \in first..(active-1) : \E t \in 0..offset : CutSealed(s, t)

Spec == Init /\ [][Next]_vars

(* The goroutines and the callers run; nothing makes a client call, the    *)
(* database answer or the machine stay up.                                 *)
Fairness ==
  /\ WF_vars(CommitterWake) /\ WF_vars(SyncGroup) /\ WF_vars(CommitterStop)
  /\ WF_vars(FsyncTick) /\ WF_vars(Open) /\ WF_vars(Attach)
  /\ \A c \in Call : WF_vars(WaitCommit(c)) /\ WF_vars(Signal(c))

FairSpec == Spec /\ Fairness

-----------------------------------------------------------------------------
(* Properties.                                                             *)

(* The checkpoint file points past the end of a sealed segment.            *)
Stranded == cpFile.seg \in first..(active-1) /\ base[cpFile.seg] + cpFile.off > base[cpFile.seg + 1]

(* Where the next open will start its replay.                              *)
ReplayFrom == IF Stranded THEN base[first] ELSE Logical(cpFile)

Recoverable(c) == end[c] > base[first] /\ end[c] > ReplayFrom

(* An acknowledgement after WaitCommit is backed by fsynced bytes, in a    *)
(* segment that is still there, past the position replay starts from -     *)
(* until the consumer has stored the frame - whatever crashes, rolls,      *)
(* high-water refusals, GC sweeps and failed operations come in between.   *)
AckedDurable ==
  ~Lossy => \A c \in Call : call[c] = "acked" /\ c \notin done
                              => Recoverable(c) /\ end[c] =< stable /\ c \notin soft

(* The checkpoint file of a durable queue names an existing segment and a  *)
(* record boundary within it, so that no reopening refuses to start or     *)
(* replays the whole log - but after a power loss that cut a sealed        *)
(* segment nothing ever fsynced: until the next open falls back to the     *)
(* start of the log, the file may point past the end of that segment.      *)
CheckpointNamesLog ==
  ~Lossy => /\ cpFile.seg \in first..active
            /\ \/ cpFile.off = 0
               \/ \E c \in Call : end[c] = base[cpFile.seg] + cpFile.off
               \/ proc = "down" /\ Stranded

(* The dirty flag never hides bytes a caller is still waiting for from the *)
(* backstop fsync loop.                                                    *)
DirtyCoversWaiters ==
  proc = "up" /\ ~dirty /\ ~latched
    => \A c \in Call : call[c] \in {"appended", "waiting"} => end[c] =< synced

(* What the disk high-water really bounds: the cap is only looked at when  *)
(* a roll is due, so the log may exceed it by one segment.                 *)
CapOvershoot ==
  ~Lossy /\ "remove" \notin FaultKind /\ (\A n \in FrameSize : n =< MaxBytes)
    => TotalBytes =< MaxTotalBytes + MaxBytes

(* "Only the ACTIVE segment can carry a torn tail - sealed segments were   *)
(* complete when they were rolled past" (queue.go:408): so a replay never  *)
(* meets a partial record.                                                 *)
ReplayNeverRefused == proc # "detached"

(* A segment is never dropped with an unstored acknowledged frame in it    *)
(* without the loss being counted.                                         *)
DropsAreCounted ==
  [][\A c \in Call : /\ call[c] = "acked" /\ c \notin done'
                     /\ base[first] < end[c] /\ end[c] =< base'[first']
                     => dropped' > dropped]_vars

(* Every caller blocked in WaitCommit is answered: the token sent on a     *)
(* full channel is never the one that mattered, and neither a latched      *)
(* failure nor Close leaves a waiter behind.                               *)
WaitersResolved == \A c \in Call : call[c] = "waiting" ~> call[c] # "waiting"

(* In lossy mode the fsync loop bounds the loss: an acknowledged frame     *)
(* reaches stable storage unless the process dies or a failure latches.    *)
LossyWindowCloses ==
  \A c \in Call : call[c] = "acked" /\ crashes = 0
                    ~> end[c] =< stable \/ c \in done \/ proc # "up" \/ latched

(* The durable queue is a durable FIFO: see DurableLog.                    *)
InLog(c) == c \notin done /\ end[c] > base[first]

Log == INSTANCE DurableLog WITH
  Item   <- Call,
  place  <- [c \in Call |-> IF InLog(c) THEN end[c] ELSE 0],
  acked  <- {c \in Call : call[c] = "acked"},
  stored <- done

ImplementsDurableLog == Log!Spec
=============================================================================
