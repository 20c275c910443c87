--------------------------- MODULE DiskQueueProofs ---------------------------
(***************************************************************************)
(* The write-ahead log, for any number of calls, any sizes and any number  *)
(* of crashes:                                                             *)
(*   - its types, with both sync modes and every fault;                    *)
(*   - it loses nothing it acknowledged (AckedDurable) and its checkpoint  *)
(*     file names its log (CheckpointNamesLog);                            *)
(*   - a durable one holds its budget and one segment at most              *)
(*     (CapOvershoot, and DurableCapOvershoot of MCDiskQueueLive);         *)
(*   - it implements the durable FIFO of DurableLog;                       *)
(*   - it drops no frame that is acknowledged and not stored without       *)
(*     counting it, whatever fails (DropsAreCounted).                      *)
(*                                                                         *)
(* That it loses nothing and that it implements DurableLog need that no    *)
(* fsync fails.  One that fails and then succeeds is the fault after which *)
(* the code's positions no longer say what is on disk, and the run         *)
(* AckAfterFailedSync shows the loss it leads to.                          *)
(*                                                                         *)
(* AckedDurable is not inductive by itself.  It needs the shape of the     *)
(* segment table, what synced, stable and soft promise about each other,   *)
(* and where the two copies of the checkpoint may point - among them into  *)
(* a sealed segment that a power loss has cut (StrandedInv).               *)
(***************************************************************************)
EXTENDS MCDiskQueueLive, WellFoundedInduction, TLAPS

-----------------------------------------------------------------------------
(* Bounds on what the helpers return.                                      *)

LEMMA HigherInt == \A m, n \in Int : /\ Higher(m, n) \in {m, n}
                                     /\ m =< Higher(m, n) /\ n =< Higher(m, n)
BY DEF Higher

(* A checkpoint position is a position.                                    *)
LEMMA LogicalToPosType ==
  ASSUME TypeOK, NEW c \in Call, NEW p \in LogicalToPos(end[c])
  PROVE  p \in Position
<1> DEFINE t == end[c]
<1>1. t \in Nat
  BY DEF TypeOK
<1>2. CASE {s \in first..active : PosSeg(t, s)} = {}
  <2>1. p = [seg |-> first, off |-> 0]
    BY <1>2 DEF LogicalToPos
  <2>2. first \in Nat
    BY DEF TypeOK
  <2> QED BY <2>1, <2>2 DEF Position
<1>3. CASE {s \in first..active : PosSeg(t, s)} # {}
  <2>1. PICK s \in first..active : PosSeg(t, s) /\ p = [seg |-> s, off |-> t - base[s]]
    BY <1>3 DEF LogicalToPos
  <2>2. t - base[s] \in Nat
    BY <1>1, <2>1 DEF TypeOK, PosSeg
  <2> QED BY <2>1, <2>2 DEF Position, TypeOK
<1> QED BY <1>2, <1>3

-----------------------------------------------------------------------------
(* Type correctness.                                                       *)

LEMMA SettleType ==
  ASSUME TypeOK, NEW c \in Call, NEW state \in CallState, Settle(c, state)
  PROVE  call' \in [Call -> CallState]
BY DEF TypeOK, Settle

LEMMA ResolveType ==
  ASSUME TypeOK, NEW good, Resolve(good)
  PROVE  call' \in [Call -> CallState]
BY DEF TypeOK, Resolve, Waiters, CallState

LEMMA SyncOKType ==
  ASSUME TypeOK, SyncOK
  PROVE  stable' \in Nat /\ synced' \in Nat
BY DEF TypeOK, SyncOK

LEMMA SyncFailsType ==
  ASSUME TypeOK, SyncFails
  PROVE  latched' \in BOOLEAN /\ bufErr' \in BOOLEAN /\ syncLost' \in BOOLEAN
BY DEF TypeOK, SyncFails

LEMMA DroppedUnackedType ==
  \A f, g, s \in Int : DroppedUnacked(f, g, s) \in Nat
<1> SUFFICES ASSUME NEW f \in Int, NEW g \in Int, NEW s \in Int
             PROVE  DroppedUnacked(f, g, s) \in Nat
  OBVIOUS
<1>1. Higher(f, s) \in Int
  BY HigherInt
<1> QED BY <1>1, HigherInt DEF DroppedUnacked

LEMMA RollOKType ==
  ASSUME TypeOK, NEW f \in Nat, NEW s \in Nat, NEW g \in Nat, RollOK(f, s, g)
  PROVE  /\ stable' \in Nat /\ synced' \in Nat
         /\ active' \in Nat /\ base' \in [0..active' -> Nat]
         /\ spare' \in BOOLEAN /\ dropped' \in Nat
<1>1. stable' \in Nat /\ synced' \in Nat
  BY SyncOKType DEF RollOK
<1>2. active' \in Nat
  <2>1. active' = active + 1
    BY Zenon DEF RollOK
  <2> QED BY <2>1 DEF TypeOK
<1>3. \A i \in 0..(active+1) : (IF i = active+1 THEN offset ELSE base[i]) \in Nat
  BY DEF TypeOK
<1>4. base' \in [0..active' -> Nat]
  BY <1>3 DEF RollOK, NextBase
<1>5. dropped' \in Nat
  <2>1. dropped' = dropped + DroppedUnacked(f, g, s)
    BY Zenon DEF RollOK
  <2>2. DroppedUnacked(f, g, s) \in Nat
    BY DroppedUnackedType
  <2> QED BY <2>1, <2>2 DEF TypeOK
<1>6. spare' \in BOOLEAN
  BY Zenon DEF RollOK
<1> QED BY <1>1, <1>2, <1>4, <1>5, <1>6, Zenon

LEMMA RollFailsType ==
  ASSUME TypeOK, RollFails
  PROVE  /\ latched' \in BOOLEAN /\ bufErr' \in BOOLEAN /\ syncLost' \in BOOLEAN
         /\ spare' \in BOOLEAN
BY SyncFailsType DEF RollFails, TypeOK, health

(* A write, whole or short.                                                *)
LEMMA WriteType ==
  ASSUME TypeOK, NEW c \in Call, NEW n \in Nat \ {0}, Write(c, n) \/ WriteFails(c, n)
  PROVE  /\ offset' \in Nat /\ end' \in [Call -> Nat] /\ dirty' \in BOOLEAN
         /\ call' \in [Call -> CallState]
         /\ latched' \in BOOLEAN /\ bufErr' \in BOOLEAN /\ syncLost' \in BOOLEAN
<1>1. CASE Write(c, n)
  BY <1>1, SettleType DEF Write, TypeOK, health, CallState
<1>2. CASE WriteFails(c, n)
  BY <1>2, SettleType DEF WriteFails, TypeOK, CallState
<1> QED BY <1>1, <1>2

(* What a crash leaves of the volatile state.                              *)
AfterDeath ==
  /\ proc' = "down" /\ offset' \in Nat /\ end' \in [Call -> Nat] /\ synced' \in Nat
  /\ dirty' = FALSE /\ latched' = FALSE /\ bufErr' = FALSE /\ syncLost' \in BOOLEAN
  /\ dropped' \in Nat /\ crashes' \in Nat
  /\ call' \in [Call -> CallState] /\ signal' = {} /\ wake' = FALSE /\ committer' = "idle"

LEMMA DieType ==
  ASSUME TypeOK, NEW lo \in Nat, Die(lo)
  PROVE  AfterDeath
<1>1. crashes' \in Nat
  BY DEF Die, TypeOK
<1>2. PICK left \in Higher(lo, base[active])..offset :
        /\ offset' = left
        /\ end' = [c \in Call |-> IF end[c] > left THEN 0 ELSE end[c]]
  BY Zenon DEF Die
<1>3. Higher(lo, base[active]) \in Nat
  BY HigherInt DEF TypeOK
<1>4. left \in Nat
  BY <1>3 DEF TypeOK
<1>5. offset' \in Nat /\ end' \in [Call -> Nat]
  BY <1>2, <1>4 DEF TypeOK
<1>6. call' \in [Call -> CallState]
  BY DEF Die, TypeOK, CallState
<1>7. synced' \in Nat /\ dropped' \in Nat
  BY DEF Die
<1>8. syncLost' \in BOOLEAN
  BY Zenon DEF Die, TypeOK
<1> QED BY <1>1, <1>5, <1>6, <1>7, <1>8, Zenon DEF Die, AfterDeath

LEMMA OpenFilesType ==
  ASSUME TypeOK, Open
  PROVE  /\ active' \in Nat /\ base' \in [0..active' -> Nat]
         /\ offset' \in Nat /\ stable' \in Nat
         /\ torn' \subseteq Nat /\ soft' \subseteq Call /\ spare' \in BOOLEAN
<1>1. CASE spare
  <2>1. /\ active' = active + 1 /\ base' = NextBase
        /\ torn' = IF Repaired(offset) THEN torn ELSE torn \cup {active}
        /\ soft' = soft \cup {c \in Call : stable < end[c]}
        /\ stable' = offset /\ offset' = offset
    BY <1>1, Zenon DEF Open
  <2>2. \A i \in 0..(active+1) : (IF i = active+1 THEN offset ELSE base[i]) \in Nat
    BY DEF TypeOK
  <2>3. base' \in [0..active' -> Nat]
    BY <2>1, <2>2 DEF NextBase
  <2>4. active' \in Nat /\ offset' \in Nat /\ stable' \in Nat
    BY <2>1 DEF TypeOK
  <2>5. torn' \subseteq Nat /\ soft' \subseteq Call
    BY <2>1 DEF TypeOK
  <2>6. spare' \in BOOLEAN
    BY <1>1, Zenon DEF Open
  <2> QED BY <2>3, <2>4, <2>5, <2>6
<1>2. CASE ~spare
  <2>1. PICK t \in base[active]..offset :
          /\ offset' = t
          /\ stable' = IF stable > t THEN t ELSE stable
    BY <1>2, Zenon DEF Open
  <2>2. UNCHANGED <<active, base, spare, torn, soft>>
    BY <1>2, Zenon DEF Open
  <2>3. base[active] \in Nat
    BY DEF TypeOK
  <2>4. offset' \in Nat /\ stable' \in Nat
    BY <2>1, <2>3 DEF TypeOK
  <2> QED BY <2>2, <2>4, Zenon DEF TypeOK
<1> QED BY <1>1, <1>2

(* The checkpoint a reopening starts from: the file's, or the first one it *)
(* can replay from.                                                        *)
Valid ==
  /\ cpFile.seg \in first..active'
  /\ base'[cpFile.seg] + cpFile.off =<
       (IF cpFile.seg = active' THEN offset' ELSE base'[cpFile.seg + 1])

Starts(q) ==
  /\ \/ q = cpFile /\ Valid
     \/ q = [seg |-> first, off |-> 0] /\ ~Valid
  /\ cp' = q /\ cpFile' = q
  /\ \E g \in first..active' : GcTo(first, q.seg, g) /\ first' = g
  /\ synced' = base'[q.seg] + q.off

LEMMA OpenStarts ==
  ASSUME Open
  PROVE  \E q : Starts(q)
<1> DEFINE start == IF Valid THEN cpFile ELSE [seg |-> first, off |-> 0]
<1>1. /\ cp' = start /\ cpFile' = start
      /\ \E g \in first..active' : GcTo(first, start.seg, g) /\ first' = g
      /\ synced' = base'[start.seg] + start.off
  BY Zenon DEF Open, Valid
<1>2. \/ start = cpFile /\ Valid
      \/ start = [seg |-> first, off |-> 0] /\ ~Valid
  BY Zenon
<1> HIDE DEF start
<1> QED BY <1>1, <1>2, Zenon DEF Starts

(* A log that opens for the first time is of its type.                    *)
LEMMA TypeInit == Init => TypeOK
<1> SUFFICES ASSUME Init PROVE TypeOK
  OBVIOUS
<1>1. /\ first \in Nat /\ active \in Nat /\ base \in [0..active -> Nat]
      /\ offset \in Nat /\ stable \in Nat /\ synced \in Nat
      /\ dropped \in Nat /\ crashes \in Nat
  BY DEF Init
<1>2. cp \in Position /\ cpFile \in Position
  BY DEF Init, Origin, Position
<1>3. end \in [Call -> Nat] /\ call \in [Call -> CallState]
  BY DEF Init, CallState
<1>4. torn \subseteq Nat /\ soft \subseteq Call /\ signal \subseteq Call /\ done \subseteq Call
  BY DEF Init
<1> QED BY <1>1, <1>2, <1>3, <1>4, Zenon DEF Init, TypeOK

(* Segments follow one another.                                            *)
Ordered ==
  /\ base[active] =< offset
  /\ \A i, j \in 0..active : i =< j => base[i] =< base[j]

(* What a power loss takes of a sealed segment is all that moves.          *)
LEMMA CutSealedType ==
  ASSUME TypeOK, Ordered, NEW s \in first..(active-1), NEW t \in 0..offset, CutSealed(s, t)
  PROVE  /\ base' \in [0..active -> Nat] /\ offset' \in Nat /\ stable' \in Nat
         /\ end' \in [Call -> Nat] /\ torn' \subseteq Nat /\ soft' \subseteq Call
<1> DEFINE gone == base[s+1] - t
<1>1. /\ s \in 0..active /\ s + 1 \in 0..active /\ t \in Nat /\ stable \in Nat /\ offset \in Nat
      /\ active \in Nat /\ \A i \in 0..active : base[i] \in Nat
      /\ \A c \in Call : end[c] \in Nat
  BY DEF TypeOK
<1>2. base[s] =< t /\ t < base[s+1]
  BY Zenon DEF CutSealed
<1>3. /\ base' = [i \in 0..active |-> IF i > s THEN base[i] - gone ELSE base[i]]
      /\ end' = [c \in Call |-> IF c \in Beyond(s, t) THEN 0
                                ELSE IF end[c] > t THEN end[c] - gone ELSE end[c]]
      /\ offset' = offset - gone
      /\ stable' = IF stable =< t THEN stable ELSE Higher(t, stable - gone)
  BY DEF CutSealed
<1>4. gone \in Nat /\ base[s+1] \in Nat /\ base[s+1] = t + gone
  BY <1>1, <1>2
<1> HIDE DEF gone
<1>5. \A i \in 0..active : i > s => base[i] - gone \in Nat
  <2> SUFFICES ASSUME NEW i \in 0..active, i > s PROVE base[i] - gone \in Nat
    OBVIOUS
  <2>1. base[s+1] =< base[i]
    BY <1>1 DEF Ordered
  <2> QED BY <1>1, <1>4, <2>1
<1>6. base' \in [0..active -> Nat]
  BY <1>1, <1>3, <1>5
<1>7. offset' \in Nat
  <2>1. base[s+1] =< base[active] /\ base[active] =< offset /\ base[active] \in Nat
    BY <1>1 DEF Ordered
  <2> QED BY <1>1, <1>3, <1>4, <2>1
<1>8. stable' \in Nat
  <2>1. stable - gone \in Int /\ t \in Int
    BY <1>1, <1>4
  <2>2. /\ Higher(t, stable - gone) \in {t, stable - gone}
        /\ t =< Higher(t, stable - gone)
    BY <2>1, HigherInt
  <2>3. Higher(t, stable - gone) \in Nat
    BY <1>1, <2>1, <2>2
  <2> QED BY <1>1, <1>3, <2>3
<1>9. end' \in [Call -> Nat]
  <2>1. \A c \in Call : c \notin Beyond(s, t) /\ end[c] > t => end[c] - gone \in Nat
    BY <1>1, <1>4 DEF Beyond
  <2> QED BY <1>1, <1>3, <2>1
<1>10. torn' \subseteq Nat
  <2>1. torn' = torn \/ torn' = torn \ {s} \/ torn' = torn \cup {s}
    BY Zenon DEF CutSealed
  <2>2. torn \subseteq Nat
    BY Zenon DEF TypeOK
  <2>3. s \in Nat
    BY <1>1
  <2> QED BY ONLY <2>1, <2>2, <2>3
<1>11. soft' \subseteq Call
  BY DEF CutSealed, TypeOK
<1> QED BY <1>6, <1>7, <1>8, <1>9, <1>10, <1>11

(* No step of the log, a failure or a crash included, leaves its type.     *)
LEMMA TypeNext == TypeOK /\ Ordered /\ [Next]_vars => TypeOK'
<1> SUFFICES ASSUME TypeOK, Ordered, [Next]_vars PROVE TypeOK'
  OBVIOUS
<1> USE DiskQueueAssumption
<1>1. ASSUME NEW c \in Call, NEW n \in FrameSize, Append(c, n)
      PROVE  TypeOK'
  <2>1. n \in Nat \ {0}
    OBVIOUS
  <2>2. Write(c, n) \/ WriteFails(c, n)
    BY <1>1, Zenon DEF Append
  <2>3. /\ offset' \in Nat /\ end' \in [Call -> Nat] /\ dirty' \in BOOLEAN
        /\ call' \in [Call -> CallState]
        /\ latched' \in BOOLEAN /\ bufErr' \in BOOLEAN /\ syncLost' \in BOOLEAN
    BY <2>1, <2>2, WriteType
  <2> QED BY <1>1, <2>3, Zenon DEF Append, TypeOK
<1>2. ASSUME NEW c \in Call, NEW n \in FrameSize, AppendRoll(c, n)
      PROVE  TypeOK'
  <2>1. n \in Nat \ {0}
    OBVIOUS
  <2>2. Write(c, n) \/ WriteFails(c, n)
    BY <1>2, Zenon DEF AppendRoll
  <2>3. /\ offset' \in Nat /\ end' \in [Call -> Nat] /\ dirty' \in BOOLEAN
        /\ call' \in [Call -> CallState]
        /\ latched' \in BOOLEAN /\ bufErr' \in BOOLEAN /\ syncLost' \in BOOLEAN
    BY <2>1, <2>2, WriteType
  <2>4. PICK f \in first..active : \E g \in f..(active+1) : RollOK(f, cp.seg, g) /\ first' = g
    BY <1>2, Zenon DEF AppendRoll
  <2>g. PICK g \in f..(active+1) : RollOK(f, cp.seg, g) /\ first' = g
    BY <2>4, Zenon
  <2>5. f \in Nat /\ cp.seg \in Nat /\ g \in Nat
    BY DEF TypeOK, Position
  <2>6. /\ stable' \in Nat /\ synced' \in Nat
        /\ active' \in Nat /\ base' \in [0..active' -> Nat]
        /\ spare' \in BOOLEAN /\ dropped' \in Nat
    BY <2>g, <2>5, RollOKType
  <2> QED BY <1>2, <2>3, <2>g, <2>5, <2>6, Zenon DEF AppendRoll, TypeOK
<1>3. ASSUME NEW c \in Call, NEW n \in FrameSize, AppendRollFails(c, n)
      PROVE  TypeOK'
  <2>1. first' \in Nat
    BY <1>3 DEF AppendRollFails, TypeOK
  <2>2. call' \in [Call -> CallState]
    BY <1>3, SettleType DEF AppendRollFails, CallState
  <2>3. /\ latched' \in BOOLEAN /\ bufErr' \in BOOLEAN /\ syncLost' \in BOOLEAN
        /\ spare' \in BOOLEAN
    BY <1>3, RollFailsType, Zenon DEF AppendRollFails
  <2> QED BY <1>3, <2>1, <2>2, <2>3, Zenon DEF AppendRollFails, TypeOK
<1>4. ASSUME NEW c \in Call, NEW n \in FrameSize, AppendHighWater(c, n)
      PROVE  TypeOK'
  <2>1. first' \in Nat
    BY <1>4 DEF AppendHighWater, TypeOK
  <2>2. call' \in [Call -> CallState]
    BY <1>4, SettleType DEF AppendHighWater, CallState
  <2> QED BY <1>4, <2>1, <2>2, Zenon DEF AppendHighWater, TypeOK, health
<1>5. ASSUME NEW c \in Call, AppendRefused(c)
      PROVE  TypeOK'
  <2>1. call' \in [Call -> CallState]
    BY <1>5, SettleType DEF AppendRefused, CallState
  <2> QED BY <1>5, <2>1, Zenon DEF AppendRefused, TypeOK, files, health
<1>6. ASSUME NEW c \in Call, WaitCommit(c)
      PROVE  TypeOK'
  <2>1. call' \in [Call -> CallState]
    BY <1>6, SettleType DEF WaitCommit, CallState
  <2>2. signal' \subseteq Call
    BY <1>6 DEF WaitCommit, TypeOK
  <2> QED BY <1>6, <2>1, <2>2, Zenon DEF WaitCommit, TypeOK, files, health
<1>7. ASSUME NEW c \in Call, Signal(c)
      PROVE  TypeOK'
  <2>1. signal' \subseteq Call
    BY <1>7 DEF Signal, TypeOK
  <2> QED BY <1>7, <2>1, Zenon DEF Signal, TypeOK, files, health
<1>8. ASSUME NEW c \in Call, Checkpoint(c)
      PROVE  TypeOK'
  <2>1. PICK p \in LogicalToPos(end[c]) :
          /\ cp' = p /\ cpFile' = p
          /\ \E g \in first..active : GcTo(first, p.seg, g) /\ first' = g
    BY <1>8, Zenon DEF Checkpoint
  <2>2. p \in Position
    BY LogicalToPosType
  <2>3. first' \in Nat
    BY <2>1 DEF TypeOK
  <2>4. stable' \in Nat /\ synced' \in Nat
    BY <1>8, SyncOKType, Zenon DEF Checkpoint
  <2>5. done' \subseteq Call
    BY <1>8 DEF Checkpoint, CheckpointDue, Stored, TypeOK
  <2> QED BY <1>8, <2>1, <2>2, <2>3, <2>4, <2>5, Zenon DEF Checkpoint, TypeOK, health, group
<1>9. ASSUME NEW c \in Call, CheckpointReclaim(c)
      PROVE  TypeOK'
  <2>1. PICK p \in LogicalToPos(end[c]), f \in first..active, g \in first..(active+1) :
          /\ RollOK(f, p.seg, g)
          /\ LET head == [seg |-> active + 1, off |-> 0] IN
             \/ /\ cp' = head /\ cpFile' = head
                /\ \E h \in g..(active+1) : GcTo(g, active + 1, h) /\ first' = h
                /\ UNCHANGED latched
             \/ /\ "cpwrite" \in FaultKind /\ latched' = TRUE
                /\ cp' = p /\ cpFile' \in {p, head} /\ first' = g
    BY <1>9, Zenon DEF CheckpointReclaim
  <2>2. p \in Position /\ [seg |-> active + 1, off |-> 0] \in Position
    BY LogicalToPosType DEF TypeOK, Position
  <2>3. f \in Nat /\ g \in Nat /\ p.seg \in Nat
    BY <2>2 DEF TypeOK, Position
  <2>4. /\ stable' \in Nat /\ synced' \in Nat
        /\ active' \in Nat /\ base' \in [0..active' -> Nat]
        /\ spare' \in BOOLEAN /\ dropped' \in Nat
    BY <2>1, <2>3, RollOKType
  <2>5. cp' \in Position /\ cpFile' \in Position
    BY <2>1, <2>2
  <2>6. first' \in Nat
    BY <2>1, <2>3 DEF TypeOK
  <2>7. latched' \in BOOLEAN
    BY <2>1, Zenon DEF TypeOK
  <2>8. done' \subseteq Call
    BY <1>9 DEF CheckpointReclaim, CheckpointDue, Stored, TypeOK
  <2> QED BY <1>9, <2>4, <2>5, <2>6, <2>7, <2>8, Zenon DEF CheckpointReclaim, TypeOK, group
<1>10. ASSUME NEW c \in Call, CheckpointReclaimFails(c)
       PROVE  TypeOK'
  <2>1. PICK p \in LogicalToPos(end[c]) :
          /\ RollFails
          /\ cp' = p /\ cpFile' = p
          /\ \E g \in first..active : GcTo(first, p.seg, g) /\ first' = g
    BY <1>10, Zenon DEF CheckpointReclaimFails
  <2>2. p \in Position
    BY LogicalToPosType
  <2>3. first' \in Nat
    BY <2>1 DEF TypeOK
  <2>4. stable' \in Nat /\ synced' \in Nat
    BY <1>10, SyncOKType, Zenon DEF CheckpointReclaimFails
  <2>5. done' \subseteq Call
    BY <1>10 DEF CheckpointReclaimFails, CheckpointDue, Stored, TypeOK
  <2>6. /\ latched' \in BOOLEAN /\ bufErr' \in BOOLEAN /\ syncLost' \in BOOLEAN
        /\ spare' \in BOOLEAN
    BY <2>1, RollFailsType
  <2> QED BY <1>10, <2>1, <2>2, <2>3, <2>4, <2>5, <2>6, Zenon
          DEF CheckpointReclaimFails, TypeOK, group
<1>11. ASSUME NEW c \in Call, CheckpointFails(c)
       PROVE  TypeOK'
  <2>1. done' \subseteq Call
    BY <1>11 DEF CheckpointFails, CheckpointDue, Stored, TypeOK
  <2>2. CASE SyncFails /\ UNCHANGED <<stable, synced, cpFile>>
    <3>1. latched' \in BOOLEAN /\ bufErr' \in BOOLEAN /\ syncLost' \in BOOLEAN
      BY <2>2, SyncFailsType
    <3> QED BY <1>11, <2>1, <2>2, <3>1, Zenon DEF CheckpointFails, TypeOK, files, group
  <2>3. CASE /\ "cpwrite" \in FaultKind /\ SyncOK /\ latched' = TRUE
             /\ \E p \in LogicalToPos(end[c]) : cpFile' \in {cpFile, p}
             /\ UNCHANGED <<bufErr, syncLost>>
    <3>1. stable' \in Nat /\ synced' \in Nat
      BY <2>3, SyncOKType, Zenon
    <3>2. cpFile' \in Position
      BY <2>3, LogicalToPosType DEF TypeOK
    <3> QED BY <1>11, <2>1, <2>3, <3>1, <3>2, Zenon DEF CheckpointFails, TypeOK, files, group
  <2> QED BY <1>11, <2>2, <2>3, Zenon DEF CheckpointFails
<1>12. ASSUME NEW c \in Call, CrashInCheckpoint(c)
       PROVE  TypeOK'
  <2>1. PICK p \in LogicalToPos(end[c]) :
          /\ cpFile' = p /\ cp' = p
          /\ \/ first' \in first..Higher(first, p.seg) /\ UNCHANGED spare
             \/ /\ ReclaimDue(p) /\ spare' = TRUE
                /\ \E g \in first..active : GcTo(first, p.seg, g) /\ first' = g
    BY <1>12, Zenon DEF CrashInCheckpoint
  <2>2. p \in Position
    BY LogicalToPosType
  <2>3. first' \in Nat
    BY <2>1 DEF TypeOK
  <2>4. spare' \in BOOLEAN
    BY <2>1, Zenon DEF TypeOK
  <2>5. stable' \in Nat
    BY <1>12 DEF CrashInCheckpoint, TypeOK
  <2>6. done' \subseteq Call
    BY <1>12 DEF CrashInCheckpoint, CheckpointDue, Stored, TypeOK
  <2>7. Die(stable')
    BY <1>12, Zenon DEF CrashInCheckpoint
  <2>8. AfterDeath
    BY <2>5, <2>7, DieType
  <2> QED BY <1>12, <2>1, <2>2, <2>3, <2>4, <2>5, <2>6, <2>8, Zenon
          DEF CrashInCheckpoint, TypeOK, AfterDeath
<1>13. ASSUME CommitterWake
       PROVE  TypeOK'
  BY <1>13, Zenon DEF CommitterWake, TypeOK, files, health
<1>14. ASSUME SyncGroup
       PROVE  TypeOK'
  <2>1. call' \in [Call -> CallState]
    BY <1>14, ResolveType DEF SyncGroup
  <2>2. stable' \in Nat /\ synced' \in Nat
    BY <1>14, SyncOKType, Zenon DEF SyncGroup, TypeOK
  <2>3. latched' \in BOOLEAN /\ bufErr' \in BOOLEAN /\ syncLost' \in BOOLEAN
    BY <1>14, SyncFailsType, Zenon DEF SyncGroup, TypeOK, health
  <2>4. dirty' \in BOOLEAN
    BY <1>14, Zenon DEF SyncGroup, TypeOK
  <2> QED BY <1>14, <2>1, <2>2, <2>3, <2>4, Zenon DEF SyncGroup, TypeOK, files
<1>15. ASSUME CommitterStop
       PROVE  TypeOK'
  <2>1. call' \in [Call -> CallState]
    BY <1>15, ResolveType DEF CommitterStop
  <2> QED BY <1>15, <2>1, Zenon DEF CommitterStop, TypeOK, files, health
<1>16. ASSUME FsyncTick
       PROVE  TypeOK'
  <2>1. stable' \in Nat /\ synced' \in Nat
    BY <1>16, SyncOKType, Zenon DEF FsyncTick, TypeOK
  <2>2. latched' \in BOOLEAN /\ bufErr' \in BOOLEAN /\ syncLost' \in BOOLEAN
    BY <1>16, SyncFailsType, Zenon DEF FsyncTick, TypeOK, health
  <2>3. dirty' \in BOOLEAN
    BY <1>16, Zenon DEF FsyncTick, TypeOK
  <2> QED BY <1>16, <2>1, <2>2, <2>3, Zenon DEF FsyncTick, TypeOK, files, group
<1>17. ASSUME Close
       PROVE  TypeOK'
  <2>1. stable' \in Nat /\ synced' \in Nat
    BY <1>17, SyncOKType, Zenon DEF Close, TypeOK
  <2> QED BY <1>17, <2>1, Zenon DEF Close, TypeOK, files, health, group
<1>18. ASSUME Crash
       PROVE  TypeOK'
  <2>1. AfterDeath
    BY <1>18, DieType DEF Crash, TypeOK
  <2> QED BY <1>18, <2>1, Zenon DEF Crash, TypeOK, AfterDeath
<1>19. ASSUME CrashInRoll
       PROVE  TypeOK'
  <2>1. AfterDeath
    BY <1>19, DieType DEF CrashInRoll, TypeOK
  <2>2. first' \in Nat
    BY <1>19 DEF CrashInRoll, TypeOK
  <2> QED BY <1>19, <2>1, <2>2, Zenon DEF CrashInRoll, TypeOK, AfterDeath
<1>20. ASSUME Open
       PROVE  TypeOK'
  <2>1. /\ active' \in Nat /\ base' \in [0..active' -> Nat]
        /\ offset' \in Nat /\ stable' \in Nat
        /\ torn' \subseteq Nat /\ soft' \subseteq Call /\ spare' \in BOOLEAN
    BY <1>20, OpenFilesType
  <2>2. PICK start : Starts(start)
    BY <1>20, OpenStarts
  <2>3. first \in 0..active' /\ first \in Nat
    <3>1. active' \in {active, active + 1}
      BY <1>20, Zenon DEF Open
    <3>2. PICK g \in first..active' : TRUE
      BY <2>2, Zenon DEF Starts
    <3> QED BY <2>1, <3>1, <3>2 DEF TypeOK
  <2>4. start \in Position /\ start.seg \in 0..active' /\ start.off \in Nat
    BY <2>2, <2>3 DEF Starts, Valid, TypeOK, Position
  <2>5. first' \in Nat
    BY <2>2, <2>3 DEF Starts
  <2>6. synced' \in Nat
    <3>1. base'[start.seg] \in Nat
      BY <2>1, <2>4
    <3> QED BY <2>2, <2>4, <3>1 DEF Starts
  <2> QED BY <1>20, <2>1, <2>2, <2>4, <2>5, <2>6, Zenon DEF Open, Starts, TypeOK, health, group
<1>21. ASSUME Attach
       PROVE  TypeOK'
  BY <1>21, Zenon DEF Attach, TypeOK, files, health, group
<1>22. CASE UNCHANGED vars
  BY <1>22, Zenon DEF vars, TypeOK, files, health, group
<1>23. ASSUME NEW s \in first..(active-1), NEW t \in 0..offset, CutSealed(s, t)
       PROVE  TypeOK'
  <2>1. /\ base' \in [0..active -> Nat] /\ offset' \in Nat /\ stable' \in Nat
        /\ end' \in [Call -> Nat] /\ torn' \subseteq Nat /\ soft' \subseteq Call
    BY <1>23, CutSealedType
  <2>2. synced' \in Nat
    BY <1>23 DEF CutSealed
  <2> QED BY <1>23, <2>1, <2>2, Zenon DEF CutSealed, TypeOK, health, group
<1> QED
  BY <1>1, <1>2, <1>3, <1>4, <1>5, <1>6, <1>7, <1>8, <1>9, <1>10, <1>11, <1>12, <1>13,
     <1>14, <1>15, <1>16, <1>17, <1>18, <1>19, <1>20, <1>21, <1>22, <1>23, Zenon DEF Next

(* ... so that the frames a power loss leaves keep their order and their   *)
(* segments.                                                               *)
Cuts(s, t, gone) ==
  /\ s \in 0..active /\ s + 1 \in 0..active /\ gone \in Nat /\ t \in Nat
  /\ base[s] =< t /\ base[s+1] = t + gone
  /\ \A i \in 0..active : /\ base[i] \in Nat /\ base'[i] \in Nat
                          /\ i =< s => base[i] =< t /\ base'[i] = base[i]
                          /\ i > s  => t + gone =< base[i] /\ base'[i] = base[i] - gone
  /\ \A i, j \in 0..active : i =< j => base'[i] =< base'[j]
  /\ offset' = offset - gone
  /\ \A c \in Call : /\ end[c] \in Nat /\ end'[c] \in Nat
                     /\ \/ end'[c] = end[c] /\ end[c] =< t
                        \/ end'[c] = end[c] - gone /\ t + gone < end[c]
                        \/ end'[c] = 0 /\ c \in Beyond(s, t)

LEMMA CutMoves ==
  ASSUME TypeOK, TypeOK', Ordered, NEW s \in first..(active-1), NEW t \in 0..offset,
         CutSealed(s, t)
  PROVE  Cuts(s, t, base[s+1] - t)
<1> DEFINE gone == base[s+1] - t
<1>1. /\ s \in 0..active /\ s + 1 \in 0..active /\ t \in Nat /\ offset \in Nat
      /\ active \in Nat /\ \A i \in 0..active : base[i] \in Nat
      /\ \A c \in Call : end[c] \in Nat
  BY DEF TypeOK
<1>2. base[s] =< t /\ t < base[s+1]
  BY Zenon DEF CutSealed
<1>3. /\ base' = [i \in 0..active |-> IF i > s THEN base[i] - gone ELSE base[i]]
      /\ end' = [c \in Call |-> IF c \in Beyond(s, t) THEN 0
                                ELSE IF end[c] > t THEN end[c] - gone ELSE end[c]]
      /\ offset' = offset - gone /\ active' = active
  BY DEF CutSealed
<1>4. gone \in Nat /\ base[s+1] = t + gone
  BY <1>1, <1>2
<1> HIDE DEF gone
<1>5. ASSUME NEW i \in 0..active
      PROVE  /\ base'[i] \in Nat
             /\ i =< s => base[i] =< t /\ base'[i] = base[i]
             /\ i > s  => t + gone =< base[i] /\ base'[i] = base[i] - gone
  <2>1. base'[i] \in Nat
    BY <1>3 DEF TypeOK
  <2>2. CASE i =< s
    <3>1. base[i] =< base[s]
      BY <1>1, <2>2 DEF Ordered
    <3> QED BY <1>1, <1>2, <1>3, <2>1, <2>2, <3>1
  <2>3. CASE i > s
    <3>1. base[s+1] =< base[i]
      BY <1>1, <2>3 DEF Ordered
    <3> QED BY <1>1, <1>3, <1>4, <2>1, <2>3, <3>1
  <2> QED BY <1>1, <2>2, <2>3
<1>6. ASSUME NEW i \in 0..active, NEW j \in 0..active, i =< j
      PROVE  base'[i] =< base'[j]
  <2>1. base[i] =< base[j] /\ base[i] \in Nat /\ base[j] \in Nat
    BY <1>1, <1>6 DEF Ordered
  <2> QED BY <1>1, <1>4, <1>5, <1>6, <2>1
<1>7. ASSUME NEW c \in Call
      PROVE  /\ end'[c] \in Nat
             /\ \/ end'[c] = end[c] /\ end[c] =< t
                \/ end'[c] = end[c] - gone /\ t + gone < end[c]
                \/ end'[c] = 0 /\ c \in Beyond(s, t)
  <2>1. end'[c] \in Nat
    BY DEF TypeOK
  <2>2. c \notin Beyond(s, t) => end[c] =< t \/ t + gone < end[c]
    BY <1>1, <1>4 DEF Beyond
  <2> QED BY <1>1, <1>3, <1>4, <2>1, <2>2
<1> QED BY <1>1, <1>2, <1>3, <1>4, <1>5, <1>6, <1>7 DEF Cuts, gone

-----------------------------------------------------------------------------
(* Durability.                                                             *)

Reliable == ~Lossy /\ "sync" \notin FaultKind

-----------------------------------------------------------------------------
(* The inductive invariant.                                                *)

(* Segments follow one another, the active one ends at offset and has not  *)
(* outgrown the disk budget; every frame lies below the end.               *)
LogShape ==
  /\ first =< active
  /\ \A i, j \in 0..active : i =< j => base[i] =< base[j]
  /\ base[active] =< offset
  /\ ActiveSize =< MaxTotalBytes
  /\ \A c \in Call : end[c] =< offset

(* What the code believes synced is on disk.                               *)
SyncShape ==
  /\ ~syncLost
  /\ synced =< stable /\ stable =< offset
  /\ base[active] =< stable

(* A copy of the checkpoint names a place in the log, on disk, at the head *)
(* of its segment or at the end of a frame, and only stored frames lie     *)
(* below it.                                                               *)
Names(p) ==
  /\ p.seg \in first..active
  /\ base[p.seg] + p.off =< stable
  /\ p.seg < active => base[p.seg] + p.off =< base[p.seg + 1]
  /\ p.off = 0 \/ \E c \in Call : end[c] = base[p.seg] + p.off
  /\ \A c \in Call : 0 < end[c] /\ end[c] =< base[p.seg] + p.off => c \in done

CheckpointShape == Names(cp) /\ Names(cpFile) /\ cp.seg =< cpFile.seg

(* Frames are stored in order, and what a call's state says of its frame.  *)
CallShape ==
  /\ \A c, d \in Call : c \in done /\ 0 < end[d] /\ end[d] =< end[c] => d \in done
  /\ \A c \in Call :
       /\ call[c] = "idle" => end[c] = 0 /\ c \notin done
       /\ call[c] \in {"appended", "waiting"} => 0 < end[c] /\ proc # "down"
       /\ call[c] = "acked" /\ c \notin done => 0 < end[c] /\ end[c] =< stable
  /\ \A c \in soft : c \in done \/ call[c] \in {"failed", "refused"}

DurableInv == TypeOK /\ LogShape /\ SyncShape /\ CheckpointShape /\ CallShape

(* After a power loss has cut the segment the checkpoint file points into, *)
(* until the next open.  Of the checkpoint only this is left: what lies    *)
(* below the first segment is stored.                                      *)
Collected == \A c \in Call : 0 < end[c] /\ end[c] =< base[first] => c \in done

Sound == TypeOK /\ LogShape /\ SyncShape /\ CallShape /\ Collected

StrandedInv == Sound /\ proc = "down" /\ Stranded

LogInv == DurableInv \/ StrandedInv

LEMMA DurableSound == DurableInv => Sound
<1> SUFFICES ASSUME DurableInv PROVE Collected
  BY Zenon DEF DurableInv, Sound
<1>1. LogShape /\ TypeOK /\ Names(cpFile)
  BY Zenon DEF DurableInv, CheckpointShape
<1>2. /\ cpFile.seg \in first..active /\ cpFile.off \in Nat
      /\ first \in Nat /\ active \in Nat
      /\ \A i \in 0..active : base[i] \in Nat
      /\ \A c \in Call : end[c] \in Nat
  BY <1>1 DEF Names, TypeOK, Position
<1>3. base[first] =< base[cpFile.seg] + cpFile.off /\ base[first] \in Nat
  BY <1>1, <1>2 DEF LogShape
<1> QED BY <1>1, <1>2, <1>3 DEF Names, Collected

LEMMA LogSound == LogInv => Sound
BY DurableSound, Zenon DEF LogInv, StrandedInv

-----------------------------------------------------------------------------
(* Positions.                                                              *)

LEMMA MaxOfInterval ==
  ASSUME NEW m \in Nat, NEW n \in Nat, NEW S, S \subseteq m..n, S # {}
  PROVE  \E x \in S : \A y \in S : y =< x
<1> DEFINE T == {n - y : y \in S}
<1>1. T \subseteq Nat /\ T # {}
  <2>1. \A y \in S : n - y \in Nat
    OBVIOUS
  <2>2. T # {}
    <3>1. PICK y \in S : TRUE
      OBVIOUS
    <3>2. n - y \in T
      OBVIOUS
    <3> QED BY <3>2
  <2> QED BY <2>1, <2>2
<1>2. PICK t \in T : \A u \in T : ~(<<u, t>> \in OpToRel(<, Nat))
  BY <1>1, WFMin, NatLessThanWellFounded
<1>3. PICK x \in S : t = n - x
  OBVIOUS
<1> SUFFICES ASSUME NEW y \in S PROVE y =< x
  BY <1>3
<1>4. n - y \in Nat /\ n - x \in Nat /\ ~(<<n - y, n - x>> \in OpToRel(<, Nat))
  BY <1>1, <1>2, <1>3
<1>5. ~(n - y < n - x)
  BY <1>4 DEF OpToRel
<1>6. x \in Int /\ y \in Int
  OBVIOUS
<1> QED BY <1>5, <1>6

(* A target past the checkpoint is found in the log, at or after the       *)
(* checkpoint's own segment.                                               *)
At(p, c) ==
  /\ p.seg \in first..active /\ cp.seg =< p.seg
  /\ base[p.seg] + p.off = end[c]
  /\ p.seg < active => end[c] =< base[p.seg + 1]

LEMMA LogicalToPosFinds ==
  ASSUME TypeOK, LogShape, Names(cp), NEW c \in Call, end[c] > CpLogical,
         NEW p \in LogicalToPos(end[c])
  PROVE  At(p, c)
<1> DEFINE t == end[c]
<1>1. /\ first \in Nat /\ active \in Nat /\ t \in Nat /\ cp.seg \in first..active
      /\ cp.off \in Nat /\ \A i \in 0..active : base[i] \in Nat
  BY DEF TypeOK, Names, Position
<1>2. t > base[cp.seg]
  BY <1>1 DEF CpLogical, Logical
<1>3. \A i, j \in 0..active : i =< j => base[i] =< base[j]
  BY DEF LogShape
<1>4. {s \in first..active : PosSeg(t, s)} # {}
  <2>1. CASE t = base[active] /\ offset = base[active]
    <3>1. PosSeg(t, active) /\ active \in first..active
      BY <1>1, <2>1 DEF PosSeg
    <3> QED BY <3>1
  <2>2. CASE ~(t = base[active] /\ offset = base[active])
    <3> DEFINE S == {s \in first..active : base[s] < t}
    <3>1. S \subseteq first..active /\ cp.seg \in S
      BY <1>1, <1>2
    <3>2. PICK s \in S : \A y \in S : y =< s
      BY <1>1, <3>1, MaxOfInterval
    <3>3. \A j \in (s+1)..active : t =< base[j]
      BY <1>1, <3>2
    <3>4. PosSeg(t, s)
      BY <2>2, <3>3 DEF PosSeg
    <3> QED BY <3>4
  <2> QED BY <2>1, <2>2
<1>5. PICK s \in first..active : PosSeg(t, s) /\ p = [seg |-> s, off |-> t - base[s]]
  BY <1>4 DEF LogicalToPos
<1>6. p.seg = s /\ base[s] + p.off = t
  BY <1>1, <1>5
<1>7. cp.seg =< s
  BY <1>1, <1>2, <1>5 DEF PosSeg
<1>8. s < active => t =< base[s + 1]
  BY <1>1, <1>5 DEF PosSeg
<1> QED BY <1>1, <1>6, <1>7, <1>8 DEF At

LEMMA GcToWithin ==
  ASSUME NEW f \in Nat, NEW s \in Nat, f =< s, NEW g, GcTo(f, s, g)
  PROVE  g \in f..s
BY DEF GcTo, Higher

-----------------------------------------------------------------------------
(* A named position stays one while the table only grows at its end and    *)
(* the frames that come or go lie above what is on disk.                   *)
TableKept ==
  \/ active' = active /\ base' = base
  \/ active' = active + 1 /\ base' = NextBase

EndsKept ==
  \A c \in Call :
    \/ end'[c] = end[c]
    \/ end[c] = 0 /\ end'[c] > offset
    \/ end[c] > stable /\ end'[c] = 0

LEMMA BaseKept ==
  ASSUME TypeOK, TypeOK', TableKept
  PROVE  /\ active =< active'
         /\ \A i \in 0..active : base'[i] = base[i]
         /\ active' # active => base'[active + 1] = offset
BY SMTT(20) DEF TableKept, NextBase, TypeOK

LEMMA TableShapeKept ==
  ASSUME TypeOK, TypeOK', LogShape, TableKept, first' =< active',
         base'[active'] =< offset', offset' - base'[active'] =< MaxTotalBytes,
         \A c \in Call : end'[c] =< offset'
  PROVE  LogShape'
<1>1. \A i, j \in 0..active' : i =< j => base'[i] =< base'[j]
  <2>1. SUFFICES ASSUME NEW i \in 0..active', NEW j \in 0..active', i =< j
                 PROVE  base'[i] =< base'[j]
    OBVIOUS
  <2>2. /\ active \in Nat /\ active' \in Nat /\ offset \in Nat
        /\ \A k \in 0..active : base[k] \in Nat /\ base[k] =< base[active]
        /\ base[active] =< offset
    BY SMTT(20) DEF TypeOK, LogShape
  <2>3. CASE j \in 0..active
    BY <2>1, <2>2, <2>3, BaseKept DEF LogShape
  <2>4. CASE j = active + 1
    BY <2>1, <2>2, <2>4, BaseKept DEF TableKept
  <2> QED BY <2>2, <2>3, <2>4 DEF TableKept
<1> QED BY <1>1 DEF LogShape, ActiveSize

LEMMA NamesKept ==
  ASSUME TypeOK, TypeOK', LogShape, SyncShape, TableKept, EndsKept, done \subseteq done',
         NEW CONSTANT p \in Position, Names(p),
         first' =< p.seg, base[p.seg] + p.off =< stable'
  PROVE  Names(p)'
<1>1. /\ p.seg \in Nat /\ p.off \in Nat /\ first \in Nat /\ active \in Nat /\ first' \in Nat
      /\ active' \in Nat /\ offset \in Nat /\ stable \in Nat /\ stable' \in Nat
      /\ \A i \in 0..active : base[i] \in Nat
      /\ \A c \in Call : end[c] \in Nat /\ end'[c] \in Nat
  BY DEF TypeOK, Position
<1>2. p.seg \in first..active /\ base[p.seg] + p.off =< stable
  BY Zenon DEF Names
<1>3. base'[p.seg] = base[p.seg] /\ p.seg \in first'..active'
  BY <1>1, <1>2, BaseKept
<1>4. p.seg < active' => base[p.seg] + p.off =< base'[p.seg + 1]
  <2>1. CASE p.seg < active
    <3>1. base[p.seg] + p.off =< base[p.seg + 1]
      BY <2>1, Zenon DEF Names
    <3> QED BY <1>1, <1>2, <2>1, <3>1, BaseKept
  <2>2. CASE p.seg = active
    <3>1. stable =< offset
      BY DEF SyncShape
    <3> QED BY <1>1, <1>2, <2>2, <3>1, BaseKept
  <2> QED BY <1>1, <1>2, <2>1, <2>2
<1>5. p.off = 0 \/ \E c \in Call : end'[c] = base[p.seg] + p.off
  <2>1. SUFFICES ASSUME p.off # 0
                 PROVE  \E c \in Call : end'[c] = base[p.seg] + p.off
    OBVIOUS
  <2>2. PICK c \in Call : end[c] = base[p.seg] + p.off
    BY <2>1, Zenon DEF Names
  <2>3. end[c] > 0 /\ end[c] =< stable
    BY <1>1, <1>2, <2>1, <2>2
  <2>4. end'[c] = end[c]
    BY <1>1, <2>3 DEF EndsKept
  <2> QED BY <2>2, <2>4
<1>6. ASSUME NEW c \in Call, 0 < end'[c], end'[c] =< base[p.seg] + p.off
      PROVE  c \in done'
  <2>1. offset >= base[p.seg] + p.off
    BY <1>1, <1>2 DEF SyncShape
  <2>2. end'[c] = end[c]
    BY <1>1, <1>2, <1>6, <2>1 DEF EndsKept
  <2>3. c \in done
    BY <1>6, <2>2 DEF Names
  <2> QED BY <2>3
<1> QED BY <1>3, <1>4, <1>5, <1>6 DEF Names

(* ... and so for either copy of the checkpoint that a step leaves alone.  *)
LEMMA CpKept ==
  ASSUME TypeOK, TypeOK', LogShape, SyncShape, TableKept, EndsKept, done \subseteq done',
         cp' = cp, Names(cp), first' =< cp.seg, base[cp.seg] + cp.off =< stable'
  PROVE  Names(cp)'
<1>1. PICK p \in Position : p = cp
  BY DEF TypeOK
<1>2. Names(p)
  BY <1>1 DEF Names
<1>3. first' =< p.seg /\ base[p.seg] + p.off =< stable'
  BY <1>1
<1>4. Names(p)'
  BY <1>2, <1>3, NamesKept
<1> QED BY <1>1, <1>4, Zenon DEF Names

LEMMA CpFileKept ==
  ASSUME TypeOK, TypeOK', LogShape, SyncShape, TableKept, EndsKept, done \subseteq done',
         cpFile' = cpFile, Names(cpFile), first' =< cpFile.seg,
         base[cpFile.seg] + cpFile.off =< stable'
  PROVE  Names(cpFile)'
<1>1. PICK p \in Position : p = cpFile
  BY DEF TypeOK
<1>2. Names(p)
  BY <1>1 DEF Names
<1>3. first' =< p.seg /\ base[p.seg] + p.off =< stable'
  BY <1>1
<1>4. Names(p)'
  BY <1>2, <1>3, NamesKept
<1> QED BY <1>1, <1>4, Zenon DEF Names

-----------------------------------------------------------------------------
(* Steps that leave the log and the checkpoint where they are.             *)

Quiet ==
  /\ UNCHANGED <<active, base, offset, soft, end, done, cp, cpFile>>
  /\ first' \in first..cp.seg
  /\ ~syncLost'
  /\ \/ stable' = stable /\ synced' = synced
     \/ stable' = offset /\ synced' = offset
  /\ proc' = proc \/ proc' # "down"
  /\ \A c \in Call :
       \/ call'[c] = call[c]
       \/ call[c] # "acked" /\ call'[c] \in {"refused", "failed"}
       \/ call[c] = "appended" /\ call'[c] = "waiting"
       \/ call[c] \in {"appended", "waiting"} /\ call'[c] = "acked" /\ end[c] =< stable'

LEMMA QuietStep ==
  ASSUME DurableInv, TypeOK', Quiet
  PROVE  DurableInv'
<1> USE DEF DurableInv
<1>1. LogShape'
  <2>1. first' =< active'
    BY DEF Quiet, CheckpointShape, Names, TypeOK, Position
  <2>2. UNCHANGED <<active, base, offset, end>>
    BY Zenon DEF Quiet
  <2> QED BY <2>1, <2>2 DEF LogShape, ActiveSize
<1>2. SyncShape'
  BY DEF SyncShape, Quiet, TypeOK, LogShape
<1>3. UNCHANGED <<active, base, end, done, cp, cpFile>> /\ stable =< stable'
  BY DEF Quiet, SyncShape, TypeOK
<1>4. first' \in first..cp.seg
  BY Zenon DEF Quiet
<1>5. CheckpointShape'
  <2>1. TableKept /\ EndsKept /\ done \subseteq done'
    BY <1>3, Zenon DEF TableKept, EndsKept
  <2>2. Names(cp) /\ Names(cpFile) /\ cp.seg =< cpFile.seg
    BY Zenon DEF CheckpointShape
  <2>3. first' =< cp.seg /\ first' =< cpFile.seg
    BY <1>4, <2>2, SMTT(20) DEF TypeOK, Position
  <2>4. base[cp.seg] + cp.off =< stable' /\ base[cpFile.seg] + cpFile.off =< stable'
    <3>1. base[cp.seg] + cp.off =< stable /\ base[cpFile.seg] + cpFile.off =< stable
      BY <2>2, Zenon DEF Names
    <3>2. /\ cp \in Position /\ cpFile \in Position /\ base \in [0..active -> Nat]
          /\ cp.seg \in first..active /\ cpFile.seg \in first..active
          /\ first \in Nat /\ active \in Nat /\ stable \in Nat /\ stable' \in Nat
      BY <2>2, Zenon DEF Names, TypeOK
    <3>3. base[cp.seg] \in Nat /\ base[cpFile.seg] \in Nat /\ cp.off \in Nat /\ cpFile.off \in Nat
      BY <3>2 DEF Position
    <3> QED BY ONLY <1>3, <3>1, <3>2, <3>3, SMTT(20)
  <2>5. Names(cp)' /\ Names(cpFile)'
    BY <1>3, <2>1, <2>2, <2>3, <2>4, CpKept, CpFileKept, Zenon
  <2> QED BY <1>3, <2>2, <2>5, Zenon DEF CheckpointShape
<1>6. CallShape'
  <2>1. \A c, d \in Call : (c \in done /\ 0 < end[d] /\ end[d] =< end[c] => d \in done)'
    BY <1>3, Zenon DEF CallShape
  <2>s. ASSUME NEW c \in soft' PROVE c \in done' \/ call'[c] \in {"failed", "refused"}
    <3>1. c \in soft /\ c \in Call /\ done' = done
      BY <2>s DEF Quiet, TypeOK
    <3>2. c \in done \/ call[c] \in {"failed", "refused"}
      BY <3>1 DEF CallShape
    <3> QED BY <3>1, <3>2 DEF Quiet
  <2> SUFFICES ASSUME NEW c \in Call
               PROVE  /\ call'[c] = "idle" => end'[c] = 0 /\ c \notin done'
                      /\ call'[c] \in {"appended", "waiting"} => 0 < end'[c] /\ proc' # "down"
                      /\ call'[c] = "acked" /\ c \notin done' => 0 < end'[c] /\ end'[c] =< stable'
    BY <2>1, <2>s DEF CallShape
  <2>2. /\ call[c] = "idle" => end[c] = 0 /\ c \notin done
        /\ call[c] \in {"appended", "waiting"} => 0 < end[c] /\ proc # "down"
        /\ call[c] = "acked" /\ c \notin done => 0 < end[c] /\ end[c] =< stable
    BY DEF CallShape
  <2>3. \/ call'[c] = call[c]
        \/ call'[c] \in {"refused", "failed"}
        \/ call[c] = "appended" /\ call'[c] = "waiting"
        \/ call[c] \in {"appended", "waiting"} /\ call'[c] = "acked" /\ end[c] =< stable'
    BY Zenon DEF Quiet
  <2>4. proc' = proc \/ proc' # "down"
    BY Zenon DEF Quiet
  <2>5. end[c] \in Nat /\ stable \in Nat /\ stable' \in Nat
    BY DEF TypeOK
  <2> QED BY <1>3, <2>2, <2>3, <2>4, <2>5
<1> QED BY <1>1, <1>2, <1>5, <1>6, Zenon

LEMMA FirstKept == CheckpointShape /\ TypeOK => first \in first..cp.seg
BY DEF CheckpointShape, Names, TypeOK, Position

LEMMA BeforeRollWithin ==
  ASSUME Reliable, CheckpointShape, TypeOK, NEW f, BeforeRoll(f)
  PROVE  f \in first..cp.seg
<1>1. GcTo(first, cp.seg, f)
  BY Zenon DEF Reliable, BeforeRoll
<1> QED BY <1>1, GcToWithin DEF CheckpointShape, Names, TypeOK, Position

LEMMA SyncFailsReliable ==
  ASSUME Reliable, SyncFails
  PROVE  syncLost' = syncLost
BY Zenon DEF Reliable, SyncFails

LEMMA SyncOKReliable ==
  ASSUME SyncShape, SyncOK
  PROVE  stable' = offset /\ synced' = offset
BY Zenon DEF SyncShape, SyncOK

LEMMA RollFailsReliable ==
  ASSUME Reliable, RollFails
  PROVE  syncLost' = syncLost
BY SyncFailsReliable, Zenon DEF RollFails, health

LEMMA SettleOne ==
  ASSUME TypeOK, NEW c \in Call, NEW state, Settle(c, state), NEW d \in Call
  PROVE  call'[d] = IF d = c THEN state ELSE call[d]
BY DEF Settle, TypeOK

LEMMA ResolveOne ==
  ASSUME TypeOK, NEW good, Resolve(good), NEW d \in Call
  PROVE  call'[d] = IF call[d] # "waiting" THEN call[d]
                    ELSE IF d \in good THEN "acked" ELSE "failed"
BY DEF Resolve, Waiters, TypeOK

LEMMA AppendRollFailsQuiet ==
  ASSUME Reliable, DurableInv, NEW c \in Call, NEW n \in FrameSize, AppendRollFails(c, n)
  PROVE  Quiet
<1>1. first' \in first..cp.seg
  BY BeforeRollWithin, Zenon DEF AppendRollFails, DurableInv
<1>2. ~syncLost'
  BY RollFailsReliable, Zenon DEF AppendRollFails, DurableInv, SyncShape
<1>3. \A d \in Call : call'[d] = call[d] \/ (call[d] # "acked" /\ call'[d] = "refused")
  BY SettleOne DEF AppendRollFails, CanAppend, DurableInv
<1> QED BY <1>1, <1>2, <1>3, Zenon DEF AppendRollFails, Quiet

LEMMA AppendHighWaterQuiet ==
  ASSUME Reliable, DurableInv, NEW c \in Call, NEW n \in FrameSize, AppendHighWater(c, n)
  PROVE  Quiet
<1>1. first' \in first..cp.seg
  BY BeforeRollWithin, Zenon DEF AppendHighWater, DurableInv
<1>2. ~syncLost'
  BY Zenon DEF AppendHighWater, DurableInv, SyncShape, health
<1>3. \A d \in Call : call'[d] = call[d] \/ (call[d] # "acked" /\ call'[d] = "refused")
  BY SettleOne DEF AppendHighWater, CanAppend, DurableInv
<1> QED BY <1>1, <1>2, <1>3, Zenon DEF AppendHighWater, Quiet

LEMMA AppendRefusedQuiet ==
  ASSUME DurableInv, NEW c \in Call, AppendRefused(c)
  PROVE  Quiet
<1>1. \A d \in Call : call'[d] = call[d] \/ (call[d] # "acked" /\ call'[d] = "refused")
  BY SettleOne DEF AppendRefused, DurableInv
<1> QED BY <1>1, FirstKept, Zenon DEF AppendRefused, DurableInv, SyncShape, Quiet, files, health

(* The caller is answered because its frame is below synced, hence below   *)
(* stable.                                                                 *)
LEMMA WaitCommitQuiet ==
  ASSUME Reliable, DurableInv, NEW c \in Call, WaitCommit(c)
  PROVE  Quiet
<1>1. call[c] = "appended" /\ proc' = proc
  BY Zenon DEF WaitCommit
<1>2. \/ synced >= end[c] /\ Settle(c, "acked")
      \/ Settle(c, "failed")
      \/ Settle(c, "waiting")
  BY Zenon DEF WaitCommit, Reliable
<1>3. synced >= end[c] => end[c] =< stable
  BY DEF DurableInv, SyncShape, TypeOK
<1>4. UNCHANGED <<files, stable, cp, cpFile, synced, health, done>>
  BY Zenon DEF WaitCommit
<1>5. stable' = stable
  BY <1>4
<1>6. ASSUME NEW d \in Call
      PROVE  \/ call'[d] = call[d]
             \/ call[d] # "acked" /\ call'[d] \in {"refused", "failed"}
             \/ call[d] = "appended" /\ call'[d] = "waiting"
             \/ call[d] \in {"appended", "waiting"} /\ call'[d] = "acked" /\ end[d] =< stable'
  BY <1>1, <1>2, <1>3, <1>5, SettleOne DEF DurableInv
<1> QED BY <1>1, <1>4, <1>6, FirstKept, Zenon DEF DurableInv, SyncShape, Quiet, files, health

LEMMA CoveredDurable ==
  ASSUME DurableInv, NEW d \in Covered
  PROVE  end[d] =< stable
BY DEF Covered, Waiters, DurableInv, SyncShape, TypeOK

LEMMA SyncGroupQuiet ==
  ASSUME Reliable, DurableInv, TypeOK', SyncGroup
  PROVE  Quiet
<1>1. UNCHANGED <<proc, files, cp, cpFile, done>>
  BY Zenon DEF SyncGroup
<1>2. ~syncLost'
  BY SyncFailsReliable, Zenon DEF SyncGroup, DurableInv, SyncShape, health
<1>3. \/ stable' = stable /\ synced' = synced
      \/ stable' = offset /\ synced' = offset
  BY SyncOKReliable, Zenon DEF SyncGroup, DurableInv
<1>4. \/ Resolve({})
      \/ stable' = stable /\ (Resolve(Covered) \/ (Covered = Waiters /\ Resolve(Waiters)))
      \/ stable' = offset /\ Resolve(Waiters)
  BY SyncOKReliable, Zenon DEF SyncGroup, DurableInv
<1>5. ASSUME NEW d \in Call
      PROVE  \/ call'[d] = call[d]
             \/ call[d] # "acked" /\ call'[d] \in {"refused", "failed"}
             \/ call[d] = "appended" /\ call'[d] = "waiting"
             \/ call[d] \in {"appended", "waiting"} /\ call'[d] = "acked" /\ end[d] =< stable'
  <2>1. end[d] =< offset
    BY DEF DurableInv, LogShape
  <2>2. d \in Covered => end[d] =< stable
    BY CoveredDurable
  <2>3. CASE Resolve({})
    BY <2>3, ResolveOne DEF DurableInv
  <2>4. CASE stable' = stable /\ Resolve(Covered)
    BY <2>2, <2>4, ResolveOne DEF DurableInv
  <2>5. CASE stable' = stable /\ Covered = Waiters /\ Resolve(Waiters)
    BY <2>2, <2>5, ResolveOne DEF DurableInv
  <2>6. CASE stable' = offset /\ Resolve(Waiters)
    BY <2>1, <2>6, ResolveOne DEF DurableInv
  <2> QED BY <1>4, <2>3, <2>4, <2>5, <2>6
<1> QED BY <1>1, <1>2, <1>3, <1>5, FirstKept, Zenon DEF DurableInv, Quiet, files

LEMMA CommitterStopQuiet ==
  ASSUME Reliable, DurableInv, CommitterStop
  PROVE  Quiet
<1>1. UNCHANGED <<proc, files, stable, cp, cpFile, synced, health, done>> /\ Resolve(Covered)
  BY Zenon DEF CommitterStop
<1>2. ASSUME NEW d \in Call
      PROVE  \/ call'[d] = call[d]
             \/ call[d] # "acked" /\ call'[d] = "failed"
             \/ call[d] = "waiting" /\ call'[d] = "acked" /\ end[d] =< stable
  BY <1>1, ResolveOne, CoveredDurable DEF DurableInv
<1>3. stable' = stable
  BY <1>1
<1> QED BY <1>1, <1>2, <1>3, FirstKept, Zenon DEF DurableInv, SyncShape, Quiet, files, health

LEMMA FsyncTickQuiet ==
  ASSUME Reliable, DurableInv, FsyncTick
  PROVE  Quiet
<1>1. UNCHANGED <<proc, files, cp, cpFile, call, done>>
  BY Zenon DEF FsyncTick, group
<1>2. ~syncLost'
  BY SyncFailsReliable, Zenon DEF FsyncTick, DurableInv, SyncShape, health
<1>3. \/ stable' = stable /\ synced' = synced
      \/ stable' = offset /\ synced' = offset
  BY SyncOKReliable, Zenon DEF FsyncTick, DurableInv
<1> QED BY <1>1, <1>2, <1>3, FirstKept, Zenon DEF DurableInv, Quiet, files

LEMMA CloseQuiet ==
  ASSUME DurableInv, Close
  PROVE  Quiet
<1>1. UNCHANGED <<files, cp, cpFile, call, done, syncLost>> /\ proc' = "stopped"
  BY Zenon DEF Close, group, health
<1>2. \/ stable' = stable /\ synced' = synced
      \/ stable' = offset /\ synced' = offset
  BY SyncOKReliable, Zenon DEF Close, DurableInv
<1> QED BY <1>1, <1>2, FirstKept, Zenon DEF DurableInv, SyncShape, Quiet, files

LEMMA AttachQuiet ==
  ASSUME DurableInv, Attach
  PROVE  Quiet
<1>1. UNCHANGED <<files, stable, cp, cpFile, synced, call, done, syncLost>>
  BY Zenon DEF Attach, group, health
<1>2. proc' # "down"
  BY Zenon DEF Attach
<1> QED BY <1>1, <1>2, FirstKept, Zenon DEF DurableInv, SyncShape, Quiet, files

LEMMA IdleQuiet ==
  ASSUME DurableInv,
         \/ \E c \in Call : Signal(c)
         \/ CommitterWake
         \/ UNCHANGED vars
  PROVE  Quiet
<1>1. UNCHANGED <<proc, files, stable, cp, cpFile, synced, call, done, syncLost>>
  BY Zenon DEF Signal, CommitterWake, vars, group, health
<1> QED BY <1>1, FirstKept, Zenon DEF DurableInv, SyncShape, Quiet, files

-----------------------------------------------------------------------------
(* Appending.                                                              *)

(* The frame starts at the end of a log that has already been rolled.      *)
LEMMA WriteStep ==
  ASSUME Reliable, DurableInv, TypeOK', NEW c \in Call, call[c] = "idle", proc = "up",
         NEW n \in FrameSize, Write(c, n) \/ WriteFails(c, n),
         TableKept, first' \in first..cp.seg,
         offset' - base'[active'] =< MaxTotalBytes,
         \/ stable' = stable /\ synced' = synced /\ base'[active'] =< stable
         \/ stable' = offset /\ synced' = offset,
         base'[active'] =< offset,
         UNCHANGED <<proc, cp, cpFile, done, soft>>
  PROVE  DurableInv'
<1> USE DEF DurableInv
<1>n. n \in Nat \ {0}
  BY DiskQueueAssumption
<1>1. /\ first \in Nat /\ active \in Nat /\ first' \in Nat /\ active' \in Nat
      /\ offset \in Nat /\ offset' \in Nat /\ stable \in Nat /\ stable' \in Nat
      /\ synced \in Nat /\ cp.seg \in Nat /\ cp.off \in Nat
      /\ cpFile.seg \in Nat /\ cpFile.off \in Nat
      /\ \A i \in 0..active : base[i] \in Nat
      /\ \A i \in 0..active' : base'[i] \in Nat
      /\ \A d \in Call : end[d] \in Nat /\ end'[d] \in Nat
  BY DEF TypeOK, Position
<1>2. /\ end[c] = 0 /\ c \notin done
      /\ \A d \in Call : end[d] =< offset
      /\ synced =< stable /\ stable =< offset
  BY Zenon DEF CallShape, LogShape, SyncShape
<1>3. /\ offset =< offset'
      /\ \A d \in Call : d # c => end'[d] = end[d] /\ call'[d] = call[d]
      /\ \/ end'[c] = offset' /\ offset' > offset /\ call'[c] = "appended"
         \/ end'[c] = end[c] /\ call'[c] = "refused"
  <2>1. CASE Write(c, n)
    <3>1. /\ offset' = offset + n
          /\ end' = [end EXCEPT ![c] = offset + n]
          /\ Settle(c, "appended")
      BY <2>1, Zenon DEF Write
    <3>2. \A d \in Call : end'[d] = IF d = c THEN offset + n ELSE end[d]
      BY <3>1 DEF TypeOK
    <3>3. \A d \in Call : call'[d] = IF d = c THEN "appended" ELSE call[d]
      BY <3>1, SettleOne
    <3> QED BY <1>n, <1>1, <3>1, <3>2, <3>3
  <2>2. CASE WriteFails(c, n)
    <3>1. PICK k \in 0..(n-1) : offset' = offset + k
      BY <2>2, Zenon DEF WriteFails
    <3>2. end' = end /\ Settle(c, "refused")
      BY <2>2, Zenon DEF WriteFails
    <3>3. \A d \in Call : call'[d] = IF d = c THEN "refused" ELSE call[d]
      BY <3>2, SettleOne
    <3> QED BY <1>n, <1>1, <3>1, <3>2, <3>3
  <2> QED BY <2>1, <2>2
<1>4. EndsKept
  BY <1>1, <1>2, <1>3 DEF EndsKept
<1>5. LogShape'
  <2>1. first' =< active'
    BY <1>1, BaseKept DEF CheckpointShape, Names
  <2>2. \A d \in Call : end'[d] =< offset'
    BY <1>1, <1>2, <1>3
  <2>3. base'[active'] =< offset'
    BY <1>1, <1>3
  <2> QED BY <2>1, <2>2, <2>3, TableShapeKept
<1>6. SyncShape'
  <2>1. ~syncLost'
    BY Zenon DEF SyncShape, Write, WriteFails, health
  <2> QED BY <1>1, <1>2, <1>3, <2>1 DEF SyncShape
<1>7. CheckpointShape'
  <2>1. Names(cp) /\ Names(cpFile) /\ cp.seg =< cpFile.seg
    BY Zenon DEF CheckpointShape
  <2>2. first' =< cp.seg /\ first' =< cpFile.seg
    BY <1>1, <2>1
  <2>3. base[cp.seg] + cp.off =< stable' /\ base[cpFile.seg] + cpFile.off =< stable'
    BY <1>1, <1>2, <2>1 DEF Names
  <2>4. Names(cp)' /\ Names(cpFile)'
    BY <1>4, <2>1, <2>2, <2>3, CpKept, CpFileKept
  <2> QED BY <2>1, <2>4 DEF CheckpointShape
<1>8. CallShape'
  <2>1. ASSUME NEW d \in Call, NEW e \in Call, d \in done', 0 < end'[e], end'[e] =< end'[d]
        PROVE  e \in done'
    BY <1>1, <1>2, <1>3, <2>1 DEF CallShape
  <2>2. ASSUME NEW d \in Call
        PROVE  /\ call'[d] = "idle" => end'[d] = 0 /\ d \notin done'
               /\ call'[d] \in {"appended", "waiting"} => 0 < end'[d] /\ proc' # "down"
               /\ call'[d] = "acked" /\ d \notin done' => 0 < end'[d] /\ end'[d] =< stable'
    <3>1. CASE d = c
      BY <1>1, <1>3, <3>1
    <3>2. CASE d # c
      BY <1>1, <1>2, <1>3, <3>2 DEF CallShape
    <3> QED BY <3>1, <3>2
  <2>3. ASSUME NEW d \in soft' PROVE d \in done' \/ call'[d] \in {"failed", "refused"}
    <3>1. d \in soft /\ d \in Call /\ done' = done
      BY <2>3 DEF TypeOK
    <3>2. d \in done \/ call[d] \in {"failed", "refused"}
      BY <3>1 DEF CallShape
    <3> QED BY <1>3, <3>1, <3>2
  <2> QED BY <2>1, <2>2, <2>3 DEF CallShape
<1> QED BY <1>5, <1>6, <1>7, <1>8

LEMMA AppendStep ==
  ASSUME Reliable, DurableInv, TypeOK', NEW c \in Call, NEW n \in FrameSize, Append(c, n)
  PROVE  DurableInv'
<1> USE DEF DurableInv
<1>1. /\ call[c] = "idle" /\ proc = "up" /\ ~RollDue(n)
      /\ Write(c, n) \/ WriteFails(c, n)
      /\ UNCHANGED <<proc, first, active, base, soft, stable, cp, cpFile, synced, done>>
  BY Zenon DEF Append, CanAppend
<1>2. n \in Nat \ {0} /\ n =< MaxTotalBytes /\ MaxBytes =< MaxTotalBytes
      /\ MaxTotalBytes \in Nat /\ MaxBytes \in Nat
  BY DiskQueueAssumption
<1>3. base[active] \in Nat /\ offset \in Nat /\ base[active] =< offset /\ base[active] =< stable
  BY DEF TypeOK, LogShape, SyncShape
<1>4. offset' \in Nat /\ offset' =< offset + n
  BY <1>1, <1>2, <1>3 DEF Write, WriteFails, TypeOK
<1>5. offset' - base[active] =< MaxTotalBytes
  BY <1>1, <1>2, <1>3, <1>4 DEF RollDue, ActiveSize
<1>6. TableKept
  BY <1>1, Zenon DEF TableKept
<1>7. first' \in first..cp.seg
  BY <1>1, FirstKept
<1>8. offset' - base'[active'] =< MaxTotalBytes /\ base'[active'] =< stable /\ base'[active'] =< offset
  BY <1>1, <1>3, <1>5
<1> QED BY <1>1, <1>6, <1>7, <1>8, WriteStep

(* The roll's own cap deletes nothing: the budget check came first.        *)
LEMMA AppendRollStep ==
  ASSUME Reliable, DurableInv, TypeOK', NEW c \in Call, NEW n \in FrameSize, AppendRoll(c, n)
  PROVE  DurableInv'
<1> USE DEF DurableInv
<1>1. /\ call[c] = "idle" /\ proc = "up"
      /\ Write(c, n) \/ WriteFails(c, n)
      /\ UNCHANGED <<proc, cp, cpFile, done, soft>>
  BY Zenon DEF AppendRoll, CanAppend
<1>2. PICK f \in first..active :
        /\ BeforeRoll(f) /\ ~OverBudget(f, n)
        /\ \E g \in f..(active+1) : RollOK(f, cp.seg, g) /\ first' = g
  BY Zenon DEF AppendRoll
<1>3. PICK g \in f..(active+1) : RollOK(f, cp.seg, g) /\ first' = g
  BY <1>2, Zenon
<1>4. f \in first..cp.seg
  BY <1>2, BeforeRollWithin
<1>5. n \in Nat \ {0} /\ n =< MaxTotalBytes /\ MaxTotalBytes \in Nat
  BY DiskQueueAssumption
<1>6. SyncOK /\ active' = active + 1 /\ base' = NextBase /\ CapTo(f, g)
  BY <1>3, Zenon DEF RollOK
<1>7. /\ first \in Nat /\ active \in Nat /\ offset \in Nat /\ cp.seg \in Nat
      /\ cp.seg =< active /\ \A i \in 0..active : base[i] \in Nat
  <2>1. cp.seg \in first..active
    BY Zenon DEF CheckpointShape, Names
  <2> QED BY <2>1, SMTT(20) DEF TypeOK
<1>8. ~(offset - base[f] > MaxTotalBytes)
  <2>1. ~(offset - base[f] + n > MaxTotalBytes)
    BY <1>2, Zenon DEF OverBudget, Reliable
  <2>2. base[f] \in Nat
    BY <1>4, <1>7
  <2> QED BY <1>5, <1>7, <2>1, <2>2
<1>9. g = f
  <2>1. SUFFICES ASSUME f < g PROVE FALSE
    BY <1>4, <1>7
  <2>2. offset - NextBase[f] > MaxTotalBytes
    BY <1>4, <1>6, <1>7, <2>1 DEF CapTo
  <2>3. NextBase[f] = base[f]
    BY <1>4, <1>7 DEF NextBase
  <2> QED BY <1>8, <2>2, <2>3
<1>10. first' \in first..cp.seg
  BY <1>3, <1>4, <1>9
<1>11. stable' = offset /\ synced' = offset
  BY <1>6, SyncOKReliable
<1>12. base'[active'] = offset
  BY <1>6, <1>7 DEF NextBase
<1>13. offset' \in Nat /\ offset' =< offset + n
  BY <1>1, <1>5, <1>7 DEF Write, WriteFails, TypeOK
<1>14. offset' - base'[active'] =< MaxTotalBytes /\ base'[active'] =< offset
  <2>1. PICK o \in Nat : o = offset
    BY <1>7
  <2>2. base'[active'] = o /\ offset' =< o + n
    BY <1>12, <1>13, <2>1
  <2>3. PICK e \in Nat : e = offset'
    BY <1>13
  <2>4. e =< o + n
    BY <2>2, <2>3
  <2>5. e - o =< MaxTotalBytes
    BY <1>5, <2>4
  <2> QED BY <2>1, <2>2, <2>3, <2>5
<1>15. TableKept
  BY <1>6, Zenon DEF TableKept
<1> QED BY <1>1, <1>10, <1>11, <1>14, <1>15, WriteStep

-----------------------------------------------------------------------------
(* Checkpoints.                                                            *)

Stores(c) == done' = done \cup Stored(c) /\ end' = end /\ soft' = soft

LEMMA StoresCallShape ==
  ASSUME TypeOK, TypeOK', CallShape, NEW c \in Call, Stores(c), stable =< stable',
         \/ UNCHANGED <<call, proc>>
         \/ \A d \in Call : call'[d] = IF call[d] \in {"appended", "waiting"} THEN "failed"
                                       ELSE call[d]
  PROVE  CallShape'
<1>1. /\ \A d \in Call : end[d] \in Nat
      /\ end' = end /\ \A d \in Call : d \in done' <=> d \in done \/ (0 < end[d] /\ end[d] =< end[c])
      /\ stable \in Nat /\ stable' \in Nat
  BY DEF Stores, Stored, TypeOK
<1>2. ASSUME NEW d \in Call, NEW e \in Call, d \in done', 0 < end'[e], end'[e] =< end'[d]
      PROVE  e \in done'
  BY <1>1, <1>2 DEF CallShape
<1>3. ASSUME NEW d \in Call
      PROVE  /\ call'[d] = "idle" => end'[d] = 0 /\ d \notin done'
             /\ call'[d] \in {"appended", "waiting"} => 0 < end'[d] /\ proc' # "down"
             /\ call'[d] = "acked" /\ d \notin done' => 0 < end'[d] /\ end'[d] =< stable'
  <2>1. /\ call[d] = "idle" => end[d] = 0 /\ d \notin done
        /\ call[d] \in {"appended", "waiting"} => 0 < end[d] /\ proc # "down"
        /\ call[d] = "acked" /\ d \notin done => 0 < end[d] /\ end[d] =< stable
    BY DEF CallShape
  <2>2. CASE UNCHANGED <<call, proc>>
    BY <1>1, <2>1, <2>2
  <2>3. CASE \A e \in Call : call'[e] = IF call[e] \in {"appended", "waiting"} THEN "failed"
                                       ELSE call[e]
    BY <1>1, <2>1, <2>3
  <2> QED BY <2>2, <2>3
<1>4. ASSUME NEW d \in soft' PROVE d \in done' \/ call'[d] \in {"failed", "refused"}
  <2>1. d \in soft /\ d \in Call
    BY <1>4 DEF Stores, TypeOK
  <2>2. d \in done \/ call[d] \in {"failed", "refused"}
    BY <2>1 DEF CallShape
  <2> QED BY <1>1, <2>1, <2>2
<1> QED BY <1>2, <1>3, <1>4 DEF CallShape

LEMMA StoredNamed ==
  ASSUME TypeOK, TypeOK', LogShape, TableKept, NEW c \in Call, Stores(c),
         NEW CONSTANT p \in Position, At(p, c), first' =< p.seg, stable' = offset
  PROVE  Names(p)'
<1>1. /\ p.seg \in Nat /\ p.off \in Nat /\ first \in Nat /\ active \in Nat /\ first' \in Nat
      /\ active' \in Nat /\ offset \in Nat
      /\ \A i \in 0..active : base[i] \in Nat
      /\ \A d \in Call : end[d] \in Nat
  BY DEF TypeOK, Position
<1>2. /\ p.seg \in first..active /\ base[p.seg] + p.off = end[c]
      /\ p.seg < active => end[c] =< base[p.seg + 1]
      /\ end[c] =< offset
  BY Zenon DEF At, LogShape
<1>3. base'[p.seg] = base[p.seg] /\ p.seg \in first'..active'
  BY <1>1, <1>2, BaseKept
<1>4. p.seg < active' => base[p.seg] + p.off =< base'[p.seg + 1]
  <2>1. CASE p.seg < active
    BY <1>1, <1>2, <2>1, BaseKept
  <2>2. CASE p.seg = active
    BY <1>1, <1>2, <2>2, BaseKept
  <2> QED BY <1>1, <1>2, <2>1, <2>2
<1>5. end' = end /\ \A d \in Call : 0 < end[d] /\ end[d] =< end[c] => d \in done'
  BY DEF Stores, Stored
<1> QED BY <1>1, <1>2, <1>3, <1>4, <1>5 DEF Names

LEMMA CheckpointAt ==
  ASSUME DurableInv, NEW c \in Call, CheckpointDue(c), NEW p \in LogicalToPos(end[c])
  PROVE  p \in Position /\ At(p, c)
BY LogicalToPosType, LogicalToPosFinds DEF DurableInv, CheckpointDue, CheckpointShape

(* The log and its bookkeeping after the fsync that precedes a checkpoint. *)
LEMMA SyncedShape ==
  ASSUME DurableInv, TypeOK', ~syncLost', TableKept, offset' = offset,
         \/ stable' = offset /\ synced' = offset
         \/ stable' = stable /\ synced' = synced /\ base' = base /\ active' = active,
         first' =< active', end' = end
  PROVE  LogShape' /\ SyncShape' /\ stable =< stable'
<1>1. /\ active \in Nat /\ offset \in Nat /\ stable \in Nat /\ MaxTotalBytes \in Nat
      /\ base[active] \in Nat /\ synced \in Nat
  BY DiskQueueAssumption DEF DurableInv, TypeOK
<1>2. /\ base[active] =< stable /\ stable =< offset /\ base[active] =< offset
      /\ synced =< stable
      /\ offset - base[active] =< MaxTotalBytes /\ \A c \in Call : end[c] =< offset
  BY Zenon DEF DurableInv, LogShape, SyncShape, ActiveSize
<1>3. /\ base'[active'] \in {base[active], offset}
      /\ base' = base /\ active' = active => base'[active'] = base[active]
  BY <1>1, BaseKept DEF TableKept, NextBase, DurableInv
<1>4. PICK o \in Nat : o = offset
  BY <1>1
<1>5. o - base'[active'] =< MaxTotalBytes
  BY <1>1, <1>2, <1>3, <1>4
<1>6. LogShape'
  BY <1>1, <1>2, <1>3, <1>4, <1>5, TableShapeKept DEF DurableInv
<1>7. SyncShape' /\ stable =< stable'
  BY <1>1, <1>2, <1>3 DEF SyncShape
<1> QED BY <1>6, <1>7

LEMMA CheckpointStep ==
  ASSUME Reliable, DurableInv, TypeOK', NEW c \in Call,
         Checkpoint(c) \/ CheckpointReclaimFails(c)
  PROVE  DurableInv'
<1>1. /\ CheckpointDue(c) /\ SyncOK
      /\ UNCHANGED <<proc, active, base, offset, end, call>>
      /\ Stores(c)
  BY Zenon DEF Checkpoint, CheckpointReclaimFails, CheckpointDue, Stores, group
<1>2. ~syncLost'
  BY RollFailsReliable, Zenon
     DEF Checkpoint, CheckpointReclaimFails, DurableInv, SyncShape, health
<1>3. PICK p \in LogicalToPos(end[c]) :
        /\ cp' = p /\ cpFile' = p
        /\ \E g \in first..active : GcTo(first, p.seg, g) /\ first' = g
  BY Zenon DEF Checkpoint, CheckpointReclaimFails
<1>4. p \in Position /\ At(p, c)
  BY <1>1, CheckpointAt
<1>5. first' \in first..p.seg
  <2>1. p.seg \in first..active /\ p.seg \in Nat /\ first \in Nat /\ active \in Nat
    BY <1>4 DEF At, DurableInv, TypeOK, Position
  <2>2. GcTo(first, p.seg, first')
    BY <1>3, Zenon
  <2> QED BY <2>1, <2>2, GcToWithin
<1>6. stable' = offset /\ synced' = offset
  BY <1>1, SyncOKReliable DEF DurableInv
<1>7. TableKept
  BY <1>1, Zenon DEF TableKept
<1>8. first' =< active' /\ first' =< p.seg
  BY <1>1, <1>4, <1>5, SMTT(20) DEF At, DurableInv, TypeOK, Position
<1>9. LogShape' /\ SyncShape' /\ stable =< stable'
  BY <1>1, <1>2, <1>6, <1>7, <1>8, SyncedShape
<1>10. Names(p)'
  BY <1>1, <1>4, <1>6, <1>7, <1>8, StoredNamed DEF DurableInv
<1>11. CheckpointShape'
  <2>1. Names(cp)'
    BY <1>3, <1>10, Zenon DEF Names
  <2>2. Names(cpFile)'
    BY <1>3, <1>10, Zenon DEF Names
  <2>3. cp'.seg =< cpFile'.seg
    BY <1>3, <1>4 DEF Position
  <2> QED BY <2>1, <2>2, <2>3 DEF CheckpointShape
<1>12. CallShape'
  BY <1>1, <1>9, StoresCallShape DEF DurableInv
<1> QED BY <1>9, <1>11, <1>12 DEF DurableInv

LEMMA CheckpointFailsStep ==
  ASSUME Reliable, DurableInv, TypeOK', NEW c \in Call, CheckpointFails(c)
  PROVE  DurableInv'
<1>1. /\ CheckpointDue(c) /\ Stores(c)
      /\ UNCHANGED <<proc, files, cp, call>>
  BY Zenon DEF CheckpointFails, CheckpointDue, Stores, group, files
<1>2. UNCHANGED <<first, active, base, offset, end>>
  BY <1>1, Zenon DEF files
<1>3. TableKept /\ EndsKept /\ done \subseteq done'
  BY <1>1, <1>2 DEF TableKept, EndsKept, Stores
<1>4. /\ Names(cp) /\ Names(cpFile) /\ cp.seg =< cpFile.seg
      /\ LogShape /\ SyncShape /\ TypeOK /\ CallShape
  BY Zenon DEF DurableInv, CheckpointShape
<1>5. /\ first' =< active' /\ first' =< cp.seg /\ first' =< cpFile.seg
  BY <1>2, <1>4 DEF Names, TypeOK, Position
<1>6. ~syncLost'
  BY <1>4, SyncFailsReliable, Zenon DEF CheckpointFails, SyncShape
<1>7. \/ stable' = offset /\ synced' = offset
      \/ stable' = stable /\ synced' = synced /\ cpFile' = cpFile
  BY <1>4, SyncOKReliable, Zenon DEF CheckpointFails
<1>8. LogShape' /\ SyncShape' /\ stable =< stable'
  BY <1>1, <1>2, <1>3, <1>5, <1>6, <1>7, SyncedShape
<1>9. base[cp.seg] + cp.off =< stable' /\ base[cpFile.seg] + cpFile.off =< stable'
  <2>1. base[cp.seg] + cp.off =< stable /\ base[cpFile.seg] + cpFile.off =< stable
        /\ cp.seg \in first..active /\ cpFile.seg \in first..active
    BY <1>4, Zenon DEF Names
  <2>2. /\ base[cp.seg] \in Nat /\ base[cpFile.seg] \in Nat /\ cp.off \in Nat
        /\ cpFile.off \in Nat /\ stable \in Nat /\ stable' \in Nat
    <3>1. stable \in Nat /\ stable' \in Nat
      BY <1>4 DEF TypeOK
    <3>2. cp.off \in Nat /\ cpFile.off \in Nat
      BY <1>4 DEF TypeOK, Position
    <3>3. /\ first \in Nat /\ active \in Nat
          /\ \A i \in 0..active : base[i] \in Nat
      BY <1>4 DEF TypeOK
    <3> QED BY <2>1, <3>1, <3>2, <3>3
  <2> QED BY <1>8, <2>1, <2>2
<1>10. Names(cp)'
  BY <1>1, <1>3, <1>4, <1>5, <1>9, CpKept
<1>11. Names(cpFile)' /\ cp.seg =< cpFile'.seg
  <2>1. CASE cpFile' = cpFile
    BY <1>3, <1>4, <1>5, <1>9, <2>1, CpFileKept
  <2>2. CASE cpFile' # cpFile
    <3>1. PICK p \in LogicalToPos(end[c]) : cpFile' = p
      BY <2>2, Zenon DEF CheckpointFails
    <3>2. p \in Position /\ At(p, c)
      BY <1>1, CheckpointAt
    <3>3. stable' = offset
      BY <1>7, <2>2
    <3>4. first' =< p.seg
      BY <1>2, <3>2 DEF At
    <3>5. Names(p)'
      BY <1>1, <1>3, <1>4, <3>2, <3>3, <3>4, StoredNamed
    <3> QED BY <3>1, <3>2, <3>5, Zenon DEF Names, At
  <2> QED BY <2>1, <2>2
<1>12. CheckpointShape'
  BY <1>1, <1>10, <1>11, Zenon DEF CheckpointShape
<1>13. CallShape'
  BY <1>1, <1>4, <1>8, StoresCallShape
<1> QED BY <1>8, <1>12, <1>13 DEF DurableInv

(* A reclaiming roll happens when everything in the log is stored, so the  *)
(* head of the new segment is as good a checkpoint as the end of the old.  *)
LEMMA CheckpointReclaimStep ==
  ASSUME Reliable, DurableInv, TypeOK', NEW c \in Call, CheckpointReclaim(c)
  PROVE  DurableInv'
<1> DEFINE head == [seg |-> active + 1, off |-> 0]
<1>1. /\ CheckpointDue(c) /\ Stores(c)
      /\ UNCHANGED <<proc, offset, end, call, syncLost>>
  BY Zenon DEF CheckpointReclaim, CheckpointDue, Stores, group
<1>2. PICK p \in LogicalToPos(end[c]), f \in first..active, g \in first..(active+1) :
        /\ ReclaimDue(p) /\ GcTo(first, p.seg, f)
        /\ RollOK(f, p.seg, g)
        /\ \/ /\ cp' = head /\ cpFile' = head
              /\ \E h \in g..(active+1) : GcTo(g, active + 1, h) /\ first' = h
           \/ cp' = p /\ cpFile' \in {p, head} /\ first' = g
  BY Zenon DEF CheckpointReclaim
<1>3. p \in Position /\ At(p, c)
  BY <1>1, CheckpointAt
<1>4. /\ LogShape /\ SyncShape /\ TypeOK /\ CallShape
  BY Zenon DEF DurableInv
<1>5. /\ active \in Nat /\ first \in Nat /\ offset \in Nat /\ base[active] \in Nat
      /\ MaxTotalBytes \in Nat /\ base[active] =< offset /\ first =< active
      /\ active' \in Nat /\ first' \in Nat
  BY <1>4, DiskQueueAssumption DEF TypeOK, LogShape
<1>6. /\ SyncOK /\ active' = active + 1 /\ base' = NextBase /\ CapTo(f, g)
      /\ p.seg = active /\ p.off >= ActiveSize
  BY <1>2, Zenon DEF RollOK, ReclaimDue
<1>7. stable' = offset /\ synced' = offset
  BY <1>4, <1>6, SyncOKReliable
<1>8. base'[active'] = offset
  BY <1>5, <1>6 DEF NextBase
<1>9. end[c] >= offset
  BY <1>3, <1>5, <1>6 DEF At, ActiveSize, Position
<1>10. g =< active
  <2>1. SUFFICES ASSUME g = active + 1 PROVE FALSE
    BY <1>5
  <2>2. offset - NextBase[active] > MaxTotalBytes
    BY <1>5, <1>6, <2>1 DEF CapTo
  <2>3. NextBase[active] = base[active]
    BY <1>5 DEF NextBase
  <2>4. offset - base[active] =< MaxTotalBytes
    BY <1>4 DEF LogShape, ActiveSize
  <2> QED BY <1>5, <2>2, <2>3, <2>4
<1>11. first' =< active' /\ (first' =< active \/ (cp' = head /\ cpFile' = head))
  BY <1>2, <1>5, <1>6, <1>10
<1>12. TableKept
  BY <1>6, Zenon DEF TableKept
<1>13. LogShape' /\ SyncShape' /\ stable =< stable'
  <2>1. ~syncLost'
    BY <1>1, <1>4, Zenon DEF SyncShape
  <2>2. offset' = offset /\ end' = end
    BY <1>1
  <2> QED BY <1>7, <1>11, <1>12, <2>1, <2>2, SyncedShape
<1>14. \A d \in Call : 0 < end'[d] => d \in done'
  <2>1. \A d \in Call : end[d] \in Nat /\ end[d] =< offset
    BY <1>4 DEF TypeOK, LogShape
  <2> QED BY <1>1, <1>5, <1>9, <2>1 DEF Stores, Stored
<1>15. CheckpointShape'
  <2>1. ASSUME NEW q, q = head PROVE Names(q)'
    <3>1. q.seg = active' /\ q.off = 0
      BY <1>6, <2>1
    <3>2. q.seg \in first'..active'
      BY <1>5, <1>11, <3>1
    <3> QED BY <1>5, <1>7, <1>8, <1>14, <3>1, <3>2 DEF Names
  <2>2. first' =< active => Names(p)'
    BY <1>1, <1>3, <1>4, <1>6, <1>7, <1>12, StoredNamed
  <2>3. PICK q : q = head
    OBVIOUS
  <2>4. Names(q)' /\ q.seg = active + 1
    BY <2>1, <2>3
  <2>5. (cp' = q \/ (cp' = p /\ first' =< active)) /\ (cpFile' = q \/ (cpFile' = p /\ first' =< active))
    BY <1>2, <1>5, <1>10, <2>3
  <2>6. Names(cp)'
    BY <2>2, <2>4, <2>5, Zenon DEF Names
  <2>7. Names(cpFile)'
    BY <2>2, <2>4, <2>5, Zenon DEF Names
  <2>8. cp'.seg =< cpFile'.seg
    BY <1>2, <1>5, <1>6
  <2> QED BY <2>6, <2>7, <2>8 DEF CheckpointShape
<1>16. CallShape'
  <2>1. UNCHANGED <<call, proc>>
    BY <1>1
  <2> QED BY <1>1, <1>4, <1>13, <2>1, StoresCallShape
<1> QED BY <1>13, <1>15, <1>16 DEF DurableInv

-----------------------------------------------------------------------------
(* Crashes.                                                                *)

(* What a crash keeps of the log.                                          *)
LEMMA DieCuts ==
  ASSUME TypeOK, SyncShape, NEW lo \in Nat, lo =< offset, base[active] =< offset, Die(lo)
  PROVE  /\ lo =< offset' /\ base[active] =< offset' /\ offset' =< offset
         /\ \A c \in Call : end'[c] = IF end[c] > offset' THEN 0 ELSE end[c]
         /\ proc' = "down" /\ synced' = 0 /\ ~syncLost'
         /\ \A c \in Call : call'[c] = IF call[c] \in {"appended", "waiting"} THEN "failed"
                                       ELSE call[c]
<1>1. PICK left \in Higher(lo, base[active])..offset :
        /\ offset' = left
        /\ end' = [c \in Call |-> IF end[c] > left THEN 0 ELSE end[c]]
  BY Zenon DEF Die
<1>2. base[active] \in Nat /\ offset \in Nat
  BY DEF TypeOK
<1>3. Higher(lo, base[active]) \in Nat /\ lo =< Higher(lo, base[active])
      /\ base[active] =< Higher(lo, base[active])
  BY <1>2, HigherInt
<1>4. lo =< offset' /\ base[active] =< offset' /\ offset' =< offset
  BY <1>1, <1>2, <1>3
<1>5. \A c \in Call : end'[c] = IF end[c] > offset' THEN 0 ELSE end[c]
  BY <1>1
<1>6. \A c \in Call : call'[c] = IF call[c] \in {"appended", "waiting"} THEN "failed" ELSE call[c]
  BY DEF Die
<1>7. proc' = "down" /\ synced' = 0 /\ ~syncLost'
  <2>1. proc' = "down" /\ synced' = 0 /\ syncLost' \in {syncLost, FALSE}
    BY Zenon DEF Die
  <2>2. ~syncLost
    BY Zenon DEF SyncShape
  <2>3. CASE syncLost' = syncLost
    BY <2>1, <2>2, <2>3, Zenon
  <2>4. CASE syncLost' = FALSE
    BY <2>1, <2>4, Zenon
  <2>5. \A x : x \in {syncLost, FALSE} => x = syncLost \/ x = FALSE
    OBVIOUS
  <2> QED BY ONLY <2>1, <2>3, <2>4, <2>5, Zenon
<1> QED BY <1>4, <1>5, <1>6, <1>7

LEMMA DieStep ==
  ASSUME Reliable, DurableInv, TypeOK', Die(stable), first' \in first..cp.seg,
         cp' = cpFile, UNCHANGED <<active, base, soft, stable, cpFile, done>>
  PROVE  DurableInv'
<1>1. /\ LogShape /\ SyncShape /\ TypeOK /\ CallShape
      /\ Names(cp) /\ Names(cpFile) /\ cp.seg =< cpFile.seg
  BY Zenon DEF DurableInv, CheckpointShape
<1>2. /\ active \in Nat /\ first \in Nat /\ offset \in Nat /\ base[active] \in Nat
      /\ stable \in Nat /\ offset' \in Nat /\ first' \in Nat /\ cp.seg \in Nat
      /\ cpFile.seg \in Nat /\ MaxTotalBytes \in Nat
      /\ \A c \in Call : end[c] \in Nat /\ end'[c] \in Nat
  BY <1>1, DiskQueueAssumption DEF TypeOK, Position
<1>3. /\ base[active] =< stable /\ stable =< offset /\ base[active] =< offset
      /\ offset - base[active] =< MaxTotalBytes /\ \A c \in Call : end[c] =< offset
      /\ cp.seg =< active /\ cpFile.seg =< active
      /\ base[cpFile.seg] + cpFile.off =< stable
  <2>1. cp.seg \in first..active /\ cpFile.seg \in first..active
    BY <1>1, Zenon DEF Names
  <2>2. base[cpFile.seg] + cpFile.off =< stable
    BY <1>1, Zenon DEF Names
  <2> QED BY <1>1, <1>2, <2>1, <2>2 DEF LogShape, SyncShape, ActiveSize
<1>4. /\ stable =< offset' /\ base[active] =< offset' /\ offset' =< offset
      /\ \A c \in Call : end'[c] = IF end[c] > offset' THEN 0 ELSE end[c]
      /\ proc' = "down" /\ synced' = 0 /\ ~syncLost'
      /\ \A c \in Call : call'[c] = IF call[c] \in {"appended", "waiting"} THEN "failed"
                                    ELSE call[c]
  BY <1>1, <1>2, <1>3, DieCuts
<1>5. TableKept /\ EndsKept
  BY <1>2, <1>4 DEF TableKept, EndsKept
<1>6. LogShape'
  <2>1. PICK e \in Nat : e = offset'
    BY <1>2
  <2>2. e - base[active] =< MaxTotalBytes
    <3>1. e =< offset
      BY <1>4, <2>1
    <3> QED BY <1>2, <1>3, <3>1
  <2>3. first' =< active' /\ base'[active'] = base[active] /\ \A c \in Call : end'[c] =< offset'
    BY <1>2, <1>3, <1>4
  <2> QED BY <1>1, <1>4, <1>5, <2>1, <2>2, <2>3, TableShapeKept
<1>7. SyncShape'
  BY <1>2, <1>3, <1>4 DEF SyncShape
<1>8. CheckpointShape'
  <2>1. first' =< cpFile.seg
    BY <1>1, <1>2
  <2>2. Names(cpFile)'
    BY <1>1, <1>3, <1>5, <2>1, CpFileKept
  <2>3. Names(cp)'
    BY <2>2, Zenon DEF Names
  <2>4. cp'.seg =< cpFile'.seg
    BY <1>2
  <2> QED BY <2>2, <2>3, <2>4, Zenon DEF CheckpointShape
<1>9. CallShape'
  <2>1. ASSUME NEW d \in Call, NEW e \in Call, d \in done', 0 < end'[e], end'[e] =< end'[d]
        PROVE  e \in done'
    BY <1>1, <1>2, <1>4, <2>1 DEF CallShape
  <2>2. ASSUME NEW d \in Call
        PROVE  /\ call'[d] = "idle" => end'[d] = 0 /\ d \notin done'
               /\ call'[d] \in {"appended", "waiting"} => 0 < end'[d] /\ proc' # "down"
               /\ call'[d] = "acked" /\ d \notin done' => 0 < end'[d] /\ end'[d] =< stable'
    <3>1. /\ call[d] = "idle" => end[d] = 0 /\ d \notin done
          /\ call[d] = "acked" /\ d \notin done => 0 < end[d] /\ end[d] =< stable
      BY <1>1 DEF CallShape
    <3>2. stable' = stable /\ done' = done
      OBVIOUS
    <3> QED BY <1>2, <1>4, <3>1, <3>2
  <2>3. ASSUME NEW d \in soft' PROVE d \in done' \/ call'[d] \in {"failed", "refused"}
    <3>1. d \in soft /\ d \in Call /\ done' = done
      BY <1>1, <2>3 DEF TypeOK
    <3>2. d \in done \/ call[d] \in {"failed", "refused"}
      BY <1>1, <3>1 DEF CallShape
    <3> QED BY <1>4, <3>1, <3>2
  <2> QED BY <2>1, <2>2, <2>3 DEF CallShape
<1> QED BY <1>6, <1>7, <1>8, <1>9 DEF DurableInv

LEMMA CrashInCheckpointStep ==
  ASSUME Reliable, DurableInv, TypeOK', NEW c \in Call, CrashInCheckpoint(c)
  PROVE  DurableInv'
<1>1. /\ LogShape /\ SyncShape /\ TypeOK /\ CallShape
  BY Zenon DEF DurableInv
<1>2. /\ CheckpointDue(c) /\ Die(stable')
      /\ done' = done \cup Stored(c) /\ UNCHANGED <<active, base, soft>>
  BY Zenon DEF CrashInCheckpoint, CheckpointDue
<1>3. stable' = offset
  BY <1>1, Zenon DEF CrashInCheckpoint, SyncShape
<1>4. PICK p \in LogicalToPos(end[c]) :
        /\ cp' = p /\ cpFile' = p
        /\ \/ first' \in first..Higher(first, p.seg)
           \/ \E g \in first..active : GcTo(first, p.seg, g) /\ first' = g
  BY Zenon DEF CrashInCheckpoint
<1>5. p \in Position /\ At(p, c)
  BY <1>2, CheckpointAt
<1>6. /\ active \in Nat /\ first \in Nat /\ offset \in Nat /\ base[active] \in Nat
      /\ offset' \in Nat /\ stable' \in Nat /\ first' \in Nat /\ p.seg \in first..active
      /\ base[active] =< offset /\ stable =< offset /\ stable \in Nat
      /\ \A d \in Call : end[d] \in Nat /\ end[d] =< offset
  BY <1>1, <1>5 DEF TypeOK, LogShape, SyncShape, At
<1>7. first' =< p.seg
  <2>1. CASE first' \in first..Higher(first, p.seg)
    BY <1>6, <2>1 DEF Higher
  <2>2. CASE \E g \in first..active : GcTo(first, p.seg, g) /\ first' = g
    BY <1>5, <1>6, <2>2, GcToWithin DEF Position
  <2> QED BY <1>4, <2>1, <2>2
<1>8. /\ offset' = offset
      /\ \A d \in Call : end'[d] = end[d]
      /\ proc' = "down" /\ synced' = 0 /\ ~syncLost'
      /\ \A d \in Call : call'[d] = IF call[d] \in {"appended", "waiting"} THEN "failed"
                                    ELSE call[d]
  <2>1. stable' =< offset
    BY <1>3, <1>6
  <2> QED BY <1>1, <1>2, <1>3, <1>6, <2>1, DieCuts
<1>9. Stores(c)
  <2>1. end' = end
    BY <1>1, <1>8 DEF TypeOK
  <2> QED BY <1>2, <2>1 DEF Stores
<1>10. TableKept
  BY <1>2, Zenon DEF TableKept
<1>11. LogShape'
  <2>1. /\ UNCHANGED <<active, base, end>> /\ offset' = offset /\ first' =< active'
    BY <1>2, <1>6, <1>7, <1>8, <1>9 DEF Stores
  <2> QED BY <1>1, <2>1 DEF LogShape, ActiveSize
<1>12. SyncShape'
  BY <1>2, <1>3, <1>6, <1>8 DEF SyncShape
<1>13. CheckpointShape'
  <2>1. Names(p)'
    BY <1>1, <1>3, <1>5, <1>7, <1>9, <1>10, StoredNamed
  <2>2. Names(cp)'
    BY <1>4, <2>1, Zenon DEF Names
  <2>3. Names(cpFile)'
    BY <1>4, <2>1, Zenon DEF Names
  <2>4. cp'.seg =< cpFile'.seg
    BY <1>4, <1>6
  <2> QED BY <2>2, <2>3, <2>4, Zenon DEF CheckpointShape
<1>14. CallShape'
  <2>1. stable =< stable'
    BY <1>3, <1>6
  <2> QED BY <1>1, <1>8, <1>9, <2>1, StoresCallShape
<1> QED BY <1>11, <1>12, <1>13, <1>14 DEF DurableInv

-----------------------------------------------------------------------------
(* Reopening keeps every whole frame.                                      *)

LEMMA OpenKeeps ==
  ASSUME Sound, TypeOK', Open
  PROVE  /\ TableKept /\ end' = end
         /\ \A c \in Call : end[c] =< offset'
         /\ base'[active'] =< stable' /\ stable' =< offset'
         /\ offset' =< base'[active'] + MaxTotalBytes
         /\ \A c \in Call : end[c] =< stable => end[c] =< stable'
         /\ base[active] =< base'[active']
<1>1. LogShape /\ SyncShape /\ TypeOK
  BY Zenon DEF Sound
<1>2. /\ active \in Nat /\ first \in Nat /\ offset \in Nat /\ base[active] \in Nat
      /\ stable \in Nat /\ MaxTotalBytes \in Nat
      /\ \A c \in Call : end[c] \in Nat
  BY <1>1, DiskQueueAssumption DEF TypeOK
<1>3. /\ base[active] =< stable /\ stable =< offset /\ base[active] =< offset
      /\ offset =< base[active] + MaxTotalBytes /\ \A c \in Call : end[c] =< offset
  BY <1>1, <1>2 DEF LogShape, SyncShape, ActiveSize
<1>5. end' = end
  BY Zenon DEF Open
<1>6. CASE spare
  <2>1. active' = active + 1 /\ base' = NextBase /\ stable' = offset /\ offset' = offset
    BY <1>6, Zenon DEF Open
  <2>2. base'[active'] = offset
    BY <1>2, <2>1 DEF NextBase
  <2>4. TableKept
    BY <2>1, Zenon DEF TableKept
  <2> QED BY <1>2, <1>3, <1>5, <2>1, <2>2, <2>4
<1>7. CASE ~spare
  <2>1. PICK t \in base[active]..offset :
          /\ Repaired(t) /\ \A u \in (t+1)..offset : ~Repaired(u)
          /\ offset' = t
          /\ stable' = IF stable > t THEN t ELSE stable
    BY <1>7, Zenon DEF Open
  <2>2. active' = active /\ base' = base
    BY <1>7, Zenon DEF Open
  <2>3. ASSUME NEW c \in Call PROVE end[c] =< t
    <3>1. SUFFICES ASSUME end[c] > t PROVE FALSE
      BY <1>2
    <3>2. end[c] \in (t+1)..offset
      BY <1>2, <1>3, <3>1
    <3>3. Repaired(end[c])
      BY <1>2, <3>1 DEF Repaired
    <3> QED BY <2>1, <3>2, <3>3
  <2>5. TableKept
    BY <2>2, Zenon DEF TableKept
  <2>6. t \in Nat /\ base[active] =< t /\ t =< offset
    BY <1>2, <2>1
  <2>7. stable' =< t /\ base[active] =< stable' /\ (stable' = t \/ stable' = stable)
    BY <1>2, <1>3, <2>1, <2>6
  <2>8. offset' =< base'[active'] + MaxTotalBytes
    BY <1>2, <1>3, <2>1, <2>2, <2>6
  <2>9. base'[active'] =< stable' /\ stable' =< offset'
    BY <2>1, <2>2, <2>7
  <2>11. \A c \in Call : end[c] =< stable => end[c] =< stable'
    BY <2>3, <2>7
  <2>12. base[active] =< base'[active']
    BY <1>2, <2>2
  <2> QED BY <1>5, <2>1, <2>3, <2>5, <2>8, <2>9, <2>11, <2>12
<1> QED BY <1>6, <1>7

(* The checkpoint file is found valid when it names the log, and the first *)
(* segment's start is taken for it when a power loss has cut its segment.  *)
LEMMA OpenNamed ==
  ASSUME DurableInv, TypeOK', Open
  PROVE  /\ base[cpFile.seg] + cpFile.off =< stable'
         /\ Valid
<1>1. TypeOK /\ LogShape /\ SyncShape /\ Names(cpFile) /\ Sound
  BY DurableSound, Zenon DEF DurableInv, CheckpointShape
<1>2. /\ TableKept /\ stable' =< offset' /\ base'[active'] =< stable'
      /\ base[active] =< base'[active']
      /\ \A c \in Call : end[c] =< stable => end[c] =< stable'
  BY <1>1, OpenKeeps
<1>3. /\ active \in Nat /\ active' \in Nat /\ first \in Nat /\ cpFile.seg \in Nat
      /\ cpFile.off \in Nat /\ offset' \in Nat /\ stable' \in Nat /\ offset \in Nat
      /\ stable \in Nat /\ cpFile.seg \in first..active /\ first =< active
      /\ stable =< offset
  <2>1. cpFile.seg \in first..active
    BY <1>1, Zenon DEF Names
  <2> QED BY <1>1, <2>1 DEF TypeOK, Position, LogShape, SyncShape
<1>4. base[cpFile.seg] \in Nat /\ base'[cpFile.seg] = base[cpFile.seg] /\ active =< active'
      /\ (active' # active => base'[active + 1] = offset)
      /\ \A i \in 0..active : base'[i] = base[i]
  <2>1. \A i \in 0..active : base[i] \in Nat
    BY <1>1 DEF TypeOK
  <2> QED BY <1>1, <1>2, <1>3, <2>1, BaseKept
<1>p. base[cpFile.seg] + cpFile.off =< stable'
  <2>1. base[cpFile.seg] + cpFile.off =< stable
    BY <1>1, Zenon DEF Names
  <2>2. CASE cpFile.off = 0
    <3>1. base[cpFile.seg] =< base[active] /\ base[active] \in Nat /\ base'[active'] \in Nat
      BY <1>1, <1>3, SMTT(20) DEF TypeOK, LogShape
    <3> QED BY <1>2, <1>3, <1>4, <2>2, <3>1
  <2>3. CASE cpFile.off # 0
    <3>1. PICK c \in Call : end[c] = base[cpFile.seg] + cpFile.off
      BY <1>1, <2>3, Zenon DEF Names
    <3> QED BY <1>2, <2>1, <3>1
  <2> QED BY <2>2, <2>3
<1>5. base'[cpFile.seg] + cpFile.off =<
        (IF cpFile.seg = active' THEN offset' ELSE base'[cpFile.seg + 1])
  <2>1. CASE cpFile.seg = active'
    BY <1>2, <1>3, <1>4, <1>p, <2>1
  <2>2. CASE cpFile.seg < active
    <3>1. base[cpFile.seg] + cpFile.off =< base[cpFile.seg + 1]
      BY <1>1, <2>2, Zenon DEF Names
    <3> QED BY <1>3, <1>4, <2>2, <3>1
  <2>3. CASE cpFile.seg = active /\ active' # active
    <3>1. base[cpFile.seg] + cpFile.off =< stable
      BY <1>1, Zenon DEF Names
    <3> QED BY <1>3, <1>4, <2>3, <3>1
  <2> QED BY <1>3, <2>1, <2>2, <2>3
<1>6. cpFile.seg \in first..active'
  BY <1>3, <1>4
<1> QED BY <1>p, <1>5, <1>6 DEF Valid

LEMMA OpenCheckpoint ==
  ASSUME DurableInv, TypeOK', Open
  PROVE  /\ cp' = cpFile /\ cpFile' = cpFile
         /\ first' \in first..cpFile.seg
         /\ synced' = base[cpFile.seg] + cpFile.off
<1>1. TypeOK /\ Names(cpFile) /\ Sound
  BY DurableSound, Zenon DEF DurableInv, CheckpointShape
<1>2. PICK q : Starts(q)
  BY OpenStarts
<1>3. q = cpFile
  BY <1>2, OpenNamed, Zenon DEF Starts
<1>4. /\ cp' = cpFile /\ cpFile' = cpFile /\ GcTo(first, cpFile.seg, first')
      /\ synced' = base'[cpFile.seg] + cpFile.off
  BY <1>2, <1>3, Zenon DEF Starts
<1>5. first \in Nat /\ cpFile.seg \in Nat /\ first =< cpFile.seg /\ cpFile.seg \in 0..active
  BY <1>1 DEF Names, TypeOK, Position
<1>6. first' \in first..cpFile.seg
  BY <1>4, <1>5, GcToWithin
<1>7. base'[cpFile.seg] = base[cpFile.seg]
  BY <1>1, <1>5, OpenKeeps, BaseKept
<1> QED BY <1>4, <1>6, <1>7

LEMMA OpenCallShape ==
  ASSUME Sound, TypeOK', Open
  PROVE  CallShape'
<1>1. TypeOK /\ CallShape /\ LogShape /\ SyncShape
  BY Zenon DEF Sound
<1>2. end' = end /\ \A c \in Call : end[c] =< stable => end[c] =< stable'
  BY OpenKeeps
<1>3. UNCHANGED <<call, done>> /\ proc' = "open" /\ proc = "down"
  BY Zenon DEF Open, group
<1>4. ASSUME NEW d \in Call
      PROVE  /\ call'[d] = "idle" => end'[d] = 0 /\ d \notin done'
             /\ call'[d] \in {"appended", "waiting"} => 0 < end'[d] /\ proc' # "down"
             /\ call'[d] = "acked" /\ d \notin done' => 0 < end'[d] /\ end'[d] =< stable'
  BY <1>1, <1>2, <1>3 DEF CallShape
<1>5. \A d, e \in Call : d \in done' /\ 0 < end'[e] /\ end'[e] =< end'[d] => e \in done'
  BY <1>1, <1>2, <1>3 DEF CallShape
<1>6. ASSUME NEW d \in soft' PROVE d \in done' \/ call'[d] \in {"failed", "refused"}
  <2>1. soft' = soft \/ soft' = soft \cup {c \in Call : stable < end[c]}
    BY Zenon DEF Open
  <2>2. d \in Call
    BY <1>6 DEF TypeOK
  <2>3. CASE d \in soft
    BY <1>1, <1>3, <2>3 DEF CallShape
  <2>4. CASE stable < end[d]
    <3>1. /\ call[d] \in CallState /\ end[d] \in Nat /\ stable \in Nat
      BY <1>1, <2>2 DEF TypeOK
    <3>2. /\ call[d] # "idle" /\ call[d] \notin {"appended", "waiting"}
          /\ call[d] = "acked" => d \in done
      BY <1>1, <1>3, <2>2, <2>4, <3>1 DEF CallShape
    <3> QED BY <1>3, <3>1, <3>2 DEF CallState
  <2> QED BY <1>6, <2>1, <2>3, <2>4
<1> QED BY <1>4, <1>5, <1>6 DEF CallShape

LEMMA OpenShape ==
  ASSUME Sound, TypeOK', Open, first' =< active, synced' =< stable'
  PROVE  LogShape' /\ SyncShape'
<1>1. TypeOK /\ LogShape /\ SyncShape
  BY Zenon DEF Sound
<1>2. /\ TableKept /\ end' = end
      /\ \A c \in Call : end[c] =< offset'
      /\ base'[active'] =< stable' /\ stable' =< offset'
      /\ offset' =< base'[active'] + MaxTotalBytes
  BY OpenKeeps
<1>3. /\ active \in Nat /\ active' \in Nat /\ active =< active' /\ first' \in Nat
      /\ base'[active'] \in Nat /\ offset' \in Nat /\ stable' \in Nat /\ MaxTotalBytes \in Nat
  <2>1. active \in Nat /\ active' \in Nat /\ active =< active'
    BY <1>1, <1>2, BaseKept DEF TypeOK
  <2> QED BY <2>1, DiskQueueAssumption, SMTT(20) DEF TypeOK
<1>4. LogShape'
  <2>1. PICK e \in Nat : e = offset'
    BY <1>3
  <2>2. e =< base'[active'] + MaxTotalBytes
    BY <1>2, <2>1
  <2>3. e - base'[active'] =< MaxTotalBytes
    BY <1>3, <2>2
  <2>4. base'[active'] =< offset' /\ first' =< active' /\ \A c \in Call : end'[c] =< offset'
    BY <1>2, <1>3
  <2> QED BY <1>1, <1>2, <2>1, <2>3, <2>4, TableShapeKept
<1>5. SyncShape'
  <2>1. ~syncLost'
    BY <1>1, Zenon DEF SyncShape, Open, health
  <2> QED BY <1>2, <2>1 DEF SyncShape
<1> QED BY <1>4, <1>5

LEMMA OpenStep ==
  ASSUME Reliable, DurableInv, TypeOK', Open
  PROVE  DurableInv'
<1>1. /\ LogShape /\ SyncShape /\ TypeOK /\ Names(cpFile) /\ Sound
  BY DurableSound, Zenon DEF DurableInv, CheckpointShape
<1>2. /\ TableKept /\ end' = end /\ base[cpFile.seg] + cpFile.off =< stable'
  BY <1>1, OpenKeeps, OpenNamed
<1>3. /\ cp' = cpFile /\ cpFile' = cpFile /\ first' \in first..cpFile.seg
      /\ synced' = base[cpFile.seg] + cpFile.off
  BY OpenCheckpoint
<1>5. first' =< active /\ first' =< cpFile.seg /\ cpFile.seg \in Nat
  <2>1. cpFile.seg \in first..active
    BY <1>1, Zenon DEF Names
  <2> QED BY <1>1, <1>3, <2>1 DEF TypeOK
<1>6. EndsKept
  BY <1>2 DEF EndsKept
<1>7. LogShape' /\ SyncShape'
  BY <1>1, <1>2, <1>3, <1>5, OpenShape
<1>9. CheckpointShape'
  <2>1. done \subseteq done'
    BY Zenon DEF Open
  <2>2. Names(cpFile)'
    BY <1>1, <1>2, <1>3, <1>5, <1>6, <2>1, CpFileKept
  <2>3. Names(cp)'
    BY <1>3, <2>2, Zenon DEF Names
  <2>4. cp'.seg =< cpFile'.seg
    BY <1>3, <1>5
  <2> QED BY <2>2, <2>3, <2>4, Zenon DEF CheckpointShape
<1> QED BY <1>1, <1>7, <1>9, OpenCallShape DEF DurableInv

LEMMA OpenStranded ==
  ASSUME Reliable, StrandedInv, TypeOK', Open
  PROVE  DurableInv'
<1>1. /\ LogShape /\ SyncShape /\ TypeOK /\ Sound /\ Collected /\ Stranded
  BY Zenon DEF StrandedInv, Sound
<1>2. /\ TableKept /\ end' = end /\ base'[active'] =< stable'
      /\ base[active] =< base'[active']
  BY <1>1, OpenKeeps
<1>3. /\ first \in Nat /\ active \in Nat /\ first \in 0..active /\ active' \in Nat
      /\ active =< active' /\ cpFile.seg \in first..active /\ cpFile.seg < active
      /\ cpFile.off \in Nat /\ stable' \in Nat
      /\ \A i \in 0..active : base[i] \in Nat /\ base'[i] = base[i]
  <2>1. /\ first \in Nat /\ active \in Nat /\ active' \in Nat /\ stable' \in Nat
        /\ cpFile \in Position /\ \A i \in 0..active : base[i] \in Nat
    BY <1>1 DEF TypeOK
  <2>2. active =< active' /\ \A i \in 0..active : base'[i] = base[i]
    BY <1>1, <1>2, BaseKept
  <2>3. cpFile.seg \in first..(active-1)
    BY <1>1, Zenon DEF Stranded
  <2>4. first =< active
    BY <1>1 DEF LogShape
  <2> QED BY <2>1, <2>2, <2>3, <2>4 DEF Position
<1>4. ~Valid
  <2>1. base[cpFile.seg] + cpFile.off > base[cpFile.seg + 1]
    BY <1>1 DEF Stranded
  <2>2. cpFile.seg \in 0..active /\ cpFile.seg + 1 \in 0..active /\ cpFile.seg # active'
    BY <1>3
  <2> QED BY <1>3, <2>1, <2>2 DEF Valid
<1>5. PICK q : Starts(q)
  BY OpenStarts
<1>6. /\ q = [seg |-> first, off |-> 0] /\ cp' = q /\ cpFile' = q
      /\ GcTo(first, q.seg, first') /\ synced' = base'[q.seg] + q.off
  BY <1>4, <1>5, Zenon DEF Starts
<1>7. q.seg = first /\ q.off = 0
  BY <1>6
<1>8. first' = first
  <2>1. GcTo(first, first, first')
    BY <1>6, <1>7, Zenon
  <2> QED BY <1>3, <2>1 DEF GcTo, Higher
<1>9. base[first] =< base[active] /\ base'[first] = base[first] /\ base'[active'] \in Nat
  BY <1>1, <1>3 DEF LogShape, TypeOK
<1>10. synced' = base[first] /\ synced' =< stable'
  BY <1>2, <1>3, <1>6, <1>7, <1>9
<1>11. LogShape' /\ SyncShape'
  BY <1>1, <1>3, <1>8, <1>10, OpenShape
<1>12. Names(q)'
  <2>1. q.seg < active' => base'[first] =< base'[first + 1]
    BY <1>3, <1>7, <1>11 DEF LogShape
  <2>2. \A c \in Call : 0 < end'[c] /\ end'[c] =< base'[first] => c \in done'
    <3>1. done' = done
      BY Zenon DEF Open
    <3> QED BY <1>1, <1>2, <1>9, <3>1 DEF Collected
  <2>3. q.seg \in first'..active'
    BY <1>3, <1>7, <1>8
  <2>4. base'[q.seg] + q.off = base'[first]
    BY <1>3, <1>7, <1>9
  <2> QED BY <1>7, <1>9, <1>10, <2>1, <2>2, <2>3, <2>4 DEF Names
<1>13. CheckpointShape'
  <2>1. Names(cp)' /\ Names(cpFile)'
    BY <1>6, <1>12, Zenon DEF Names
  <2> QED BY <1>3, <1>6, <1>7, <2>1 DEF CheckpointShape
<1> QED BY <1>1, <1>11, <1>13, OpenCallShape DEF DurableInv

-----------------------------------------------------------------------------
(* The theorems.                                                           *)

LEMMA DurableInit ==
  ASSUME Reliable, Init
  PROVE  DurableInv
<1>1. TypeOK
  BY TypeInit
<1>2. LogShape
  <2>1. MaxTotalBytes \in Nat
    BY DiskQueueAssumption
  <2> QED BY <2>1 DEF Init, LogShape, ActiveSize
<1>3. SyncShape
  <2>1. ~syncLost
    BY Zenon DEF Init
  <2>2. synced = 0 /\ stable = 0 /\ offset = 0 /\ base[active] = 0
    BY DEF Init
  <2> QED BY <2>1, <2>2 DEF SyncShape
<1>4. CheckpointShape
  <2>1. /\ cp.seg = 0 /\ cp.off = 0 /\ cpFile.seg = 0 /\ cpFile.off = 0
        /\ first = 0 /\ active = 0 /\ base[0] = 0 /\ stable = 0
        /\ \A c \in Call : end[c] = 0
    BY DEF Init, Origin
  <2> QED BY <2>1 DEF CheckpointShape, Names
<1>5. CallShape
  <2>1. soft = {} /\ \A c \in Call : end[c] = 0 /\ call[c] = "idle" /\ c \notin done
    BY DEF Init
  <2> QED BY <2>1 DEF CallShape
<1> QED BY <1>1, <1>2, <1>3, <1>4, <1>5 DEF DurableInv

(* A power loss that cuts a sealed segment takes nothing acknowledged.     *)
LEMMA CutSound ==
  ASSUME Sound, TypeOK', NEW s \in first..(active-1), NEW t \in 0..offset, CutSealed(s, t)
  PROVE  /\ Sound' /\ proc' = "down"
         /\ \A gone : gone = base[s+1] - t => Cuts(s, t, gone) /\ stable' = stable - gone
         /\ UNCHANGED <<first, active, cpFile, call, done>>
<1> DEFINE gone == base[s+1] - t
<1>1. TypeOK /\ LogShape /\ SyncShape /\ CallShape /\ Collected /\ Ordered
  BY Zenon DEF Sound, LogShape, Ordered
<1>2. Cuts(s, t, gone)
  BY <1>1, CutMoves
<1>3. /\ stable' = (IF stable =< t THEN stable ELSE Higher(t, stable - gone))
      /\ synced' = 0 /\ soft' = soft \ Beyond(s, t)
      /\ \A c \in Beyond(s, t) : c \in soft \/ stable < end[c]
      /\ UNCHANGED <<first, active, syncLost, call, done, proc>> /\ proc = "down"
      /\ cpFile' = cpFile
  BY Zenon DEF CutSealed, health, group
<1>4. gone \in Nat /\ t \in Nat /\ first \in Nat /\ first =< s /\ s \in 0..active
      /\ active \in 0..active /\ active > s
  BY <1>1, <1>2 DEF Cuts, TypeOK
<1> HIDE DEF gone
<1>5. /\ stable \in Nat /\ offset \in Nat /\ base[active] =< stable /\ stable =< offset
      /\ t + gone =< base[active] /\ base'[active] = base[active] - gone
      /\ base[active] \in Nat /\ offset' = offset - gone
  BY <1>1, <1>2, <1>4 DEF Cuts, TypeOK, SyncShape
<1>6. stable' = stable - gone /\ t =< stable'
  BY <1>3, <1>4, <1>5 DEF Higher
<1>7. \A c \in Call : /\ end[c] \in Nat /\ end'[c] \in Nat /\ end[c] =< offset
                      /\ \/ end'[c] = end[c] /\ end[c] =< t
                         \/ end'[c] = end[c] - gone /\ t + gone < end[c]
                         \/ end'[c] = 0 /\ c \in Beyond(s, t)
  BY <1>1, <1>2 DEF Cuts, LogShape
<1>8. ASSUME NEW c \in Beyond(s, t)
      PROVE  c \in Call /\ t < end[c] /\ ~(call[c] = "acked" /\ c \notin done)
  <2>1. c \in Call /\ t < end[c]
    BY DEF Beyond
  <2>2. stable < end[c] \/ c \in done \/ call[c] \in {"failed", "refused"}
    BY <1>1, <1>3 DEF CallShape
  <2> QED BY <1>1, <1>5, <1>7, <2>1, <2>2 DEF CallShape
<1>9. LogShape'
  <2>1. \A i, j \in 0..active' : i =< j => base'[i] =< base'[j]
    BY <1>2, <1>3 DEF Cuts
  <2>2. base'[active'] =< offset' /\ \A c \in Call : end'[c] =< offset'
    BY <1>3, <1>4, <1>5, <1>7
  <2>3. first' =< active'
    BY <1>1, <1>3 DEF LogShape
  <2>4. ActiveSize' =< MaxTotalBytes
    <3>1. offset' - base'[active'] = offset - base[active]
      BY <1>3, <1>4, <1>5
    <3> QED BY <1>1, <3>1 DEF LogShape, ActiveSize
  <2> QED BY <2>1, <2>2, <2>3, <2>4 DEF LogShape
<1>10. SyncShape'
  <2>1. ~syncLost'
    BY <1>1, <1>3, Zenon DEF SyncShape
  <2>2. synced' =< stable' /\ stable' =< offset' /\ base'[active'] =< stable'
    BY <1>3, <1>4, <1>5, <1>6
  <2> QED BY <2>1, <2>2 DEF SyncShape
<1>11. CallShape'
  <2>1. ASSUME NEW c \in Call, NEW d \in Call, c \in done', 0 < end'[d], end'[d] =< end'[c]
        PROVE  d \in done'
    <3>1. 0 < end[d] /\ end[d] =< end[c]
      BY <1>4, <1>7, <2>1
    <3> QED BY <1>1, <1>3, <2>1, <3>1 DEF CallShape
  <2>2. ASSUME NEW c \in Call
        PROVE  /\ call'[c] = "idle" => end'[c] = 0 /\ c \notin done'
               /\ call'[c] \in {"appended", "waiting"} => 0 < end'[c] /\ proc' # "down"
               /\ call'[c] = "acked" /\ c \notin done' => 0 < end'[c] /\ end'[c] =< stable'
    <3>1. /\ call[c] = "idle" => end[c] = 0 /\ c \notin done
          /\ call[c] \in {"appended", "waiting"} => 0 < end[c] /\ proc # "down"
          /\ call[c] = "acked" /\ c \notin done => 0 < end[c] /\ end[c] =< stable
      BY <1>1 DEF CallShape
    <3>2. end[c] = 0 => end'[c] = 0
      BY <1>4, <1>7
    <3>3. call[c] = "acked" /\ c \notin done => 0 < end'[c] /\ end'[c] =< stable'
      BY <1>4, <1>5, <1>6, <1>7, <1>8, <3>1
    <3> QED BY <1>3, <3>1, <3>2, <3>3
  <2>3. ASSUME NEW c \in soft' PROVE c \in done' \/ call'[c] \in {"failed", "refused"}
    BY <1>1, <1>3, <2>3 DEF CallShape
  <2> QED BY <2>1, <2>2, <2>3 DEF CallShape
<1>12. Collected'
  <2>1. base'[first'] = base[first] /\ base[first] =< t /\ base[first] \in Nat
    BY <1>2, <1>3, <1>4 DEF Cuts
  <2> QED BY <1>1, <1>3, <1>4, <1>7, <2>1 DEF Collected
<1>13. Sound'
  BY <1>9, <1>10, <1>11, <1>12, Zenon DEF Sound
<1> QED BY <1>2, <1>3, <1>6, <1>13, Zenon DEF gone

(* ... and leaves the checkpoint file a place in the log, or pointing past *)
(* the end of the segment it cut.                                          *)
LEMMA CutNames ==
  ASSUME DurableInv, TypeOK', NEW s \in first..(active-1), NEW t \in 0..offset,
         CutSealed(s, t)
  PROVE  Names(cpFile)' \/ Stranded'
<1>1. TypeOK /\ LogShape /\ SyncShape /\ Names(cpFile) /\ Sound
  BY DurableSound, Zenon DEF DurableInv, CheckpointShape
<1>2. PICK gone : gone = base[s+1] - t
  OBVIOUS
<1>3. /\ Cuts(s, t, gone) /\ stable' = stable - gone
      /\ UNCHANGED <<first, active, cpFile, call, done>>
  BY <1>1, <1>2, CutSound
<1>4. PICK k \in Nat, o \in Nat : cpFile.seg = k /\ cpFile.off = o
  BY <1>1 DEF TypeOK, Position
<1>5. /\ k \in first..active /\ base[k] + o =< stable
      /\ k < active => base[k] + o =< base[k + 1]
      /\ o = 0 \/ \E c \in Call : end[c] = base[k] + o
      /\ \A c \in Call : 0 < end[c] /\ end[c] =< base[k] + o => c \in done
  BY <1>1, <1>4 DEF Names
<1>6. /\ s \in Nat /\ active \in Nat /\ first \in Nat /\ gone \in Nat /\ t \in Nat
      /\ first =< s /\ s < active /\ k \in 0..active /\ k =< active /\ first =< k
      /\ stable \in Nat /\ base[active] =< stable
  BY <1>1, <1>3, <1>5 DEF Cuts, TypeOK, SyncShape
<1>7. /\ base[s] =< t /\ base[s+1] = t + gone /\ s + 1 \in 0..active /\ s \in 0..active
      /\ active \in 0..active
      /\ \A i \in 0..active : /\ base[i] \in Nat /\ base'[i] \in Nat
                              /\ i =< s => base[i] =< t /\ base'[i] = base[i]
                              /\ i > s  => t + gone =< base[i] /\ base'[i] = base[i] - gone
      /\ \A c \in Call : /\ end[c] \in Nat /\ end'[c] \in Nat
                         /\ \/ end'[c] = end[c] /\ end[c] =< t
                            \/ end'[c] = end[c] - gone /\ t + gone < end[c]
                            \/ end'[c] = 0 /\ t < end[c] /\ end[c] =< t + gone
  BY <1>3, <1>6 DEF Cuts, Beyond
<1>8. t + gone =< base[active]
  BY <1>6, <1>7
<1>9. CASE k > s
  <2>1. base'[k] = base[k] - gone /\ t + gone =< base[k] /\ base[k] \in Nat
    BY <1>6, <1>7, <1>9
  <2>2. base'[k] + o =< stable'
    BY <1>3, <1>5, <1>6, <2>1
  <2>3. k < active => base'[k] + o =< base'[k + 1]
    <3>1. SUFFICES ASSUME k < active PROVE base'[k] + o =< base'[k + 1]
      OBVIOUS
    <3>2. k + 1 \in 0..active /\ k + 1 > s
      BY <1>6, <1>9, <3>1
    <3> QED BY <1>4, <1>5, <1>6, <1>7, <2>1, <3>1, <3>2
  <2>4. ASSUME o # 0 PROVE \E c \in Call : end'[c] = base'[k] + o
    <3>1. PICK c \in Call : end[c] = base[k] + o
      BY <1>5, <2>4
    <3>2. end'[c] = end[c] - gone
      BY <1>4, <1>6, <1>7, <2>1, <2>4, <3>1
    <3> QED BY <1>4, <1>6, <2>1, <3>1, <3>2
  <2>5. ASSUME NEW c \in Call, 0 < end'[c], end'[c] =< base'[k] + o PROVE c \in done
    <3>1. 0 < end[c] /\ end[c] =< base[k] + o
      BY <1>4, <1>6, <1>7, <2>1, <2>5
    <3> QED BY <1>5, <3>1
  <2> QED BY <1>3, <1>4, <1>5, <1>6, <2>2, <2>3, <2>4, <2>5 DEF Names
<1>10. CASE k =< s /\ base[k] + o =< t
  <2>1. base'[k] = base[k] /\ base[k] \in Nat
    BY <1>6, <1>7, <1>10
  <2>2. base'[k] + o =< stable'
    BY <1>3, <1>4, <1>6, <1>8, <1>7, <1>10, <2>1
  <2>3. base'[k] + o =< base'[k + 1]
    <3>1. k + 1 \in 0..active /\ k < active
      BY <1>6, <1>10
    <3>2. CASE k + 1 =< s
      BY <1>4, <1>5, <1>7, <2>1, <3>1, <3>2
    <3>3. CASE k = s
      BY <1>4, <1>6, <1>7, <1>10, <2>1, <3>3
    <3> QED BY <1>6, <1>10, <3>2, <3>3
  <2>4. ASSUME o # 0 PROVE \E c \in Call : end'[c] = base'[k] + o
    <3>1. PICK c \in Call : end[c] = base[k] + o
      BY <1>5, <2>4
    <3> QED BY <1>4, <1>6, <1>7, <1>10, <2>1, <3>1
  <2>5. ASSUME NEW c \in Call, 0 < end'[c], end'[c] =< base'[k] + o PROVE c \in done
    <3>1. 0 < end[c] /\ end[c] =< base[k] + o
      BY <1>4, <1>6, <1>7, <1>10, <2>1, <2>5
    <3> QED BY <1>5, <3>1
  <2> QED BY <1>3, <1>4, <1>5, <1>6, <2>2, <2>3, <2>4, <2>5 DEF Names
<1>11. CASE k =< s /\ base[k] + o > t
  <2>1. k = s
    <3>1. SUFFICES ASSUME k + 1 =< s PROVE FALSE
      BY <1>6, <1>11
    <3>2. k + 1 \in 0..active /\ k \in 0..active /\ k < active
      BY <1>6, <3>1
    <3>3. base[k + 1] =< t /\ base[k] + o =< base[k + 1]
      BY <1>5, <1>7, <3>1, <3>2
    <3> QED BY <1>4, <1>6, <1>7, <1>11, <3>2, <3>3
  <2>2. base'[s] = base[s] /\ base'[s + 1] = t
    BY <1>6, <1>7
  <2>3. cpFile'.seg = s /\ cpFile'.off = o /\ s \in first'..(active' - 1)
    BY <1>3, <1>4, <1>6, <2>1
  <2> QED BY <1>11, <2>1, <2>2, <2>3 DEF Stranded
<1> QED BY <1>4, <1>6, <1>7, <1>9, <1>10, <1>11

LEMMA CutSealedStep ==
  ASSUME LogInv, TypeOK', NEW s \in first..(active-1), NEW t \in 0..offset, CutSealed(s, t)
  PROVE  LogInv'
<1>1. PICK gone : gone = base[s+1] - t
  OBVIOUS
<1>2. /\ Sound' /\ proc' = "down" /\ Cuts(s, t, gone)
      /\ UNCHANGED <<first, active, cpFile, call, done>>
  BY <1>1, LogSound, CutSound
<1>3. CASE DurableInv
  <2>1. CASE Stranded'
    BY <1>2, <2>1 DEF LogInv, StrandedInv
  <2>2. CASE Names(cpFile)'
    <3>1. cp' = cpFile'
      BY <1>2 DEF CutSealed
    <3>2. Names(cp)'
      BY <2>2, <3>1, Zenon DEF Names
    <3>3. cp'.seg =< cpFile'.seg
      BY <3>1 DEF TypeOK, Position
    <3> QED BY <1>2, <2>2, <3>2, <3>3 DEF LogInv, DurableInv, Sound, CheckpointShape
  <2> QED BY <1>3, <2>1, <2>2, CutNames
<1>4. CASE StrandedInv
  <2>1. PICK k \in Nat, o \in Nat : cpFile.seg = k /\ cpFile.off = o
    BY <1>4 DEF StrandedInv, Sound, TypeOK, Position
  <2>2. k \in first..(active-1) /\ base[k] + o > base[k+1]
    BY <1>4, <2>1 DEF StrandedInv, Stranded
  <2>3. k \in 0..active /\ k + 1 \in 0..active /\ s \in Nat /\ gone \in Nat /\ t \in Nat
    BY <1>2, <1>4, <2>2 DEF StrandedInv, Sound, TypeOK, Cuts
  <2>4. /\ base[k] \in Nat /\ base[k+1] \in Nat /\ base[s+1] = t + gone
        /\ k =< s => base'[k] = base[k]
        /\ k > s => base'[k] = base[k] - gone
        /\ k + 1 =< s => base'[k+1] = base[k+1]
        /\ k + 1 > s => base'[k+1] = base[k+1] - gone
    BY <1>2, <2>3 DEF Cuts
  <2>5. base'[k] + o > base'[k+1]
    BY <2>1, <2>2, <2>3, <2>4
  <2>6. cpFile'.seg = k /\ cpFile'.off = o /\ k \in first'..(active' - 1)
    BY <1>2, <2>1, <2>2
  <2>7. Stranded'
    BY <2>5, <2>6 DEF Stranded
  <2> QED BY <1>2, <2>7 DEF LogInv, StrandedInv
<1> QED BY <1>3, <1>4 DEF LogInv

(* While the process is down the log can only be cut or reopened.          *)
LEMMA DownSteps ==
  ASSUME proc = "down", Next
  PROVE  \/ \E c \in Call : Signal(c)
         \/ Open
         \/ \E s \in first..(active-1) : \E t \in 0..offset : CutSealed(s, t)
<1>1. ASSUME NEW c \in Call, NEW n \in FrameSize,
             Append(c, n) \/ AppendRoll(c, n) \/ AppendRollFails(c, n) \/ AppendHighWater(c, n)
      PROVE  FALSE
  BY <1>1 DEF Append, AppendRoll, AppendRollFails, AppendHighWater, CanAppend
<1>2. ASSUME NEW c \in Call,
             \/ AppendRefused(c) \/ WaitCommit(c)
             \/ Checkpoint(c) \/ CheckpointReclaim(c) \/ CheckpointReclaimFails(c)
             \/ CheckpointFails(c) \/ CrashInCheckpoint(c)
      PROVE  FALSE
  BY <1>2 DEF AppendRefused, WaitCommit, Checkpoint, CheckpointReclaim,
              CheckpointReclaimFails, CheckpointFails, CrashInCheckpoint, CheckpointDue
<1>3. ASSUME CommitterWake \/ SyncGroup \/ CommitterStop \/ FsyncTick
      PROVE  FALSE
  BY <1>3 DEF CommitterWake, SyncGroup, CommitterStop, FsyncTick
<1>4. ASSUME Close \/ Crash \/ CrashInRoll \/ Attach
      PROVE  FALSE
  BY <1>4 DEF Close, Crash, CrashInRoll, Attach, Die
<1> QED BY <1>1, <1>2, <1>3, <1>4, Zenon DEF Next

LEMMA StrandedNext ==
  ASSUME Reliable, StrandedInv, TypeOK', [Next]_vars
  PROVE  LogInv'
<1>1. CASE (\E c \in Call : Signal(c)) \/ UNCHANGED vars
  <2>1. UNCHANGED <<proc, first, active, base, offset, soft, end, stable, cpFile, synced,
                    syncLost, call, done>>
    BY <1>1, Zenon DEF Signal, vars, files, health, group
  <2>2. LogShape' /\ SyncShape' /\ CallShape' /\ Collected' /\ Stranded'
    BY <2>1 DEF StrandedInv, Sound, LogShape, ActiveSize, SyncShape, CallShape, Collected,
                Stranded
  <2> QED BY <2>1, <2>2 DEF StrandedInv, Sound, LogInv
<1>2. CASE Open
  BY <1>2, OpenStranded DEF LogInv
<1>3. ASSUME NEW s \in first..(active-1), NEW t \in 0..offset, CutSealed(s, t)
      PROVE  LogInv'
  BY <1>3, CutSealedStep DEF LogInv
<1> QED BY <1>1, <1>2, <1>3, DownSteps, Zenon DEF StrandedInv

LEMMA DurableNext ==
  ASSUME Reliable, LogInv, [Next]_vars
  PROVE  LogInv'
<1>s. TypeOK /\ Ordered
  BY LogSound, Zenon DEF Sound, LogShape, Ordered
<1>1. TypeOK'
  BY <1>s, TypeNext
<1>a. CASE StrandedInv
  BY <1>1, <1>a, StrandedNext
<1>b. CASE DurableInv
 <2> SUFFICES ASSUME ~(\E s \in first..(active-1) : \E t \in 0..offset : CutSealed(s, t))
              PROVE  DurableInv'
  BY <1>1, CutSealedStep, Zenon DEF LogInv
 <2>2. ASSUME NEW c \in Call, NEW n \in FrameSize, Append(c, n)
       PROVE  DurableInv'
   BY <1>1, <1>b, <2>2, AppendStep
 <2>3. ASSUME NEW c \in Call, NEW n \in FrameSize, AppendRoll(c, n)
       PROVE  DurableInv'
   BY <1>1, <1>b, <2>3, AppendRollStep
 <2>4. ASSUME NEW c \in Call, NEW n \in FrameSize, AppendRollFails(c, n)
       PROVE  DurableInv'
   BY <1>1, <1>b, <2>4, AppendRollFailsQuiet, QuietStep
 <2>5. ASSUME NEW c \in Call, NEW n \in FrameSize, AppendHighWater(c, n)
       PROVE  DurableInv'
   BY <1>1, <1>b, <2>5, AppendHighWaterQuiet, QuietStep
 <2>6. ASSUME NEW c \in Call, AppendRefused(c)
       PROVE  DurableInv'
   BY <1>1, <1>b, <2>6, AppendRefusedQuiet, QuietStep
 <2>7. ASSUME NEW c \in Call, WaitCommit(c)
       PROVE  DurableInv'
   BY <1>1, <1>b, <2>7, WaitCommitQuiet, QuietStep
 <2>8. ASSUME NEW c \in Call, Checkpoint(c) \/ CheckpointReclaimFails(c)
       PROVE  DurableInv'
   BY <1>1, <1>b, <2>8, CheckpointStep
 <2>9. ASSUME NEW c \in Call, CheckpointReclaim(c)
       PROVE  DurableInv'
   BY <1>1, <1>b, <2>9, CheckpointReclaimStep
 <2>10. ASSUME NEW c \in Call, CheckpointFails(c)
        PROVE  DurableInv'
   BY <1>1, <1>b, <2>10, CheckpointFailsStep
 <2>11. ASSUME NEW c \in Call, CrashInCheckpoint(c)
        PROVE  DurableInv'
   BY <1>1, <1>b, <2>11, CrashInCheckpointStep
 <2>12. CASE SyncGroup
   BY <1>1, <1>b, <2>12, SyncGroupQuiet, QuietStep
 <2>13. CASE CommitterStop
   BY <1>1, <1>b, <2>13, CommitterStopQuiet, QuietStep
 <2>14. CASE FsyncTick
   BY <1>1, <1>b, <2>14, FsyncTickQuiet, QuietStep
 <2>15. CASE Close
   BY <1>1, <1>b, <2>15, CloseQuiet, QuietStep
 <2>16. CASE Crash
   <3>1. first' \in first..cp.seg
     BY <1>b, <2>16, FirstKept, Zenon DEF Crash, DurableInv
   <3> QED BY <1>1, <1>b, <2>16, <3>1, DieStep, Zenon DEF Crash
 <2>17. CASE CrashInRoll
   <3>1. first' \in first..cp.seg
     BY <1>b, <2>17, BeforeRollWithin, Zenon DEF CrashInRoll, DurableInv
   <3> QED BY <1>1, <1>b, <2>17, <3>1, DieStep, Zenon DEF CrashInRoll
 <2>18. CASE Open
   BY <1>1, <1>b, <2>18, OpenStep
 <2>19. CASE Attach
   BY <1>1, <1>b, <2>19, AttachQuiet, QuietStep
 <2>20. CASE (\E c \in Call : Signal(c)) \/ CommitterWake \/ UNCHANGED vars
   BY <1>1, <1>b, <2>20, IdleQuiet, QuietStep, Zenon
 <2> QED
   BY <2>2, <2>3, <2>4, <2>5, <2>6, <2>7, <2>8, <2>9, <2>10, <2>11, <2>12, <2>13, <2>14,
      <2>15, <2>16, <2>17, <2>18, <2>19, <2>20, Zenon DEF Next
<1> QED BY <1>a, <1>b DEF LogInv

LEMMA DurableImplies ==
  ASSUME LogInv
  PROVE  AckedDurable /\ CheckpointNamesLog
<1>1. /\ LogShape /\ SyncShape /\ TypeOK /\ CallShape /\ Collected
      /\ StrandedInv \/ (DurableInv /\ Names(cpFile))
  BY LogSound, Zenon DEF Sound, LogInv, DurableInv, CheckpointShape
<1>2. /\ first \in Nat /\ active \in Nat /\ first \in 0..active /\ cpFile.off \in Nat
      /\ \A i \in 0..active : base[i] \in Nat
      /\ \A c \in Call : end[c] \in Nat
  BY <1>1 DEF LogShape, TypeOK, Position
<1>3. Names(cpFile) => /\ ~Stranded /\ cpFile.seg \in first..active
                       /\ base[first] =< base[cpFile.seg] /\ base[cpFile.seg] \in Nat
  <2> SUFFICES ASSUME Names(cpFile)
               PROVE  /\ ~Stranded /\ cpFile.seg \in first..active
                      /\ base[first] =< base[cpFile.seg] /\ base[cpFile.seg] \in Nat
    OBVIOUS
  <2>1. /\ cpFile.seg \in first..active
        /\ cpFile.seg < active => base[cpFile.seg] + cpFile.off =< base[cpFile.seg + 1]
    BY Zenon DEF Names
  <2>2. base[first] =< base[cpFile.seg] /\ base[cpFile.seg] \in Nat
    BY <1>1, <1>2, <2>1 DEF LogShape
  <2>3. ASSUME Stranded PROVE FALSE
    <3>1. cpFile.seg < active /\ cpFile.seg + 1 \in 0..active
      BY <1>2, <2>1, <2>3 DEF Stranded
    <3>2. base[cpFile.seg + 1] \in Nat
      BY <1>2, <3>1
    <3> QED BY <1>2, <2>1, <2>2, <2>3, <3>1, <3>2 DEF Stranded
  <2> QED BY <2>1, <2>2, <2>3
<1>4. ASSUME NEW c \in Call, call[c] = "acked", c \notin done
      PROVE  Recoverable(c) /\ end[c] =< stable /\ c \notin soft
  <2>1. 0 < end[c] /\ end[c] =< stable /\ c \notin soft
    BY <1>1, <1>4 DEF CallShape
  <2>2. end[c] > base[first]
    BY <1>1, <1>2, <1>4, <2>1 DEF Collected
  <2>3. CASE StrandedInv
    BY <2>1, <2>2, <2>3 DEF StrandedInv, Recoverable, ReplayFrom
  <2>4. CASE Names(cpFile)
    <3>1. end[c] > base[cpFile.seg] + cpFile.off
      BY <1>2, <1>3, <1>4, <2>1, <2>4 DEF Names
    <3> QED BY <1>3, <2>1, <2>2, <2>4, <3>1 DEF Recoverable, ReplayFrom, Logical
  <2> QED BY <1>1, <2>3, <2>4
<1>5. AckedDurable
  BY <1>4, Zenon DEF AckedDurable
<1>6. CheckpointNamesLog
  <2>1. CASE StrandedInv
    BY <1>2, <2>1 DEF StrandedInv, Stranded, CheckpointNamesLog
  <2>2. CASE Names(cpFile)
    BY <2>2, Zenon DEF CheckpointNamesLog, Names
  <2> QED BY <1>1, <2>1, <2>2
<1> QED BY <1>5, <1>6

(* The invariant the results below rest on: what is on disk is ordered and *)
(* the checkpoint names it, or a power loss has just cut a sealed segment  *)
(* below the position that the checkpoint file names.                      *)
THEOREM DurableInvariant ==
  ASSUME Reliable
  PROVE  Spec => []LogInv
<1>1. Init => LogInv
  BY DurableInit DEF LogInv
<1>2. LogInv /\ [Next]_vars => LogInv'
  BY DurableNext
<1> QED BY <1>1, <1>2, PTL DEF Spec

(* A durable queue that acknowledges a frame keeps it recoverable until    *)
(* the consumer has stored it, through any crash, roll, reclaim, refusal   *)
(* or failed operation but a failed fsync.                                 *)
THEOREM AckedFramesDurable ==
  ASSUME Reliable
  PROVE  Spec => []AckedDurable
<1>1. LogInv => AckedDurable
  BY DurableImplies
<1> QED BY <1>1, DurableInvariant, PTL

(* Its checkpoint file names a record boundary of an existing segment, but *)
(* for the time between a power loss that cut a sealed segment no fsync    *)
(* covered (Open, queue.go:371) and the reopening after it.                *)
THEOREM CheckpointFileNamesLog ==
  ASSUME Reliable
  PROVE  Spec => []CheckpointNamesLog
<1>1. LogInv => CheckpointNamesLog
  BY DurableImplies
<1> QED BY <1>1, DurableInvariant, PTL
-----------------------------------------------------------------------------
(* The queue implements DurableLog.                                        *)
(*                                                                         *)
(* On the invariant a frame is in the log exactly when its end is not 0    *)
(* and the consumer has not stored it, so the refinement mapping reads     *)
(* off end, done and call alone.  Appends map to Append, every step that   *)
(* answers callers to Ack, the checkpoints to Store, the crashes and power *)
(* losses to Crash, and the rest stutters.                                 *)

Place == [c \in Call |-> IF InLog(c) THEN end[c] ELSE 0]
Acked == {c \in Call : call[c] = "acked"}

LEMMA PlaceIs == Sound => Place = [c \in Call |-> IF c \in done THEN 0 ELSE end[c]]
<1> SUFFICES ASSUME Sound
             PROVE  Place = [c \in Call |-> IF c \in done THEN 0 ELSE end[c]]
  OBVIOUS
<1>1. /\ first \in 0..active /\ base[first] \in Nat
      /\ \A c \in Call : end[c] \in Nat
  BY DEF Sound, TypeOK, LogShape
<1>2. ASSUME NEW c \in Call
      PROVE  (IF InLog(c) THEN end[c] ELSE 0) = (IF c \in done THEN 0 ELSE end[c])
  <2>1. 0 < end[c] /\ end[c] =< base[first] => c \in done
    BY DEF Sound, Collected
  <2> QED BY <1>1, <2>1 DEF InLog
<1> QED BY <1>2 DEF Place

LEMMA PlaceNext == Sound' => Place' = [c \in Call |-> IF c \in done' THEN 0 ELSE end'[c]]
<1>1. (Sound => Place = [c \in Call |-> IF c \in done THEN 0 ELSE end[c]])'
  BY PlaceIs, PTL
<1> QED BY <1>1

LEMMA MappedStutter ==
  ASSUME UNCHANGED <<Place, Acked, done>>
  PROVE  [Log!Next]_(Log!vars)
BY Zenon DEF Log!vars, Place, Acked

(* A cut is the position of an item, or 0.                                 *)
LEMMA MappedCut ==
  ASSUME NEW CONSTANT cut, cut \in {0} \cup {Place[d] : d \in Call},
         Log!Store(cut)
  PROVE  Log!Next
<1>1. cut = 0 \/ \E d \in Call : cut = (IF InLog(d) THEN end[d] ELSE 0)
  BY DEF Place
<1>2. \A d \in Call : [c \in Call |-> IF InLog(c) THEN end[c] ELSE 0][d]
                       = (IF InLog(d) THEN end[d] ELSE 0)
  OBVIOUS
<1>3. cut \in {0} \cup {[c \in Call |-> IF InLog(c) THEN end[c] ELSE 0][d] : d \in Call}
  BY <1>1, <1>2
<1> QED BY <1>3, Zenon DEF Log!Next

(* Steps that move no frame and store none, but may answer callers.        *)
LEMMA RefineAcks ==
  ASSUME Sound, Sound', UNCHANGED <<end, done>>,
         \A c \in Call : call[c] = "acked" => call'[c] = "acked"
  PROVE  [Log!Next]_(Log!vars)
<1>1. Place' = Place
  BY PlaceIs, PlaceNext
<1>2. Acked' = Acked \cup Acked' /\ Acked' \in SUBSET Call
  BY DEF Acked
<1>3. \A c \in Acked' : Place[c] > 0 \/ c \in done
  <2>1. \A c \in Call : call'[c] = "acked" /\ c \notin done' => 0 < end'[c]
    BY DEF Sound, CallShape
  <2> QED BY <2>1, PlaceIs DEF Acked
<1>4. PICK I \in SUBSET Call : I = Acked'
  BY <1>2
<1>5. Log!Ack(I)
  BY <1>1, <1>2, <1>3, <1>4 DEF Log!Ack, Place, Acked
<1> QED BY <1>5, Zenon DEF Log!Next

LEMMA QuietRefines ==
  ASSUME Sound, Sound', Quiet
  PROVE  [Log!Next]_(Log!vars)
<1>1. \A c \in Call : call[c] = "acked" => call'[c] = "acked"
  BY DEF Quiet
<1>2. UNCHANGED <<end, done>>
  BY Zenon DEF Quiet
<1> QED BY <1>1, <1>2, RefineAcks

LEMMA AppendRefines ==
  ASSUME Sound, Sound', NEW c \in Call, NEW n \in FrameSize,
         call[c] = "idle", Write(c, n) \/ WriteFails(c, n), done' = done
  PROVE  [Log!Next]_(Log!vars)
<1>n. n \in Nat \ {0}
  BY DiskQueueAssumption
<1>1. /\ end[c] = 0 /\ c \notin done /\ offset \in Nat
      /\ end \in [Call -> Nat]
      /\ \A d \in Call : end[d] =< offset
  BY DEF Sound, TypeOK, LogShape, CallShape
<1>2. TypeOK
  BY Zenon DEF Sound
<1>3. CASE Write(c, n)
  <2>1. end' = [end EXCEPT ![c] = offset + n] /\ Settle(c, "appended")
    BY <1>3, Zenon DEF Write
  <2>2. \A d \in Call : call'[d] = "acked" <=> call[d] = "acked"
    BY <1>2, <2>1, SettleOne
  <2>3. Place' = [Place EXCEPT ![c] = offset + n]
    BY <1>1, <2>1, PlaceIs, PlaceNext
  <2>4. Place[c] = 0 /\ \A d \in Call : Place[d] =< offset
    BY <1>1, PlaceIs
  <2>5. Place'[c] = offset + n
    BY <2>3 DEF Place
  <2>6. c \notin done \cup Acked
    BY <1>1 DEF Acked
  <2>7. Log!Append(c)
    <3>1. Place'[c] \in Nat /\ \A d \in Call : Place[d] < Place'[c]
      <4>1. \A d \in Call : Place[d] \in Nat
        BY <1>1, PlaceIs
      <4> QED BY <1>n, <1>1, <2>4, <2>5, <4>1
    <3>2. UNCHANGED <<Acked, done>>
      BY <2>2 DEF Acked
    <3>3. Place' = [Place EXCEPT ![c] = Place'[c]]
      BY <2>3, <2>5
    <3> QED BY <2>4, <2>6, <3>1, <3>2, <3>3, Zenon DEF Log!Append, Place, Acked
  <2> QED BY <2>7, Zenon DEF Log!Next
<1>4. CASE WriteFails(c, n)
  <2>1. end' = end /\ Settle(c, "refused")
    BY <1>4, Zenon DEF WriteFails
  <2>2. \A d \in Call : call[d] = "acked" => call'[d] = "acked"
    BY <1>1, <1>2, <2>1, SettleOne
  <2> QED BY <2>1, <2>2, RefineAcks
<1> QED BY <1>3, <1>4

(* A checkpoint stores a prefix of the log - or nothing new, when a failed *)
(* one has already stored it.                                              *)
LEMMA StoreRefines ==
  ASSUME Sound, Sound', NEW c \in Call, Stores(c),
         \A d \in Call : call'[d] = "acked" <=> call[d] = "acked"
  PROVE  [Log!Next]_(Log!vars)
<1>1. /\ end \in [Call -> Nat] /\ done \subseteq Call
      /\ end' = end /\ done' = done \cup {d \in Call : 0 < end[d] /\ end[d] =< end[c]}
  BY DEF Sound, TypeOK, Stores, Stored
<1>2. Acked' = Acked
  BY DEF Acked
<1>3. CASE c \in done
  <2>1. done' = done
    BY <1>1, <1>3 DEF Sound, CallShape
  <2>2. Place' = Place
    BY <1>1, <2>1, PlaceIs, PlaceNext
  <2> QED BY <1>2, <2>1, <2>2, MappedStutter
<1>4. CASE c \notin done
  <2>1. Place[c] = end[c] /\ \A d \in Call : Place[d] = IF d \in done THEN 0 ELSE end[d]
    BY <1>1, <1>4, PlaceIs
  <2> DEFINE taken == {d \in Call : 0 < Place[d] /\ Place[d] =< Place[c]}
  <2>2. done' = done \cup taken
    BY <1>1, <2>1 DEF Sound, CallShape
  <2>3. Place' = [d \in Call |-> IF d \in taken THEN 0 ELSE Place[d]]
    BY <1>1, <2>1, <2>2, PlaceNext
  <2>4. PICK cut : cut = Place[c]
    OBVIOUS
  <2>5. taken = {d \in Call : 0 < Place[d] /\ Place[d] =< cut}
    BY <2>4
  <2>6. Log!Store(cut)
    BY <1>2, <2>2, <2>3, <2>5, Zenon DEF Log!Store, Place, Acked
  <2>7. cut \in {0} \cup {Place[d] : d \in Call}
    BY <2>4
  <2> QED BY <2>6, <2>7, MappedCut
<1> QED BY <1>3, <1>4

(* A crash or a power loss takes nothing acknowledged and leaves the rest  *)
(* of the log in its order.                                                *)
LEMMA LossRefines ==
  ASSUME Sound, Sound', done' = done,
         \A c \in Call : call'[c] = "acked" <=> call[c] = "acked",
         \A c \in Call : end'[c] > 0 => end[c] > 0,
         \A c \in Call : call[c] = "acked" /\ c \notin done => end'[c] > 0,
         \A c, d \in Call : end'[c] > 0 /\ end'[c] < end'[d] => end[c] < end[d]
  PROVE  [Log!Next]_(Log!vars)
<1>1. \A d \in Call : /\ Place[d] = (IF d \in done THEN 0 ELSE end[d])
                      /\ Place'[d] = (IF d \in done THEN 0 ELSE end'[d])
                      /\ end[d] \in Nat /\ end'[d] \in Nat
  BY PlaceIs, PlaceNext DEF Sound, TypeOK
<1>2. Place' \in [Call -> Nat]
  BY <1>1, PlaceNext
<1>3. /\ \A i \in Call : Place'[i] > 0 => Place[i] > 0
      /\ \A i \in Acked : Place[i] > 0 => Place'[i] > 0
      /\ \A i, j \in Call : Place'[i] > 0 /\ Place'[i] < Place'[j] => Place[i] < Place[j]
  BY <1>1 DEF Acked
<1>4. UNCHANGED <<Acked, done>>
  BY DEF Acked
<1>5. Log!Crash
  BY <1>2, <1>3, <1>4, Zenon DEF Log!Crash, Place, Acked
<1> QED BY <1>5, Zenon DEF Log!Next

LEMMA DieRefines ==
  ASSUME Sound, Sound', Die(stable), done' = done
  PROVE  [Log!Next]_(Log!vars)
<1>1. /\ TypeOK /\ SyncShape /\ offset \in Nat /\ offset' \in Nat /\ stable \in Nat
      /\ stable =< offset /\ base[active] =< offset
      /\ \A c \in Call : end[c] \in Nat
  BY DEF Sound, TypeOK, LogShape, SyncShape
<1>2. /\ stable =< offset'
      /\ \A c \in Call : end'[c] = IF end[c] > offset' THEN 0 ELSE end[c]
      /\ \A c \in Call : call'[c] = IF call[c] \in {"appended", "waiting"} THEN "failed"
                                    ELSE call[c]
  BY <1>1, DieCuts
<1>3. \A c \in Call : call'[c] = "acked" <=> call[c] = "acked"
  BY <1>2
<1>4. \A c \in Call : call[c] = "acked" /\ c \notin done => end'[c] > 0
  BY <1>1, <1>2 DEF Sound, CallShape
<1>5. /\ \A c \in Call : end'[c] > 0 => end[c] > 0
      /\ \A c, d \in Call : end'[c] > 0 /\ end'[c] < end'[d] => end[c] < end[d]
  BY <1>1, <1>2
<1> QED BY <1>3, <1>4, <1>5, LossRefines

LEMMA CutRefines ==
  ASSUME Sound, Sound', NEW s \in first..(active-1), NEW t \in 0..offset, CutSealed(s, t)
  PROVE  [Log!Next]_(Log!vars)
<1>1. PICK gone : gone = base[s+1] - t
  OBVIOUS
<1>2. Cuts(s, t, gone) /\ UNCHANGED <<call, done>>
  BY <1>1, CutSound DEF Sound
<1>3. /\ gone \in Nat /\ t \in Nat
      /\ \A c \in Call : /\ end[c] \in Nat /\ end'[c] \in Nat
                         /\ \/ end'[c] = end[c] /\ end[c] =< t
                            \/ end'[c] = end[c] - gone /\ t + gone < end[c]
                            \/ end'[c] = 0
  BY <1>2 DEF Cuts
<1>4. /\ \A c \in Call : end'[c] > 0 => end[c] > 0
      /\ \A c, d \in Call : end'[c] > 0 /\ end'[c] < end'[d] => end[c] < end[d]
  BY <1>3
<1>5. \A c \in Call : call[c] = "acked" /\ c \notin done => end'[c] > 0
  BY <1>2 DEF Sound, CallShape
<1> QED BY <1>2, <1>4, <1>5, LossRefines

LEMMA CrashInCheckpointRefines ==
  ASSUME Sound, Sound', NEW c \in Call, CrashInCheckpoint(c)
  PROVE  [Log!Next]_(Log!vars)
<1>1. /\ TypeOK /\ LogShape /\ SyncShape
  BY Zenon DEF Sound
<1>2. Die(stable') /\ done' = done \cup Stored(c) /\ stable' = offset /\ soft' = soft
  BY <1>1, Zenon DEF CrashInCheckpoint, CheckpointDue, SyncShape
<1>3. /\ offset \in Nat /\ stable' \in Nat /\ stable' =< offset /\ base[active] =< offset
      /\ end \in [Call -> Nat] /\ end' \in [Call -> Nat] /\ offset' \in Nat
      /\ \A d \in Call : end[d] =< offset
  BY <1>1, <1>2 DEF TypeOK, LogShape, Sound
<1>4. /\ stable' =< offset'
      /\ \A d \in Call : end'[d] = IF end[d] > offset' THEN 0 ELSE end[d]
      /\ \A d \in Call : call'[d] = IF call[d] \in {"appended", "waiting"} THEN "failed"
                                    ELSE call[d]
  BY <1>1, <1>2, <1>3, DieCuts
<1>5. end' = end
  <2>1. \A d \in Call : end'[d] = end[d]
    BY <1>2, <1>3, <1>4
  <2> QED BY <1>3, <2>1
<1>6. Stores(c)
  BY <1>2, <1>5 DEF Stores
<1>7. \A d \in Call : call'[d] = "acked" <=> call[d] = "acked"
  BY <1>4
<1> QED BY <1>6, <1>7, StoreRefines

LEMMA StepRefines ==
  ASSUME Reliable, LogInv, LogInv', [Next]_vars
  PROVE  [Log!Next]_(Log!vars)
<1>s. Sound /\ Sound'
  <2>1. LogInv' => Sound'
    BY LogSound, PTL
  <2> QED BY <2>1, LogSound
<1>1. TypeOK /\ TypeOK' /\ Sound /\ Sound'
  BY <1>s, Zenon DEF Sound
<1>a. CASE StrandedInv
  <2>1. CASE (\E c \in Call : Signal(c)) \/ Open \/ UNCHANGED vars
    <3>1. UNCHANGED <<end, done, call>>
      BY <2>1, Zenon DEF Signal, Open, vars, files, group
    <3> QED BY <1>1, <3>1, RefineAcks
  <2>2. ASSUME NEW s \in first..(active-1), NEW t \in 0..offset, CutSealed(s, t)
        PROVE  [Log!Next]_(Log!vars)
    BY <1>1, <2>2, CutRefines
  <2> QED BY <1>a, <2>1, <2>2, DownSteps, Zenon DEF StrandedInv
<1>b. CASE DurableInv
 <2>2. ASSUME NEW c \in Call, NEW n \in FrameSize, Append(c, n) \/ AppendRoll(c, n)
       PROVE  [Log!Next]_(Log!vars)
   BY <2>2, <1>1, AppendRefines, Zenon DEF Append, AppendRoll, CanAppend
 <2>3. ASSUME NEW c \in Call, NEW n \in FrameSize, AppendRollFails(c, n)
       PROVE  [Log!Next]_(Log!vars)
   BY <2>3, AppendRollFailsQuiet, <1>1, <1>b, QuietRefines
 <2>4. ASSUME NEW c \in Call, NEW n \in FrameSize, AppendHighWater(c, n)
       PROVE  [Log!Next]_(Log!vars)
   BY <2>4, AppendHighWaterQuiet, <1>1, <1>b, QuietRefines
 <2>5. ASSUME NEW c \in Call, AppendRefused(c)
       PROVE  [Log!Next]_(Log!vars)
   BY <2>5, AppendRefusedQuiet, <1>1, <1>b, QuietRefines
 <2>6. ASSUME NEW c \in Call, WaitCommit(c)
       PROVE  [Log!Next]_(Log!vars)
   BY <2>6, WaitCommitQuiet, <1>1, <1>b, QuietRefines
 <2>7. ASSUME NEW c \in Call,
              \/ Checkpoint(c) \/ CheckpointReclaim(c)
              \/ CheckpointReclaimFails(c) \/ CheckpointFails(c)
       PROVE  [Log!Next]_(Log!vars)
   <3>1. Stores(c) /\ UNCHANGED call
     BY <2>7, Zenon DEF Checkpoint, CheckpointReclaim, CheckpointReclaimFails,
                        CheckpointFails, CheckpointDue, Stores, group, files
   <3>2. \A d \in Call : call'[d] = "acked" <=> call[d] = "acked"
     BY <3>1
   <3> QED BY <3>1, <3>2, <1>1, StoreRefines
 <2>8. ASSUME NEW c \in Call, CrashInCheckpoint(c)
       PROVE  [Log!Next]_(Log!vars)
   BY <2>8, <1>1, CrashInCheckpointRefines
 <2>9. CASE SyncGroup
   BY <1>1, <2>9, SyncGroupQuiet, <1>1, <1>b, QuietRefines
 <2>10. CASE CommitterStop
   BY <2>10, CommitterStopQuiet, <1>1, <1>b, QuietRefines
 <2>11. CASE FsyncTick
   BY <2>11, FsyncTickQuiet, <1>1, <1>b, QuietRefines
 <2>12. CASE Close
   BY <2>12, CloseQuiet, <1>1, <1>b, QuietRefines
 <2>13. CASE Crash \/ CrashInRoll
   BY <1>1, <2>13, DieRefines, Zenon DEF Crash, CrashInRoll
 <2>14. CASE Open
   <3>1. UNCHANGED <<end, done, call>>
     BY <2>14, Zenon DEF Open, group
   <3> QED BY <3>1, <1>1, RefineAcks
 <2>c. ASSUME NEW s \in first..(active-1), NEW t \in 0..offset, CutSealed(s, t)
       PROVE  [Log!Next]_(Log!vars)
   BY <1>1, <2>c, CutRefines
 <2>15. CASE Attach
   BY <2>15, AttachQuiet, <1>1, <1>b, QuietRefines
 <2>16. CASE (\E c \in Call : Signal(c)) \/ CommitterWake \/ UNCHANGED vars
   BY <2>16, IdleQuiet, <1>1, <1>b, QuietRefines, Zenon
 <2> QED
   BY <2>2, <2>3, <2>4, <2>5, <2>6, <2>7, <2>8, <2>9, <2>10, <2>11, <2>12, <2>13, <2>14,
      <2>15, <2>16, <2>c, Zenon DEF Next
<1> QED BY <1>a, <1>b DEF LogInv

LEMMA InitRefines ==
  ASSUME Init
  PROVE  Log!Init
<1>1. \A c \in Call : end[c] = 0 /\ call[c] = "idle"
  BY DEF Init
<1>2. done = {}
  BY DEF Init
<1>3. [c \in Call |-> IF InLog(c) THEN end[c] ELSE 0] = [c \in Call |-> 0]
  BY <1>1
<1>4. {c \in Call : call[c] = "acked"} = {}
  BY <1>1
<1> QED BY <1>2, <1>3, <1>4 DEF Log!Init

(* As long as no fsync fails, the durable queue is a FIFO of which a crash *)
(* can only take what it has not acknowledged: the end, and what follows a *)
(* cut in a sealed segment no fsync covered.                               *)
THEOREM RefinesDurableLog ==
  ASSUME Reliable
  PROVE  Spec => ImplementsDurableLog
<1>1. Init => Log!Init
  BY InitRefines
<1>2. LogInv /\ LogInv' /\ [Next]_vars => [Log!Next]_(Log!vars)
  BY StepRefines
<1> QED BY <1>1, <1>2, DurableInvariant, PTL DEF Spec, ImplementsDurableLog, Log!Spec

-----------------------------------------------------------------------------
(* The disk budget.  It is looked at only when a segment rolls, and not at *)
(* all when one is opened; that the log never exceeds it by more than one  *)
(* segment rests on what a roll that failed leaves behind: a next file     *)
(* only beside a log that is within the budget.                            *)

Capped == ~Lossy /\ "remove" \notin FaultKind /\ \A n \in FrameSize : n =< MaxBytes

CapInv ==
  /\ first =< active /\ base[active] =< offset
  /\ \A i, j \in 0..active : i =< j => base[i] =< base[j]
  /\ ActiveSize =< MaxBytes
  /\ base[active] - base[first] =< MaxTotalBytes
  /\ spare => TotalBytes =< MaxTotalBytes
  /\ spare /\ proc \in {"open", "up"} => latched

LEMMA NotOver == \A x \in Int, y \in Nat : ~(x > y) => x =< y
OBVIOUS

(* A step that leaves the table but for what it collects, and adds no byte *)
(* to the log.                                                             *)
LEMMA CapKept ==
  ASSUME TypeOK, TypeOK', CapInv, UNCHANGED <<active, base>>,
         first =< first', first' =< active,
         base[active] =< offset', offset' =< offset,
         spare' => spare \/ TotalBytes' =< MaxTotalBytes,
         spare' /\ proc' \in {"open", "up"} => latched'
  PROVE  CapInv'
<1>1. /\ active \in Nat /\ offset \in Nat /\ offset' \in Nat /\ MaxTotalBytes \in Nat
      /\ MaxBytes \in Nat /\ first \in 0..active /\ first' \in 0..active
      /\ \A i \in 0..active : base[i] \in Nat
  <2>1. /\ active \in Nat /\ offset \in Nat /\ first \in Nat
        /\ \A i \in 0..active : base[i] \in Nat
    BY DEF TypeOK
  <2>2. offset' \in Nat /\ first' \in Nat
    BY Zenon DEF TypeOK
  <2>3. first =< active
    BY Zenon DEF CapInv
  <2>4. first \in 0..active /\ first' \in 0..active
    BY <2>1, <2>2, <2>3
  <2>5. MaxTotalBytes \in Nat /\ MaxBytes \in Nat
    BY DiskQueueAssumption
  <2> QED BY <2>1, <2>2, <2>4, <2>5, Zenon
<1>2. base[first] =< base[first'] /\ base[first'] =< base[active]
  BY <1>1 DEF CapInv
<1>3. base[active] \in Nat /\ base[first] \in Nat /\ base[first'] \in Nat
  BY <1>1
<1>4. ActiveSize' =< MaxBytes /\ base'[active'] - base'[first'] =< MaxTotalBytes
  BY <1>1, <1>2, <1>3 DEF CapInv, ActiveSize
<1>5. spare' => TotalBytes' =< MaxTotalBytes
  <2>1. CASE spare
    <3>1. TotalBytes' =< TotalBytes
      BY <1>1, <1>2, <1>3 DEF TotalBytes
    <3>2. TotalBytes \in Int /\ TotalBytes' \in Int
      BY <1>1, <1>3 DEF TotalBytes
    <3> QED BY <1>1, <2>1, <3>1, <3>2 DEF CapInv
  <2> QED BY <2>1
<1> QED BY <1>4, <1>5 DEF CapInv

(* A step that does not touch the files.                                   *)
LEMMA CapSteady ==
  ASSUME TypeOK, TypeOK', CapInv, UNCHANGED files,
         latched => latched', proc' \in {"open", "up"} => proc \in {"open", "up"}
  PROVE  CapInv'
<1>1. UNCHANGED <<first, active, base, offset, spare>>
  BY Zenon DEF files
<1>2. first =< first' /\ first' =< active /\ base[active] =< offset' /\ offset' =< offset
  BY <1>1 DEF CapInv, TypeOK
<1>3. spare' /\ proc' \in {"open", "up"} => latched'
  BY <1>1, Zenon DEF CapInv
<1> QED BY <1>1, <1>2, <1>3, CapKept, Zenon

(* What collecting finds when no file resists: the segments below s gone.  *)
LEMMA CollectedTo ==
  ASSUME Capped, NEW f \in Nat, NEW s \in Nat, NEW g, GcTo(f, s, g)
  PROVE  g \in Nat /\ f =< g /\ s =< g /\ (g = f \/ g = s)
BY HigherInt DEF GcTo, Capped

(* A roll leaves an empty active segment and a log within its budget.      *)
LEMMA RolledWithin ==
  ASSUME Capped, TypeOK, CapInv, NEW f \in first..active, NEW s \in Nat,
         NEW g \in f..(active+1), RollOK(f, s, g)
  PROVE  /\ active' = active + 1 /\ active' \in Nat /\ ~spare'
         /\ base' \in [0..active' -> Nat]
         /\ base'[active'] = offset
         /\ \A i, j \in 0..active' : i =< j => base'[i] =< base'[j]
         /\ \A h \in g..active' : offset - base'[h] =< MaxTotalBytes
<1>1. /\ active \in Nat /\ first \in Nat /\ offset \in Nat /\ MaxTotalBytes \in Nat
      /\ f \in Nat /\ g \in Nat
      /\ \A i \in 0..active : base[i] \in Nat
  BY DiskQueueAssumption DEF TypeOK
<1>2. active' = active + 1 /\ base' = NextBase /\ ~spare' /\ CapTo(f, g)
  BY Zenon DEF RollOK
<1>3. /\ base' \in [0..active' -> Nat] /\ base'[active'] = offset
      /\ \A i \in 0..active : base'[i] = base[i] /\ base[i] =< offset
  BY <1>1, <1>2 DEF NextBase, CapInv
<1>4. \A i, j \in 0..active' : i =< j => base'[i] =< base'[j]
  <2>1. SUFFICES ASSUME NEW i \in 0..active', NEW j \in 0..active', i =< j
                 PROVE  base'[i] =< base'[j]
    OBVIOUS
  <2>2. CASE j = active'
    <3>1. CASE i = active'
      BY <1>1, <1>3, <2>2, <3>1
    <3>2. CASE i # active'
      <4>1. i \in 0..active
        BY <1>1, <1>2, <3>2
      <4>2. base'[i] =< offset /\ base'[j] = offset
        BY <1>3, <2>2, <4>1, Zenon
      <4> QED BY <4>2
    <3> QED BY <3>1, <3>2
  <2>3. CASE j # active'
    <3>1. i \in 0..active /\ j \in 0..active
      BY <1>1, <1>2, <2>1, <2>3
    <3> QED BY <1>3, <2>1, <3>1 DEF CapInv
  <2> QED BY <2>2, <2>3
<1>5. offset - base'[g] =< MaxTotalBytes
  <2>1. CASE g = active + 1
    BY <1>1, <1>2, <1>3, <2>1
  <2>2. CASE offset - NextBase[g] =< MaxTotalBytes
    BY <1>2, <2>2
  <2> QED BY <1>2, <2>1, <2>2 DEF CapTo, Capped
<1>6. \A h \in g..active' : offset - base'[h] =< MaxTotalBytes
  <2>1. SUFFICES ASSUME NEW h \in g..active' PROVE offset - base'[h] =< MaxTotalBytes
    OBVIOUS
  <2>2. g \in 0..active' /\ h \in 0..active' /\ g =< h
    BY <1>1, <1>2
  <2>3. base'[g] =< base'[h] /\ base'[g] \in Nat /\ base'[h] \in Nat
    BY <1>3, <1>4, <2>2
  <2> QED BY <1>1, <1>5, <2>3
<1> QED BY <1>1, <1>2, <1>3, <1>4, <1>6

(* A frame written to a segment it fits, or to an empty one.               *)
LEMMA CapWritten ==
  ASSUME Capped, TypeOK, NEW c \in Call, NEW n \in FrameSize,
         Write(c, n) \/ WriteFails(c, n)
  PROVE  /\ n \in Nat /\ n =< MaxBytes /\ offset' \in Nat
         /\ offset =< offset' /\ offset' =< offset + n
         /\ latched => latched'
<1>1. n \in Nat /\ n =< MaxBytes /\ offset \in Nat
  BY DiskQueueAssumption DEF Capped, TypeOK
<1>2. CASE Write(c, n)
  BY <1>1, <1>2 DEF Write, health
<1>3. CASE WriteFails(c, n)
  BY <1>1, <1>3 DEF WriteFails
<1> QED BY <1>1, <1>2, <1>3

LEMMA CapAppend ==
  ASSUME Capped, TypeOK, TypeOK', CapInv, NEW c \in Call, NEW n \in FrameSize, Append(c, n)
  PROVE  CapInv'
<1>1. /\ proc = "up" /\ ~latched /\ ~RollDue(n) /\ UNCHANGED <<first, active, base, spare>>
  BY Zenon DEF Append, CanAppend
<1>2. ~spare
  BY <1>1, Zenon DEF CapInv
<1>3. /\ n \in Nat /\ n =< MaxBytes /\ offset' \in Nat
      /\ offset =< offset' /\ offset' =< offset + n
  BY CapWritten, Zenon DEF Append
<1>4. /\ active \in Nat /\ offset \in Nat /\ base[active] \in Nat /\ MaxBytes \in Nat
  BY DiskQueueAssumption DEF TypeOK
<1>5. base[active] =< offset' /\ ActiveSize' =< MaxBytes
  BY <1>1, <1>3, <1>4 DEF RollDue, ActiveSize, CapInv
<1> QED BY <1>1, <1>2, <1>5 DEF CapInv

LEMMA CapAppendRoll ==
  ASSUME Capped, TypeOK, TypeOK', CapInv, NEW c \in Call, NEW n \in FrameSize,
         AppendRoll(c, n)
  PROVE  CapInv'
<1>1. PICK f \in first..active :
        \E g \in f..(active+1) : RollOK(f, cp.seg, g) /\ first' = g
  BY Zenon DEF AppendRoll
<1> DEFINE g == first'
<1>a. g \in f..(active+1) /\ RollOK(f, cp.seg, g)
  BY <1>1
<1>2. cp.seg \in Nat
  BY DEF TypeOK, Position
<1>3. /\ active' = active + 1 /\ active' \in Nat /\ ~spare'
      /\ base' \in [0..active' -> Nat] /\ base'[active'] = offset
      /\ \A i, j \in 0..active' : i =< j => base'[i] =< base'[j]
      /\ \A h \in g..active' : offset - base'[h] =< MaxTotalBytes
  BY <1>a, <1>2, RolledWithin
<1>4. /\ n \in Nat /\ n =< MaxBytes /\ offset' \in Nat
      /\ offset =< offset' /\ offset' =< offset + n
  BY CapWritten, Zenon DEF AppendRoll
<1>5. offset \in Nat /\ first \in Nat /\ active \in Nat /\ MaxBytes \in Nat
  BY DiskQueueAssumption DEF TypeOK
<1>6. first' =< active' /\ g \in g..active'
  BY <1>a, <1>3, <1>5
<1>7. base'[active'] =< offset' /\ ActiveSize' =< MaxBytes
  <2>1. base'[active'] = offset
    BY <1>3
  <2>2. ActiveSize' = offset' - offset
    BY <2>1 DEF ActiveSize
  <2>3. offset' - offset =< MaxBytes
    <3>1. \A a, b, m, k \in Nat : b =< a + m /\ m =< k => b - a =< k
      OBVIOUS
    <3>2. /\ offset \in Nat /\ offset' \in Nat /\ n \in Nat /\ MaxBytes \in Nat
          /\ offset' =< offset + n /\ n =< MaxBytes
      BY <1>4, <1>5, Zenon
    <3> QED BY <3>1, <3>2, Zenon
  <2> QED BY <1>4, <2>1, <2>2, <2>3, Zenon
<1>8. base'[active'] - base'[first'] =< MaxTotalBytes
  BY <1>3, <1>6
<1> QED BY <1>3, <1>6, <1>7, <1>8 DEF CapInv

(* A roll that fails, or is refused: what it collected is gone, and a file *)
(* it left lies beside a log that had room for the frame.                  *)
LEMMA CapRollRefused ==
  ASSUME Capped, TypeOK, TypeOK', CapInv, NEW c \in Call, NEW n \in FrameSize,
         AppendRollFails(c, n) \/ AppendHighWater(c, n)
  PROVE  CapInv'
<1>1. /\ proc = "up" /\ ~latched /\ UNCHANGED <<active, base, offset>>
      /\ first' \in first..active
  BY Zenon DEF AppendRollFails, AppendHighWater, CanAppend
<1>2. ~spare
  BY <1>1, Zenon DEF CapInv
<1>3. /\ active \in Nat /\ offset \in Nat /\ first \in Nat /\ MaxTotalBytes \in Nat
      /\ base[active] \in Nat /\ base[active] =< offset /\ n \in Nat
  BY DiskQueueAssumption DEF TypeOK, CapInv
<1>4. spare' => latched' /\ TotalBytes' =< MaxTotalBytes
  <2>1. CASE AppendHighWater(c, n)
    BY <1>2, <2>1, Zenon DEF AppendHighWater
  <2>2. CASE AppendRollFails(c, n)
    <3>1. offset - base[first'] + n =< MaxTotalBytes
      <4>1. PICK f \in first..active : ~OverBudget(f, n) /\ first' = f
        BY <2>2, Zenon DEF AppendRollFails
      <4>2. base[f] \in Nat
        <5>1. base \in [0..active -> Nat]
          BY Zenon DEF TypeOK
        <5>2. f \in 0..active
          BY <1>3
        <5> QED BY <5>1, <5>2
      <4>3. ~(offset - base[f] + n > MaxTotalBytes)
        BY <4>1, Zenon DEF OverBudget, Capped
      <4>4. offset - base[f] + n \in Int
        BY <1>3, <4>2
      <4>5. offset - base[f] + n =< MaxTotalBytes
        BY <1>3, <4>3, <4>4, NotOver, Zenon
      <4> QED BY <4>1, <4>5, Zenon
    <3>2. spare' => latched'
      BY <1>2, <2>2, Zenon DEF AppendRollFails, RollFails, SyncFails
    <3>3. base[first'] \in Nat
      BY <1>1, <1>3 DEF TypeOK
    <3>4. TotalBytes' =< MaxTotalBytes
      BY <1>1, <1>3, <3>1, <3>3 DEF TotalBytes
    <3> QED BY <3>2, <3>4
  <2> QED BY <2>1, <2>2
<1>5. first =< first' /\ first' =< active /\ base[active] =< offset' /\ offset' =< offset
  BY <1>1, <1>3
<1> QED BY <1>1, <1>4, <1>5, CapKept

(* Where a checkpoint lies.                                                *)
LEMMA TargetWithin ==
  ASSUME TypeOK, CapInv, NEW c \in Call, NEW p \in LogicalToPos(end[c])
  PROVE  p \in Position /\ p.seg \in Nat /\ p.seg =< active
<1>1. p \in Position
  BY LogicalToPosType
<1>2. p.seg =< active
  BY DEF LogicalToPos, CapInv, TypeOK
<1> QED BY <1>1, <1>2 DEF Position

(* A checkpoint collects; where it would roll its own segment away nothing *)
(* but that segment is left.                                               *)
LEMMA CapCheckpoint ==
  ASSUME Capped, TypeOK, TypeOK', CapInv, NEW c \in Call,
         Checkpoint(c) \/ CheckpointReclaimFails(c)
  PROVE  CapInv'
<1>1. UNCHANGED <<proc, active, base, offset>> /\ first' \in first..active
  BY Zenon DEF Checkpoint, CheckpointReclaimFails
<1>a. latched => latched'
  <2>1. CASE Checkpoint(c)
    BY <2>1 DEF Checkpoint, health
  <2>2. CASE CheckpointReclaimFails(c)
    <3>1. RollFails
      BY <2>2, Zenon DEF CheckpointReclaimFails
    <3> QED BY <3>1 DEF RollFails, SyncFails, health
  <2> QED BY <2>1, <2>2
<1>2. /\ active \in Nat /\ offset \in Nat /\ first \in Nat /\ MaxTotalBytes \in Nat
      /\ base[active] \in Nat /\ base[active] =< offset /\ MaxBytes \in Nat
      /\ MaxBytes =< MaxTotalBytes
  BY DiskQueueAssumption DEF TypeOK, CapInv
<1>3. spare' => spare \/ (latched' /\ TotalBytes' =< MaxTotalBytes)
  <2>1. CASE Checkpoint(c)
    BY <2>1, Zenon DEF Checkpoint
  <2>2. CASE CheckpointReclaimFails(c)
    <3>1. PICK p \in LogicalToPos(end[c]), g \in first..active :
            /\ p.seg = active /\ RollFails /\ GcTo(first, p.seg, g) /\ first' = g
      BY <2>2, Zenon DEF CheckpointReclaimFails, ReclaimDue
    <3>2. first' = active
      BY <1>1, <1>2, <3>1, CollectedTo
    <3>3. TotalBytes' =< MaxTotalBytes
      BY <1>1, <1>2, <3>2 DEF TotalBytes, ActiveSize, CapInv
    <3>4. spare' => spare \/ latched'
      BY <3>1, Zenon DEF RollFails, SyncFails
    <3> QED BY <3>3, <3>4
  <2> QED BY <2>1, <2>2
<1>4. first =< first' /\ first' =< active /\ base[active] =< offset' /\ offset' =< offset
  BY <1>1, <1>2
<1>5. spare' /\ proc' \in {"open", "up"} => latched'
  BY <1>1, <1>a, <1>3 DEF CapInv
<1> QED BY <1>1, <1>3, <1>4, <1>5, CapKept

LEMMA CapReclaim ==
  ASSUME Capped, TypeOK, TypeOK', CapInv, NEW c \in Call, CheckpointReclaim(c)
  PROVE  CapInv'
<1>1. PICK p \in LogicalToPos(end[c]), f \in first..active, g \in first..(active+1) :
        /\ GcTo(first, p.seg, f) /\ RollOK(f, p.seg, g)
        /\ \/ \E h \in g..(active+1) : GcTo(g, active + 1, h) /\ first' = h
           \/ first' = g
  BY Zenon DEF CheckpointReclaim
<1>2. offset' = offset
  BY Zenon DEF CheckpointReclaim
<1>3. /\ offset \in Nat /\ first \in Nat /\ active \in Nat /\ MaxBytes \in Nat
      /\ p.seg \in Nat /\ f \in Nat
  <2>1. p.seg \in Nat
    BY TargetWithin
  <2> QED BY <1>1, <2>1, DiskQueueAssumption DEF TypeOK
<1>4. g \in f..(active+1)
  BY <1>1, Zenon DEF RollOK, CapTo
<1>5. /\ active' = active + 1 /\ active' \in Nat /\ ~spare'
      /\ base' \in [0..active' -> Nat] /\ base'[active'] = offset
      /\ \A i, j \in 0..active' : i =< j => base'[i] =< base'[j]
      /\ \A h \in g..active' : offset - base'[h] =< MaxTotalBytes
  BY <1>1, <1>3, <1>4, RolledWithin
<1>6. first' \in g..active' /\ first' =< active'
  BY <1>1, <1>3, <1>4, <1>5
<1>7. base'[active'] =< offset' /\ ActiveSize' =< MaxBytes
  BY <1>2, <1>3, <1>5 DEF ActiveSize
<1>8. base'[active'] - base'[first'] =< MaxTotalBytes
  BY <1>5, <1>6
<1> QED BY <1>5, <1>6, <1>7, <1>8 DEF CapInv

(* A crash cuts the active file, and may leave the next one beside a log   *)
(* that was about to roll.                                                 *)
LEMMA CapDies ==
  ASSUME Capped, TypeOK, TypeOK', CapInv, NEW lo \in Nat, Die(lo),
         UNCHANGED <<active, base>>, first' \in first..active,
         spare' => spare \/ offset - base[first'] =< MaxTotalBytes
  PROVE  CapInv'
<1>1. PICK left \in Higher(lo, base[active])..offset : offset' = left
  BY Zenon DEF Die
<1>2. /\ active \in Nat /\ offset \in Nat /\ first \in Nat /\ MaxTotalBytes \in Nat
      /\ base[active] \in Nat /\ offset' \in Nat /\ base[first'] \in Nat
  BY DiskQueueAssumption DEF TypeOK
<1>3. base[active] =< Higher(lo, base[active]) /\ Higher(lo, base[active]) \in Nat
  BY <1>2, HigherInt
<1>4. base[active] =< offset' /\ offset' =< offset
  BY <1>1, <1>2, <1>3
<1>5. proc' = "down"
  BY Zenon DEF Die
<1>6. spare' => spare \/ TotalBytes' =< MaxTotalBytes
  BY <1>2, <1>4 DEF TotalBytes
<1>7. first =< first' /\ first' =< active
  BY <1>2
<1> QED BY <1>4, <1>5, <1>6, <1>7, CapKept

LEMMA CapCrash ==
  ASSUME Capped, TypeOK, TypeOK', CapInv, Crash \/ CrashInRoll
  PROVE  CapInv'
<1>1. Die(stable) /\ UNCHANGED <<active, base>> /\ stable \in Nat
  BY Zenon DEF Crash, CrashInRoll, TypeOK
<1>2. /\ active \in Nat /\ offset \in Nat /\ first \in Nat /\ first =< active
      /\ MaxTotalBytes \in Nat
  BY DiskQueueAssumption DEF TypeOK, CapInv
<1>3. CASE Crash
  <2>1. first' \in first..active /\ spare' = spare
    BY <1>2, <1>3 DEF Crash
  <2> QED BY <1>1, <2>1, CapDies
<1>4. CASE CrashInRoll
  <2>1. PICK n \in FrameSize, f \in first..active : ~OverBudget(f, n) /\ first' = f
    BY <1>4, Zenon DEF CrashInRoll
  <2>2. n \in Nat /\ base[f] \in Nat
    BY <1>2, DiskQueueAssumption DEF TypeOK
  <2>3. offset - base[first'] =< MaxTotalBytes
    BY <1>2, <2>1, <2>2 DEF OverBudget, Capped
  <2> QED BY <1>1, <2>1, <2>3, CapDies
<1> QED BY <1>3, <1>4

LEMMA CapCrashInCheckpoint ==
  ASSUME Capped, TypeOK, TypeOK', CapInv, NEW c \in Call, CrashInCheckpoint(c)
  PROVE  CapInv'
<1>1. PICK p \in LogicalToPos(end[c]) :
        \/ first' \in first..Higher(first, p.seg) /\ UNCHANGED spare
        \/ /\ ReclaimDue(p)
           /\ \E g \in first..active : GcTo(first, p.seg, g) /\ first' = g
  BY Zenon DEF CrashInCheckpoint
<1>2. /\ active \in Nat /\ offset \in Nat /\ first \in Nat /\ first =< active
      /\ MaxTotalBytes \in Nat /\ MaxBytes =< MaxTotalBytes /\ MaxBytes \in Nat
      /\ base[active] \in Nat /\ p.seg \in Nat /\ p.seg =< active
  <2>1. p.seg \in Nat /\ p.seg =< active
    BY TargetWithin
  <2>2. active \in Nat /\ first \in Nat /\ first =< active /\ offset \in Nat
    BY Zenon DEF TypeOK, CapInv
  <2>3. base[active] \in Nat
    BY <2>2 DEF TypeOK
  <2>4. MaxTotalBytes \in Nat /\ MaxBytes =< MaxTotalBytes /\ MaxBytes \in Nat
    BY DiskQueueAssumption
  <2> QED BY <2>1, <2>2, <2>3, <2>4, Zenon
<1>3. first' \in first..active /\ (spare' => spare \/ offset - base[first'] =< MaxTotalBytes)
  <2>1. CASE first' \in first..Higher(first, p.seg) /\ UNCHANGED spare
    BY <1>2, <2>1 DEF Higher
  <2>2. CASE ReclaimDue(p) /\ \E g \in first..active : GcTo(first, p.seg, g) /\ first' = g
    <3>1. first' = active
      BY <1>2, <2>2, CollectedTo DEF ReclaimDue
    <3> QED BY <1>2, <3>1 DEF CapInv, ActiveSize
  <2> QED BY <1>1, <2>1, <2>2
<1>4. Die(stable') /\ stable' \in Nat /\ UNCHANGED <<active, base>>
  BY Zenon DEF CrashInCheckpoint, TypeOK
<1> QED BY <1>3, <1>4, CapDies

(* Opening makes the file that a roll left the active one.                 *)
LEMMA CapOpen ==
  ASSUME Capped, TypeOK, TypeOK', CapInv, Open
  PROVE  CapInv'
<1>1. /\ active \in Nat /\ offset \in Nat /\ first \in Nat /\ first =< active
      /\ MaxTotalBytes \in Nat /\ MaxBytes \in Nat
      /\ \A i \in 0..active : base[i] \in Nat
      /\ active' \in Nat /\ offset' \in Nat /\ first' \in Nat
      /\ base[active] =< offset
  BY DiskQueueAssumption DEF TypeOK, CapInv
<1>2. first =< first' /\ first' =< active'
  <2>1. PICK g \in first..active' : first' = g
    BY Zenon DEF Open
  <2> QED BY <1>1, <2>1
<1>3. CASE ~spare
  <2>1. PICK t \in base[active]..offset : offset' = t
    BY <1>3, Zenon DEF Open
  <2>2. UNCHANGED <<active, base, spare>>
    BY <1>3, Zenon DEF Open
  <2>3. base[active] =< offset' /\ offset' =< offset
    BY <1>1, <2>1
  <2> QED BY <1>2, <1>3, <2>2, <2>3, CapKept
<1>4. CASE spare
  <2>1. active' = active + 1 /\ base' = NextBase /\ ~spare' /\ offset' = offset
    BY <1>4, Zenon DEF Open
  <2>2. /\ base'[active'] = offset
        /\ \A i \in 0..active : base'[i] = base[i] /\ base[i] =< offset
    BY <1>1, <2>1 DEF NextBase, CapInv
  <2>3. \A i, j \in 0..active' : i =< j => base'[i] =< base'[j]
    <3>1. SUFFICES ASSUME NEW i \in 0..active', NEW j \in 0..active', i =< j
                   PROVE  base'[i] =< base'[j]
      OBVIOUS
    <3>2. CASE j # active'
      <4>1. i \in 0..active /\ j \in 0..active
        BY <1>1, <2>1, <3>1, <3>2
      <4> QED BY <2>2, <3>1, <4>1 DEF CapInv
    <3>3. CASE j = active' /\ i # active'
      BY <1>1, <2>1, <2>2, <3>3
    <3>4. CASE j = active' /\ i = active'
      BY <1>1, <2>2, <3>4
    <3> QED BY <3>2, <3>3, <3>4
  <2>4. offset - base'[first] =< MaxTotalBytes
    BY <1>1, <1>4, <2>2 DEF CapInv, TotalBytes
  <2>5. base'[first] =< base'[first'] /\ base'[first] \in Nat /\ base'[first'] \in Nat
    <3>1. first \in 0..active' /\ first' \in 0..active'
      BY <1>1, <1>2, <2>1
    <3> QED BY <1>2, <2>3, <3>1 DEF TypeOK
  <2>6. base'[active'] =< offset' /\ ActiveSize' =< MaxBytes
    BY <1>1, <2>1, <2>2 DEF ActiveSize
  <2>7. base'[active'] - base'[first'] =< MaxTotalBytes
    BY <1>1, <2>2, <2>4, <2>5
  <2> QED BY <1>2, <2>1, <2>3, <2>6, <2>7 DEF CapInv
<1> QED BY <1>3, <1>4

(* A power loss only shortens the log.                                     *)
LEMMA CapCutSealed ==
  ASSUME TypeOK, TypeOK', CapInv, NEW s \in first..(active-1), NEW t \in 0..offset, CutSealed(s, t)
  PROVE  CapInv'
<1> DEFINE gone == base[s+1] - t
<1>1. Cuts(s, t, gone)
  BY CutMoves DEF CapInv, Ordered
<1>2. UNCHANGED <<first, active, spare>> /\ proc' = "down"
  BY Zenon DEF CutSealed
<1>3. /\ first \in 0..active /\ first =< s /\ active \in 0..active /\ s < active
      /\ base'[first] = base[first] /\ base[first] \in Nat /\ base[active] \in Nat
      /\ offset \in Nat /\ MaxTotalBytes \in Nat /\ MaxBytes \in Nat
  BY <1>1, DiskQueueAssumption DEF Cuts, CapInv, TypeOK
<1> HIDE DEF gone
<1>4. base'[active] = base[active] - gone /\ offset' = offset - gone /\ gone \in Nat
  BY <1>1, <1>3 DEF Cuts
<1>5. \A i, j \in 0..active' : i =< j => base'[i] =< base'[j]
  BY <1>1, <1>2 DEF Cuts
<1>6. ActiveSize' =< MaxBytes /\ base'[active'] =< offset'
  BY <1>2, <1>3, <1>4 DEF CapInv, ActiveSize
<1>7. base'[active'] - base'[first'] =< MaxTotalBytes
  BY <1>2, <1>3, <1>4 DEF CapInv
<1>8. spare' => TotalBytes' =< MaxTotalBytes
  BY <1>2, <1>3, <1>4 DEF CapInv, TotalBytes
<1> QED BY <1>2, <1>5, <1>6, <1>7, <1>8 DEF CapInv

LEMMA CapNext ==
  ASSUME Capped, TypeOK, TypeOK', CapInv, [Next]_vars
  PROVE  CapInv'
<1>1. ASSUME NEW c \in Call, NEW n \in FrameSize, Append(c, n)
      PROVE  CapInv'
  BY <1>1, CapAppend
<1>2. ASSUME NEW c \in Call, NEW n \in FrameSize, AppendRoll(c, n)
      PROVE  CapInv'
  BY <1>2, CapAppendRoll
<1>3. ASSUME NEW c \in Call, NEW n \in FrameSize,
             AppendRollFails(c, n) \/ AppendHighWater(c, n)
      PROVE  CapInv'
  BY <1>3, CapRollRefused
<1>4. ASSUME NEW c \in Call, Checkpoint(c) \/ CheckpointReclaimFails(c)
      PROVE  CapInv'
  BY <1>4, CapCheckpoint
<1>5. ASSUME NEW c \in Call, CheckpointReclaim(c)
      PROVE  CapInv'
  BY <1>5, CapReclaim
<1>6. ASSUME NEW c \in Call, CrashInCheckpoint(c)
      PROVE  CapInv'
  BY <1>6, CapCrashInCheckpoint
<1>7. CASE Crash \/ CrashInRoll
  BY <1>7, CapCrash
<1>8. CASE Open
  BY <1>8, CapOpen
<1>9. ASSUME NEW c \in Call,
             AppendRefused(c) \/ WaitCommit(c) \/ Signal(c) \/ CheckpointFails(c)
      PROVE  CapInv'
  <2>1. UNCHANGED <<proc, files>>
    BY <1>9, Zenon DEF AppendRefused, WaitCommit, Signal, CheckpointFails
  <2>2. latched => latched'
    <3>1. CASE CheckpointFails(c)
      BY <3>1, Zenon DEF CheckpointFails, SyncFails
    <3>2. CASE AppendRefused(c) \/ WaitCommit(c) \/ Signal(c)
      BY <3>2, Zenon DEF AppendRefused, WaitCommit, Signal, health
    <3> QED BY <1>9, <3>1, <3>2
  <2> QED BY <2>1, <2>2, CapSteady
<1>10. CASE CommitterWake \/ SyncGroup \/ CommitterStop \/ FsyncTick \/ UNCHANGED vars
  <2>1. UNCHANGED <<proc, files>>
    BY <1>10, Zenon DEF CommitterWake, SyncGroup, CommitterStop, FsyncTick, vars
  <2>2. latched => latched'
    <3>1. CASE SyncGroup
      BY <3>1, Zenon DEF SyncGroup, SyncFails, health
    <3>2. CASE CommitterWake \/ CommitterStop \/ FsyncTick \/ UNCHANGED vars
      BY <3>2, Zenon DEF CommitterWake, CommitterStop, FsyncTick, SyncFails, vars, health
    <3> QED BY <1>10, <3>1, <3>2
  <2> QED BY <2>1, <2>2, CapSteady
<1>11. CASE Close \/ Attach
  <2>1. UNCHANGED files /\ latched' = latched
    BY <1>11, Zenon DEF Close, Attach, health
  <2>2. proc' \in {"open", "up"} => proc \in {"open", "up"}
    BY <1>11 DEF Close, Attach
  <2> QED BY <2>1, <2>2, CapSteady
<1>12. ASSUME NEW s \in first..(active-1), NEW t \in 0..offset, CutSealed(s, t)
       PROVE  CapInv'
  BY <1>12, CapCutSealed
<1> QED
  BY <1>1, <1>2, <1>3, <1>4, <1>5, <1>6, <1>7, <1>8, <1>9, <1>10, <1>11, <1>12, Zenon DEF Next

LEMMA CapInit == Init => CapInv
BY DiskQueueAssumption DEF Init, CapInv, ActiveSize, TotalBytes

LEMMA CapBounds ==
  ASSUME TypeOK, CapInv
  PROVE  CapOvershoot
<1>1. /\ active \in Nat /\ first \in 0..active /\ offset \in Nat
      /\ MaxTotalBytes \in Nat /\ MaxBytes \in Nat
      /\ base[active] \in Nat /\ base[first] \in Nat
  BY DiskQueueAssumption DEF TypeOK, CapInv
<1> QED BY <1>1 DEF CapInv, CapOvershoot, ActiveSize, TotalBytes

(* Whatever fails but a removal, and however often the process crashes and *)
(* comes up again: the log of a durable queue never holds more than its    *)
(* budget and one segment (appendFrame, rollLocked and enforceCapLocked in *)
(* queue.go).                                                              *)
THEOREM BudgetAndOneSegment == Spec => []CapOvershoot
<1>1. CASE ~Capped
  <2>1. CapOvershoot
    BY <1>1 DEF CapOvershoot, Capped
  <2> QED BY <2>1, PTL
<1>2. CASE Capped
  <2>1. TypeOK /\ CapInv /\ [Next]_vars => TypeOK' /\ CapInv'
    BY <1>2, CapNext, TypeNext DEF CapInv, Ordered
  <2>2. Init => TypeOK /\ CapInv
    BY TypeInit, CapInit
  <2>3. TypeOK /\ CapInv => CapOvershoot
    BY CapBounds
  <2> QED BY <2>1, <2>2, <2>3, PTL DEF Spec
<1> QED BY <1>1, <1>2

(* The same of the durable queue of MCDiskQueueLive, which a run explores  *)
(* beside a lossy one.                                                     *)
THEOREM DurableQueueCapped == MCSpec => []DurableCapOvershoot
<1>1. CASE ~Capped
  <2>1. DurableCapOvershoot
    BY <1>1 DEF DurableCapOvershoot, CapOvershoot, Capped
  <2> QED BY <2>1, PTL
<1>2. CASE Capped
  <2>1. MCInit => (~lossy => TypeOK) /\ (~lossy => CapInv)
    BY TypeInit, CapInit DEF MCInit
  <2>2. (~lossy => TypeOK) /\ (~lossy => CapInv) /\ [MCNext]_mcvars
          => (~lossy => TypeOK)' /\ (~lossy => CapInv)'
    <3> SUFFICES ASSUME ~lossy => TypeOK, ~lossy => CapInv, [MCNext]_mcvars, ~lossy'
                 PROVE  TypeOK' /\ CapInv'
      OBVIOUS
    <3>1. ~lossy /\ [Next]_vars
      BY DEF MCNext, mcvars
    <3> QED BY <1>2, <3>1, TypeNext, CapNext DEF CapInv, Ordered
  <2>3. (~lossy => TypeOK) /\ (~lossy => CapInv) => DurableCapOvershoot
    BY CapBounds DEF DurableCapOvershoot
  <2> QED BY <2>1, <2>2, <2>3, PTL DEF MCSpec
<1> QED BY <1>1, <1>2
-----------------------------------------------------------------------------
(* What is counted.  A segment goes when it is collected, behind a         *)
(* checkpoint, or when it is dropped for the cap, which counts it unless   *)
(* it is behind the checkpoint too.  So what has to be known is that the   *)
(* segments behind either copy of the checkpoint hold stored frames only,  *)
(* in both sync modes and under every fault.                               *)

Behind(s) == \A c \in Call : base[first] < end[c] /\ end[c] =< base[s] => c \in done

DropInv ==
  /\ first =< active /\ base[active] =< offset
  /\ \A i, j \in 0..active : i =< j => base[i] =< base[j]
  /\ \A c \in Call : end[c] =< offset
  /\ cp.seg =< active /\ cpFile.seg =< active
  /\ Behind(cp.seg) /\ Behind(cpFile.seg)

\* What a step finds below segment s of its table it has stored, or somebody before it.
Past(s) == \A c \in Call : base[first] < end[c] /\ end[c] =< base'[s] => c \in done'

DropCounted ==
  \A c \in Call : /\ call[c] = "acked" /\ c \notin done'
                  /\ base[first] < end[c] /\ end[c] =< base'[first']
                  => dropped' > dropped

LEMMA TableGrows ==
  ASSUME TypeOK, TypeOK', DropInv, TableKept
  PROVE  /\ first \in Nat /\ active \in Nat /\ active' \in Nat /\ offset \in Nat /\ first' \in Nat
         /\ first =< active /\ active =< active' /\ active' =< active + 1
         /\ \A i \in 0..active : base'[i] = base[i]
         /\ \A i \in 0..active' : base'[i] \in Nat /\ base'[i] =< offset
         /\ \A i, j \in 0..active' : i =< j => base'[i] =< base'[j]
         /\ \A c \in Call : end[c] \in Nat /\ end[c] =< offset
<1>1. /\ first \in Nat /\ active \in Nat /\ active' \in Nat /\ offset \in Nat /\ first' \in Nat
      /\ first =< active /\ active =< active' /\ active' =< active + 1
  BY DEF TypeOK, DropInv, TableKept
<1>2. /\ \A i \in 0..active : base'[i] = base[i] /\ base[i] \in Nat
      /\ active' # active => base'[active + 1] = offset
  BY BaseKept DEF TypeOK
<1>3. \A i \in 0..active : base[i] =< offset
  <2> SUFFICES ASSUME NEW i \in 0..active PROVE base[i] =< offset
    OBVIOUS
  <2>1. base[i] =< base[active] /\ base[active] =< offset /\ active \in 0..active
    BY <1>1 DEF DropInv
  <2> QED BY <1>1, <1>2, <2>1
<1>4. \A i \in 0..active' : base'[i] \in Nat /\ base'[i] =< offset
  <2> SUFFICES ASSUME NEW i \in 0..active' PROVE base'[i] \in Nat /\ base'[i] =< offset
    OBVIOUS
  <2>1. CASE i \in 0..active
    BY <1>2, <1>3, <2>1
  <2>2. CASE i = active + 1 /\ active' # active
    BY <1>1, <1>2, <2>2
  <2> QED BY <1>1, <2>1, <2>2
<1>5. \A i, j \in 0..active' : i =< j => base'[i] =< base'[j]
  <2> SUFFICES ASSUME NEW i \in 0..active', NEW j \in 0..active', i =< j PROVE base'[i] =< base'[j]
    OBVIOUS
  <2>1. CASE j \in 0..active
    <3>1. i \in 0..active
      BY <1>1, <2>1
    <3>2. base[i] =< base[j]
      BY <2>1, <3>1 DEF DropInv
    <3> QED BY <1>2, <2>1, <3>1, <3>2
  <2>2. CASE j = active + 1 /\ active' # active
    BY <1>2, <1>4, <2>2
  <2> QED BY <1>1, <2>1, <2>2
<1>6. \A c \in Call : end[c] \in Nat /\ end[c] =< offset
  BY DEF TypeOK, DropInv
<1> QED BY <1>1, <1>2, <1>4, <1>5, <1>6

LEMMA PastCheckpoints ==
  ASSUME TypeOK, TypeOK', DropInv, TableKept, done \subseteq done'
  PROVE  /\ cp.seg \in Nat /\ cpFile.seg \in Nat /\ cp.seg =< active' /\ cpFile.seg =< active'
         /\ Past(cp.seg) /\ Past(cpFile.seg) /\ Past(first) /\ Past(0)
<1>1. cp.seg \in Nat /\ cpFile.seg \in Nat /\ cp.seg =< active /\ cpFile.seg =< active
  BY DEF TypeOK, Position, DropInv
<1>2. cp.seg =< active' /\ cpFile.seg =< active' /\ cp.seg \in 0..active /\ cpFile.seg \in 0..active
  BY <1>1, TableGrows
<1>3. base'[cp.seg] = base[cp.seg] /\ base'[cpFile.seg] = base[cpFile.seg]
  BY <1>2, TableGrows
<1>4. Past(cp.seg) /\ Past(cpFile.seg)
  BY <1>3 DEF Past, DropInv, Behind
<1>5. /\ 0 \in 0..active' /\ first \in 0..active' /\ 0 =< first
      /\ base'[first] = base[first] /\ base[first] \in Nat
  BY TableGrows
<1>6. base'[0] =< base[first] /\ base'[0] \in Nat
  BY <1>5, TableGrows
<1>7. Past(first) /\ Past(0)
  BY <1>5, <1>6, TableGrows DEF Past
<1> QED BY <1>1, <1>2, <1>4, <1>7

(* A step that only collects behind a segment it knows to be stored.       *)
LEMMA Collects ==
  ASSUME TypeOK, TypeOK', DropInv, TableKept, NEW s \in Nat, s =< active', Past(s),
         first' \in first..Higher(first, s)
  PROVE  DropCounted
<1>1. first' = first \/ (first' =< s /\ first' \in 0..active' /\ s \in 0..active')
  <2>1. Higher(first, s) \in {first, s}
    BY TableGrows, HigherInt
  <2> QED BY <2>1, TableGrows
<1>2. CASE first' = first
  <2>1. base'[first'] = base[first] /\ base[first] \in Nat
    BY <1>2, TableGrows
  <2> QED BY <2>1, TableGrows DEF DropCounted
<1>3. CASE first' =< s /\ first' \in 0..active' /\ s \in 0..active'
  <2>1. base'[first'] =< base'[s] /\ base'[first'] \in Nat /\ base'[s] \in Nat
    BY <1>3, TableGrows
  <2> QED BY <2>1, TableGrows DEF DropCounted, Past
<1> QED BY <1>1, <1>2, <1>3

(* Frames are cut or written above the end, and both copies of the         *)
(* checkpoint lie where only stored frames are below.                      *)
LEMMA DropKept ==
  ASSUME TypeOK, TypeOK', DropInv, TableKept, first =< first', first' =< active',
         base'[active'] =< offset',
         \A c \in Call : end'[c] =< offset' /\ (end'[c] = end[c] \/ end'[c] = 0 \/ end'[c] > offset),
         cp'.seg =< active', cpFile'.seg =< active', Past(cp'.seg), Past(cpFile'.seg)
  PROVE  DropInv'
<1>1. first' \in 0..active' /\ first \in 0..active'
  BY TableGrows
<1>2. base[first] =< base'[first'] /\ base'[first'] \in Nat
  <2>1. base'[first] = base[first]
    BY TableGrows
  <2> QED BY <1>1, <2>1, TableGrows
<1>3. ASSUME NEW s \in Nat, s =< active', Past(s), NEW c \in Call, base'[first'] < end'[c], end'[c] =< base'[s]
      PROVE  c \in done'
  <2>1. s \in 0..active' /\ base'[s] =< offset /\ base'[s] \in Nat
    BY <1>3, TableGrows
  <2>2. end'[c] \in Nat
    BY DEF TypeOK
  <2>3. end'[c] = end[c]
    BY <1>2, <1>3, <2>1, <2>2, TableGrows
  <2>4. base[first] < end[c] /\ base[first] \in Nat
    <3>1. base[first] \in Nat
      BY <1>1, TableGrows
    <3> QED BY <1>2, <1>3, <2>2, <2>3, <3>1
  <2> QED BY <1>3, <2>3, <2>4 DEF Past
<1>4. PICK p, q \in Nat : p = cp'.seg /\ q = cpFile'.seg
  BY DEF TypeOK, Position
<1>5. Behind(cp.seg)' /\ Behind(cpFile.seg)'
  <2>1. \A c \in Call : base'[first'] < end'[c] /\ end'[c] =< base'[p] => c \in done'
    BY <1>3, <1>4
  <2>2. \A c \in Call : base'[first'] < end'[c] /\ end'[c] =< base'[q] => c \in done'
    BY <1>3, <1>4
  <2> QED BY <1>4, <2>1, <2>2 DEF Behind
<1>6. \A i, j \in 0..active' : i =< j => base'[i] =< base'[j]
  BY TableGrows
<1> QED BY <1>5, <1>6 DEF DropInv

(* A step that leaves the table, the frames and the checkpoint alone.      *)
LEMMA DropSteady ==
  ASSUME TypeOK, TypeOK', DropInv, UNCHANGED <<files, cp, cpFile>>, done \subseteq done'
  PROVE  DropInv' /\ DropCounted
<1>1. /\ UNCHANGED <<first, active, base, offset, end, cp, cpFile>> /\ TableKept
  BY DEF files, TableKept
<1>2. DropInv'
  BY <1>1 DEF DropInv, Behind
<1>3. first' \in first..Higher(first, first) /\ first \in Nat /\ first =< active'
  BY <1>1, TableGrows DEF Higher
<1>4. Past(first)
  BY <1>1, PastCheckpoints
<1> QED BY <1>2, <1>3, <1>4, <1>1, Collects

(* A write goes to the end of the log.                                     *)
LEMMA DropWritten ==
  ASSUME TypeOK, TypeOK', DropInv, NEW c \in Call, NEW n \in FrameSize,
         Write(c, n) \/ WriteFails(c, n)
  PROVE  /\ offset =< offset' /\ offset' \in Nat
         /\ \A d \in Call : end'[d] =< offset' /\ (end'[d] = end[d] \/ end'[d] = 0 \/ end'[d] > offset)
<1>1. /\ n \in Nat \ {0} /\ offset \in Nat /\ offset' \in Nat
      /\ \A d \in Call : end[d] \in Nat /\ end[d] =< offset
  BY DiskQueueAssumption DEF TypeOK, DropInv
<1>2. CASE Write(c, n)
  <2>1. offset' = offset + n /\ end' = [end EXCEPT ![c] = offset + n] /\ end \in [Call -> Nat]
    BY <1>2 DEF Write, TypeOK
  <2>2. \A d \in Call : end'[d] = IF d = c THEN offset + n ELSE end[d]
    BY <2>1
  <2> QED BY <1>1, <2>1, <2>2
<1>3. CASE WriteFails(c, n)
  <2>1. PICK k \in 0..(n - 1) : offset' = offset + k
    BY <1>3 DEF WriteFails
  <2>2. end' = end
    BY <1>3 DEF WriteFails
  <2> QED BY <1>1, <2>1, <2>2
<1> QED BY <1>2, <1>3

LEMMA DropAppend ==
  ASSUME TypeOK, TypeOK', DropInv, NEW c \in Call, NEW n \in FrameSize, Append(c, n)
  PROVE  DropInv' /\ DropCounted
<1>1. /\ UNCHANGED <<first, active, base, cp, cpFile, done>> /\ (Write(c, n) \/ WriteFails(c, n))
  BY Zenon DEF Append
<1>2. TableKept
  BY <1>1 DEF TableKept
<1>3. /\ offset =< offset' /\ offset' \in Nat
      /\ \A d \in Call : end'[d] =< offset' /\ (end'[d] = end[d] \/ end'[d] = 0 \/ end'[d] > offset)
  BY <1>1, DropWritten
<1>4. base'[active'] =< offset' /\ first =< first' /\ first' =< active'
  BY <1>1, <1>2, <1>3, TableGrows
<1>5. cp'.seg =< active' /\ cpFile'.seg =< active' /\ Past(cp'.seg) /\ Past(cpFile'.seg) /\ Past(first)
  BY <1>1, <1>2, PastCheckpoints
<1>6. first' \in first..Higher(first, first) /\ first \in Nat /\ first =< active'
  BY <1>1, <1>2, TableGrows DEF Higher
<1> QED BY <1>2, <1>3, <1>4, <1>5, <1>6, DropKept, Collects

LEMMA BeforeRollCollects ==
  ASSUME TypeOK, NEW f \in first..active, BeforeRoll(f)
  PROVE  f \in first..Higher(first, cp.seg)
<1>1. first \in Nat /\ active \in Nat /\ cp.seg \in Nat
  BY DEF TypeOK, Position
<1>2. first =< Higher(first, cp.seg) /\ Higher(first, cp.seg) \in Nat
  BY <1>1, HigherInt
<1>3. f = first \/ GcTo(first, cp.seg, f)
  BY DEF BeforeRoll
<1> QED BY <1>1, <1>2, <1>3 DEF GcTo

LEMMA DropAppendRoll ==
  ASSUME TypeOK, TypeOK', DropInv, NEW c \in Call, NEW n \in FrameSize, AppendRoll(c, n)
  PROVE  DropInv' /\ DropCounted
<1>1. PICK f \in first..active : BeforeRoll(f) /\ \E g \in f..(active + 1) : RollOK(f, cp.seg, g) /\ first' = g
  BY Zenon DEF AppendRoll
<1>a. PICK g \in f..(active + 1) : RollOK(f, cp.seg, g) /\ first' = g
  BY <1>1
<1>2. /\ UNCHANGED <<cp, cpFile, done>> /\ (Write(c, n) \/ WriteFails(c, n))
  BY Zenon DEF AppendRoll
<1>3. /\ active' = active + 1 /\ base' = NextBase /\ TableKept
      /\ dropped' = dropped + DroppedUnacked(f, g, cp.seg)
  BY <1>1, <1>a, Zenon DEF RollOK, TableKept
<1>4. /\ offset =< offset' /\ offset' \in Nat
      /\ \A d \in Call : end'[d] =< offset' /\ (end'[d] = end[d] \/ end'[d] = 0 \/ end'[d] > offset)
  BY <1>2, DropWritten
<1>5. base'[active'] =< offset' /\ first =< first' /\ first' =< active'
  BY <1>1, <1>a, <1>3, <1>4, TableGrows
<1>6. /\ cp'.seg =< active' /\ cpFile'.seg =< active' /\ Past(cp'.seg) /\ Past(cpFile'.seg)
      /\ Past(cp.seg) /\ cp.seg \in Nat /\ cp.seg =< active'
  BY <1>2, <1>3, PastCheckpoints
<1>7. DropInv'
  BY <1>3, <1>4, <1>5, <1>6, DropKept
<1>8. f \in first..Higher(first, cp.seg)
  BY <1>1, <1>a, BeforeRollCollects
<1>9. CASE g =< Higher(f, cp.seg)
  <2>1. first' \in first..Higher(first, cp.seg)
    BY <1>1, <1>a, <1>5, <1>6, <1>8, <1>9, <1>3, TableGrows DEF Higher
  <2> QED BY <1>3, <1>6, <1>7, <2>1, Collects
<1>10. CASE ~(g =< Higher(f, cp.seg))
  <2>1. f \in Int /\ g \in Int /\ cp.seg \in Int /\ Higher(f, cp.seg) \in Int /\ dropped \in Nat
    BY <1>1, <1>a, <1>3, <1>6, TableGrows, HigherInt DEF TypeOK
  <2>2. DroppedUnacked(f, g, cp.seg) > 0 /\ DroppedUnacked(f, g, cp.seg) \in Int
    BY <1>1, <1>10, <2>1 DEF DroppedUnacked, Higher
  <2>3. dropped' > dropped
    BY <1>3, <2>1, <2>2
  <2> QED BY <1>7, <2>3 DEF DropCounted
<1> QED BY <1>9, <1>10

LEMMA DropRollRefused ==
  ASSUME TypeOK, TypeOK', DropInv, NEW c \in Call, NEW n \in FrameSize,
         AppendRollFails(c, n) \/ AppendHighWater(c, n)
  PROVE  DropInv' /\ DropCounted
<1>1. PICK f \in first..active : BeforeRoll(f) /\ first' = f
  BY Zenon DEF AppendRollFails, AppendHighWater
<1>2. UNCHANGED <<active, base, offset, end, cp, cpFile, done>>
  BY Zenon DEF AppendRollFails, AppendHighWater
<1>3. TableKept
  BY <1>2 DEF TableKept
<1>4. first' \in first..Higher(first, cp.seg)
  BY <1>1, BeforeRollCollects
<1>5. base'[active'] =< offset' /\ first =< first' /\ first' =< active' /\ \A d \in Call : end'[d] =< offset'
  BY <1>1, <1>2, <1>3, TableGrows
<1>6. /\ cp'.seg =< active' /\ cpFile'.seg =< active' /\ Past(cp'.seg) /\ Past(cpFile'.seg)
      /\ Past(cp.seg) /\ cp.seg \in Nat /\ cp.seg =< active'
  BY <1>2, <1>3, PastCheckpoints
<1> QED BY <1>2, <1>3, <1>4, <1>5, <1>6, DropKept, Collects

(* The target of a checkpoint has stored frames below it, and the whole    *)
(* log where it is about to be rolled away.                                *)
LEMMA TargetPast ==
  ASSUME TypeOK, TypeOK', DropInv, TableKept, NEW c \in Call, NEW p \in LogicalToPos(end[c]),
         done' = done \cup Stored(c)
  PROVE  /\ p \in Position /\ p.seg \in Nat /\ p.seg =< active /\ p.seg =< active' /\ Past(p.seg)
         /\ ReclaimDue(p) => \A d \in Call : 0 < end[d] => d \in done'
<1> DEFINE t == end[c]
<1>1. p \in Position /\ p.seg \in Nat
  BY LogicalToPosType DEF Position
<1>2. t \in Nat /\ base[first] \in Nat /\ active =< active' /\ first \in 0..active
  BY TableGrows
<1>3. \A d \in Call : end[d] \in Nat /\ end[d] =< offset
  BY TableGrows
<1>4. \A d \in Call : 0 < end[d] /\ end[d] =< t => d \in done'
  BY DEF Stored
<1>5. CASE p = [seg |-> first, off |-> 0]
  <2>1. Past(p.seg) /\ p.seg =< active /\ p.off = 0
    BY <1>2, <1>5, PastCheckpoints
  <2>2. ~ReclaimDue(p)
    <3>1. ActiveSize \in Int /\ MaxBytes \in Nat \ {0}
      BY TableGrows, DiskQueueAssumption DEF ActiveSize, TypeOK
    <3> QED BY <2>1, <3>1 DEF ReclaimDue
  <2>3. p.seg =< active'
    BY <1>1, <1>2, <2>1, TableGrows
  <2> QED BY <1>1, <2>1, <2>2, <2>3, Zenon
<1>6. CASE p # [seg |-> first, off |-> 0]
  <2>1. PICK s \in first..active : PosSeg(t, s) /\ p = [seg |-> s, off |-> t - base[s]]
    BY <1>6 DEF LogicalToPos
  <2>2. s \in 0..active /\ p.seg = s /\ p.off = t - base[s] /\ base'[s] = base[s] /\ base[s] \in Nat
    BY <2>1, TableGrows
  <2>3. base[s] =< t
    BY <1>2, <2>1, <2>2 DEF PosSeg
  <2>4. Past(p.seg)
    <3> SUFFICES ASSUME NEW d \in Call, base[first] < end[d], end[d] =< base'[s] PROVE d \in done'
      BY <2>2 DEF Past
    <3> QED BY <1>2, <1>3, <1>4, <2>2, <2>3
  <2>5. ReclaimDue(p) => \A d \in Call : 0 < end[d] => d \in done'
    <3> SUFFICES ASSUME ReclaimDue(p), NEW d \in Call, 0 < end[d] PROVE d \in done'
      OBVIOUS
    <3>1. s = active /\ t - base[active] >= offset - base[active]
      BY <2>2 DEF ReclaimDue, ActiveSize
    <3>2. t >= offset
      BY <1>2, <2>2, <3>1, TableGrows
    <3> QED BY <1>2, <1>3, <1>4, <3>2, TableGrows
  <2> QED BY <1>1, <1>2, <2>1, <2>2, <2>4, <2>5, TableGrows
<1> QED BY <1>5, <1>6

LEMMA DropCheckpoint ==
  ASSUME TypeOK, TypeOK', DropInv, NEW c \in Call, Checkpoint(c) \/ CheckpointReclaimFails(c)
  PROVE  DropInv' /\ DropCounted
<1>1. PICK p \in LogicalToPos(end[c]), g \in first..active :
        cp' = p /\ cpFile' = p /\ GcTo(first, p.seg, g) /\ first' = g
  BY Zenon DEF Checkpoint, CheckpointReclaimFails
<1>2. UNCHANGED <<active, base, offset, end>> /\ done' = done \cup Stored(c)
  BY Zenon DEF Checkpoint, CheckpointReclaimFails, CheckpointDue
<1>3. TableKept /\ done \subseteq done'
  BY <1>2 DEF TableKept
<1>4. p.seg \in Nat /\ p.seg =< active' /\ Past(p.seg)
  BY <1>2, <1>3, TargetPast
<1>5. first' \in first..Higher(first, p.seg)
  <2>1. first =< Higher(first, p.seg) /\ Higher(first, p.seg) \in Nat
    BY <1>3, <1>4, TableGrows, HigherInt
  <2> QED BY <1>1, <1>3, <2>1, TableGrows DEF GcTo
<1>6. base'[active'] =< offset' /\ first =< first' /\ first' =< active' /\ \A d \in Call : end'[d] =< offset'
  BY <1>1, <1>2, <1>3, TableGrows
<1> QED BY <1>1, <1>2, <1>3, <1>4, <1>5, <1>6, DropKept, Collects

(* A roll of the checkpoint's own segment goes past the whole log.         *)
LEMMA DropReclaim ==
  ASSUME TypeOK, TypeOK', DropInv, NEW c \in Call, CheckpointReclaim(c)
  PROVE  DropInv' /\ DropCounted
<1>1. PICK p \in LogicalToPos(end[c]), f \in first..active, g \in first..(active + 1) :
        /\ ReclaimDue(p) /\ RollOK(f, p.seg, g)
        /\ LET head == [seg |-> active + 1, off |-> 0] IN
             \/ cp' = head /\ cpFile' = head /\ \E h \in g..(active + 1) : first' = h
             \/ cp' = p /\ cpFile' \in {p, head} /\ first' = g
  BY Zenon DEF CheckpointReclaim
<1>2. UNCHANGED <<offset, end>> /\ done' = done \cup Stored(c)
  BY Zenon DEF CheckpointReclaim, CheckpointDue
<1>3. active' = active + 1 /\ base' = NextBase /\ TableKept
  BY <1>1, Zenon DEF RollOK, TableKept
<1>4. /\ p.seg \in Nat /\ p.seg =< active' /\ Past(p.seg)
      /\ \A d \in Call : 0 < end[d] => d \in done'
  BY <1>1, <1>2, <1>3, TargetPast
<1>5. Past(active + 1) /\ active + 1 \in Nat /\ active + 1 =< active'
  <2>1. base[first] \in Nat
    BY TableGrows, <1>3 DEF TypeOK
  <2>2. \A d \in Call : base[first] < end[d] => 0 < end[d]
    BY <1>3, <2>1, TableGrows
  <2>3. Past(active + 1)
    BY <1>4, <2>2 DEF Past
  <2> QED BY <1>3, <2>3, TableGrows
<1>6. first =< first' /\ first' =< active'
  BY <1>1, <1>3, TableGrows
<1>7. first' \in first..Higher(first, active + 1)
  BY <1>3, <1>6, TableGrows DEF Higher
<1>8. /\ cp'.seg \in {p.seg, active + 1} /\ cpFile'.seg \in {p.seg, active + 1}
  BY <1>1
<1>9. cp'.seg =< active' /\ cpFile'.seg =< active' /\ Past(cp'.seg) /\ Past(cpFile'.seg)
  BY <1>4, <1>5, <1>8
<1>10. base'[active'] =< offset' /\ \A d \in Call : end'[d] =< offset' /\ end'[d] = end[d]
  BY <1>2, <1>3, TableGrows
<1> QED BY <1>3, <1>5, <1>6, <1>7, <1>9, <1>10, DropKept, Collects

LEMMA DropCheckpointFails ==
  ASSUME TypeOK, TypeOK', DropInv, NEW c \in Call, CheckpointFails(c)
  PROVE  DropInv' /\ DropCounted
<1>1. /\ UNCHANGED <<first, active, base, offset, end, cp>> /\ done' = done \cup Stored(c)
      /\ cpFile' = cpFile \/ \E p \in LogicalToPos(end[c]) : cpFile' = p
  BY DEF CheckpointFails, CheckpointDue, files
<1>2. TableKept /\ done \subseteq done'
  BY <1>1 DEF TableKept
<1>3. /\ cp'.seg =< active' /\ Past(cp'.seg) /\ cpFile.seg =< active' /\ Past(cpFile.seg) /\ Past(first)
  BY <1>1, <1>2, PastCheckpoints
<1>4. cpFile'.seg =< active' /\ Past(cpFile'.seg)
  <2>1. CASE cpFile' = cpFile
    BY <1>3, <2>1
  <2>2. CASE \E p \in LogicalToPos(end[c]) : cpFile' = p
    <3>1. PICK p \in LogicalToPos(end[c]) : cpFile' = p
      BY <2>2
    <3>2. p.seg =< active' /\ Past(p.seg)
      BY <1>1, <1>2, TargetPast
    <3> QED BY <3>1, <3>2
  <2> QED BY <1>1, <2>1, <2>2
<1>5. /\ base'[active'] =< offset' /\ first =< first' /\ first' =< active' /\ \A d \in Call : end'[d] =< offset'
      /\ first' \in first..Higher(first, first) /\ first \in Nat /\ first =< active'
  BY <1>1, <1>2, TableGrows DEF Higher
<1> QED BY <1>1, <1>2, <1>3, <1>4, <1>5, DropKept, Collects

(* A crash cuts frames and collects nothing that is not stored.            *)
LEMMA DropDies ==
  ASSUME TypeOK, TypeOK', DropInv, NEW lo \in Nat, Die(lo), UNCHANGED <<active, base>>, done \subseteq done',
         first' \in first..active, NEW s \in Nat, s =< active, Past(s), first' \in first..Higher(first, s),
         cp'.seg =< active', cpFile'.seg =< active', Past(cp'.seg), Past(cpFile'.seg)
  PROVE  DropInv' /\ DropCounted
<1>1. TableKept
  BY DEF TableKept
<1>2. PICK left \in Higher(lo, base[active])..offset :
        /\ offset' = left
        /\ end' = [c \in Call |-> IF end[c] > left THEN 0 ELSE end[c]]
  BY Zenon DEF Die
<1>3. base[active] \in Nat /\ offset \in Nat /\ Higher(lo, base[active]) \in Nat /\ base[active] =< Higher(lo, base[active])
  <2>1. base[active] \in Nat /\ offset \in Nat
    BY DEF TypeOK
  <2> QED BY <2>1, HigherInt
<1>4. base'[active'] =< offset' /\ left \in Nat
  BY <1>2, <1>3
<1>5. \A c \in Call : end'[c] =< offset' /\ (end'[c] = end[c] \/ end'[c] = 0)
  <2>1. \A c \in Call : end[c] \in Nat /\ end'[c] = IF end[c] > left THEN 0 ELSE end[c]
    BY <1>1, <1>2, TableGrows
  <2> QED BY <1>2, <1>4, <2>1
<1>6. first =< first' /\ first' =< active' /\ s =< active'
  BY <1>1, TableGrows
<1> QED BY <1>1, <1>4, <1>5, <1>6, DropKept, Collects

LEMMA DropCrash ==
  ASSUME TypeOK, TypeOK', DropInv, Crash \/ CrashInRoll
  PROVE  DropInv' /\ DropCounted
<1>1. Die(stable) /\ UNCHANGED <<active, base, cpFile, done>> /\ stable \in Nat /\ cp' = cpFile
  BY Zenon DEF Crash, CrashInRoll, TypeOK
<1>2. TableKept /\ done \subseteq done'
  BY <1>1 DEF TableKept
<1>3. /\ cp.seg \in Nat /\ Past(cp.seg) /\ cp'.seg =< active' /\ cpFile'.seg =< active'
      /\ Past(cp'.seg) /\ Past(cpFile'.seg)
  BY <1>1, <1>2, PastCheckpoints
<1>4. cp.seg =< active
  BY DEF DropInv
<1>5. first' \in first..active /\ first' \in first..Higher(first, cp.seg)
  <2>1. CASE Crash
    <3>1. first' = first
      BY <2>1 DEF Crash
    <3> QED BY <1>2, <1>3, <3>1, TableGrows, HigherInt
  <2>2. CASE CrashInRoll
    <3>1. PICK f \in first..active : BeforeRoll(f) /\ first' = f
      BY <2>2, Zenon DEF CrashInRoll
    <3> QED BY <3>1, BeforeRollCollects
  <2> QED BY <2>1, <2>2
<1> QED BY <1>1, <1>2, <1>3, <1>4, <1>5, DropDies

LEMMA DropCrashInCheckpoint ==
  ASSUME TypeOK, TypeOK', DropInv, NEW c \in Call, CrashInCheckpoint(c)
  PROVE  DropInv' /\ DropCounted
<1>1. PICK p \in LogicalToPos(end[c]) :
        /\ cpFile' = p /\ cp' = p
        /\ \/ first' \in first..Higher(first, p.seg)
           \/ \E g \in first..active : GcTo(first, p.seg, g) /\ first' = g
  BY Zenon DEF CrashInCheckpoint
<1>2. /\ Die(stable') /\ stable' \in Nat /\ UNCHANGED <<active, base>> /\ done' = done \cup Stored(c)
  BY Zenon DEF CrashInCheckpoint, TypeOK, CheckpointDue
<1>3. TableKept /\ done \subseteq done'
  BY <1>2 DEF TableKept
<1>4. p.seg \in Nat /\ p.seg =< active /\ p.seg =< active' /\ Past(p.seg)
  BY <1>2, <1>3, TargetPast
<1>5. first =< Higher(first, p.seg) /\ Higher(first, p.seg) \in Nat /\ Higher(first, p.seg) \in {first, p.seg}
  BY <1>3, <1>4, TableGrows, HigherInt
<1>6. first' \in first..Higher(first, p.seg)
  BY <1>1, <1>3, <1>5, TableGrows DEF GcTo
<1>7. first' \in first..active
  BY <1>3, <1>4, <1>5, <1>6, TableGrows
<1> QED BY <1>1, <1>2, <1>3, <1>4, <1>6, <1>7, DropDies

(* An open cuts a torn tail, in which no frame ends, and collects behind   *)
(* the checkpoint it starts from.                                          *)
LEMMA DropOpen ==
  ASSUME TypeOK, TypeOK', DropInv, Open
  PROVE  DropInv' /\ DropCounted
<1>1. UNCHANGED <<end, done>>
  BY Zenon DEF Open, group
<1>2. TableKept /\ (spare => active' = active + 1 /\ offset' = offset) /\ (~spare => active' = active)
  BY DEF Open, TableKept
<1>3. PICK q : Starts(q)
  BY OpenStarts
<1>q. /\ q = cpFile \/ q = [seg |-> first, off |-> 0]
      /\ cp' = q /\ cpFile' = q
      /\ \E g \in first..active' : GcTo(first, q.seg, g) /\ first' = g
  BY <1>3, Zenon DEF Starts
<1>4. q.seg \in Nat /\ q.seg =< active' /\ Past(q.seg)
  <2>1. CASE q = cpFile
    BY <1>1, <1>2, <2>1, PastCheckpoints
  <2>2. CASE q = [seg |-> first, off |-> 0]
    <3>1. q.seg = first
      BY <2>2
    <3> QED BY <1>1, <1>2, <3>1, PastCheckpoints, TableGrows
  <2> QED BY <1>q, <2>1, <2>2
<1>5. first' \in first..Higher(first, q.seg) /\ first =< first' /\ first' =< active'
  <2>1. first =< Higher(first, q.seg) /\ Higher(first, q.seg) \in Nat /\ first \in Nat /\ active' \in Nat
    BY <1>2, <1>4, TableGrows, HigherInt
  <2> QED BY <1>q, <2>1 DEF GcTo
<1>6. base'[active'] =< offset' /\ \A c \in Call : end'[c] =< offset' /\ end'[c] = end[c]
  <2>1. CASE spare
    BY <1>1, <1>2, <2>1, TableGrows
  <2>2. CASE ~spare
    <3>1. PICK t \in base[active]..offset :
            /\ \A u \in (t + 1)..offset : ~Repaired(u)
            /\ offset' = t
      BY <2>2, Zenon DEF Open
    <3>2. base[active] \in Nat /\ base'[active'] = base[active] /\ t \in Nat /\ base[active] =< t
      <4>1. active' = active /\ active \in 0..active /\ active \in 0..active' /\ offset \in Nat
        BY <1>2, <2>2, TableGrows
      <4>2. base'[active] = base[active] /\ base'[active] \in Nat
        BY <1>2, <4>1, TableGrows
      <4> QED BY <3>1, <4>1, <4>2
    <3>3. ASSUME NEW c \in Call PROVE end[c] =< t
      <4>1. end[c] \in Nat /\ end[c] =< offset /\ offset \in Nat
        BY <1>2, TableGrows
      <4>2. end[c] > t => Repaired(end[c]) /\ end[c] \in (t + 1)..offset
        BY <3>2, <4>1 DEF Repaired
      <4> QED BY <3>1, <3>2, <4>1, <4>2
    <3> QED BY <1>1, <3>1, <3>2, <3>3
  <2> QED BY <2>1, <2>2
<1> QED BY <1>1, <1>2, <1>q, <1>4, <1>5, <1>6, DropKept, Collects

(* A power loss cuts frames out of a sealed segment and moves the ones     *)
(* above it, with the bases of their segments.                             *)
LEMMA DropCutSealed ==
  ASSUME TypeOK, TypeOK', DropInv, NEW s \in first..(active-1), NEW t \in 0..offset, CutSealed(s, t)
  PROVE  DropInv' /\ DropCounted
<1> DEFINE gone == base[s+1] - t
<1>1. Cuts(s, t, gone)
  BY CutMoves DEF DropInv, Ordered
<1>2. UNCHANGED <<first, active, cpFile, done>> /\ cp' = cpFile
  BY Zenon DEF CutSealed
<1>3. /\ first \in 0..active /\ first =< s /\ active \in 0..active /\ cpFile.seg \in 0..active
      /\ base'[first] = base[first] /\ base[first] \in Nat
  <2>1. /\ first \in Nat /\ active \in Nat /\ cpFile.seg \in Nat
        /\ first =< active /\ cpFile.seg =< active
    BY DEF TypeOK, DropInv, Position
  <2>2. first \in 0..active /\ first =< s
    BY <2>1
  <2> QED BY <1>1, <2>1, <2>2 DEF Cuts
<1>g. gone \in Nat /\ s < active /\ offset \in Nat
  BY <1>1, <1>3 DEF Cuts, TypeOK
<1> HIDE DEF gone
<1>4. base'[active'] =< offset' /\ \A c \in Call : end'[c] =< offset'
  <2>1. /\ base[active] \in Nat /\ t \in Nat /\ t + gone =< base[active]
        /\ base'[active] = base[active] - gone /\ offset' = offset - gone
    BY <1>1, <1>3, <1>g DEF Cuts
  <2>2. base[active] =< offset /\ \A c \in Call : end[c] =< offset
    BY DEF DropInv
  <2>3. \A c \in Call : /\ end[c] \in Nat
                        /\ \/ end'[c] = end[c] /\ end[c] =< t
                           \/ end'[c] = end[c] - gone
                           \/ end'[c] = 0
    BY <1>1 DEF Cuts
  <2> QED BY <1>2, <1>g, <2>1, <2>2, <2>3
<1>5. \A i, j \in 0..active' : i =< j => base'[i] =< base'[j]
  BY <1>1, <1>2 DEF Cuts
<1>6. Behind(cpFile.seg)'
  <2>1. \A c \in Call : base'[first] < end'[c] /\ end'[c] =< base'[cpFile.seg] => c \in done
    BY <1>1, <1>3 DEF Cuts, DropInv, Behind
  <2> QED BY <1>2, <2>1 DEF Behind
<1>7. DropInv'
  <2>1. Behind(cp.seg)'
    BY <1>2, <1>6 DEF Behind
  <2> QED BY <1>2, <1>3, <1>4, <1>5, <1>6, <2>1 DEF DropInv
<1>8. DropCounted
  BY <1>2, <1>3, TypeOK DEF DropCounted, TypeOK
<1> QED BY <1>7, <1>8

LEMMA DropNext ==
  ASSUME TypeOK, TypeOK', DropInv, [Next]_vars
  PROVE  DropInv' /\ DropCounted
<1>1. ASSUME NEW c \in Call, NEW n \in FrameSize, Append(c, n)
      PROVE  DropInv' /\ DropCounted
  BY <1>1, DropAppend
<1>2. ASSUME NEW c \in Call, NEW n \in FrameSize, AppendRoll(c, n)
      PROVE  DropInv' /\ DropCounted
  BY <1>2, DropAppendRoll
<1>3. ASSUME NEW c \in Call, NEW n \in FrameSize, AppendRollFails(c, n) \/ AppendHighWater(c, n)
      PROVE  DropInv' /\ DropCounted
  BY <1>3, DropRollRefused
<1>4. ASSUME NEW c \in Call, Checkpoint(c) \/ CheckpointReclaimFails(c)
      PROVE  DropInv' /\ DropCounted
  BY <1>4, DropCheckpoint
<1>5. ASSUME NEW c \in Call, CheckpointReclaim(c)
      PROVE  DropInv' /\ DropCounted
  BY <1>5, DropReclaim
<1>6. ASSUME NEW c \in Call, CheckpointFails(c)
      PROVE  DropInv' /\ DropCounted
  BY <1>6, DropCheckpointFails
<1>7. ASSUME NEW c \in Call, CrashInCheckpoint(c)
      PROVE  DropInv' /\ DropCounted
  BY <1>7, DropCrashInCheckpoint
<1>8. CASE Crash \/ CrashInRoll
  BY <1>8, DropCrash
<1>9. CASE Open
  BY <1>9, DropOpen
<1>10. ASSUME NEW c \in Call, AppendRefused(c) \/ WaitCommit(c) \/ Signal(c)
       PROVE  DropInv' /\ DropCounted
  <2>1. UNCHANGED <<files, cp, cpFile>> /\ done \subseteq done'
    BY <1>10, Zenon DEF AppendRefused, WaitCommit, Signal
  <2> QED BY <2>1, DropSteady
<1>11. CASE CommitterWake \/ SyncGroup \/ CommitterStop \/ FsyncTick \/ Close \/ Attach \/ UNCHANGED vars
  <2>1. UNCHANGED <<files, cp, cpFile>> /\ done \subseteq done'
    BY <1>11, Zenon DEF CommitterWake, SyncGroup, CommitterStop, FsyncTick, Close, Attach, vars
  <2> QED BY <2>1, DropSteady
<1>12. ASSUME NEW s \in first..(active-1), NEW t \in 0..offset, CutSealed(s, t)
       PROVE  DropInv' /\ DropCounted
  BY <1>12, DropCutSealed
<1> QED
  BY <1>1, <1>2, <1>3, <1>4, <1>5, <1>6, <1>7, <1>8, <1>9, <1>10, <1>11, <1>12, Zenon DEF Next

LEMMA DropInit == Init => DropInv
BY DEF Init, DropInv, Behind, Origin

(* What DropInv says of the table is what the types need of it, too.       *)
LEMMA TypeAndDrop ==
  /\ Init => TypeOK /\ DropInv
  /\ TypeOK /\ DropInv /\ [Next]_vars => TypeOK' /\ DropInv' /\ DropCounted
<1>1. TypeOK /\ DropInv /\ [Next]_vars => TypeOK'
  BY TypeNext DEF DropInv, Ordered
<1>2. TypeOK /\ DropInv /\ [Next]_vars => DropInv' /\ DropCounted
  BY <1>1, DropNext
<1> QED BY <1>1, <1>2, TypeInit, DropInit

(* Every variable keeps its type, in both sync modes and under any faults: *)
(* no power loss, however much of the sealed segments it cuts, and no      *)
(* reopening (queue.go:371) takes an offset below zero.                    *)
THEOREM TypeCorrect == Spec => []TypeOK
BY TypeAndDrop, PTL DEF Spec

(* No roll, cap, checkpoint, crash or open takes a segment away that holds *)
(* an acknowledged frame the consumer has not stored, but a drop for the   *)
(* cap of a lossy queue, which counts it (DroppedUnacked in rollLocked and *)
(* enforceCapLocked, queue.go), in both sync modes and under any faults.   *)
THEOREM DropsCounted == Spec => DropsAreCounted
<1>1. Spec => [][DropCounted]_vars
  BY TypeAndDrop, PTL DEF Spec
<1> QED BY <1>1, PTL DEF DropsAreCounted, DropCounted
=============================================================================
