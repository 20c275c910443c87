---------------------------- MODULE BufferProofs ----------------------------
(***************************************************************************)
(* For every set of requests, every chunk size, budget and fault, the      *)
(* checkpoint of the ingest path never passes an unstored event            *)
(* (CheckpointCovered), a durable 200 is never lost (AckedRecoverable), an *)
(* event has one row (StoredOnce), the byte budget counts what it should   *)
(* (BudgetExact), and the log is used as the durable FIFO of DurableLog.   *)
(***************************************************************************)
EXTENDS Buffer, SequenceTheorems, WellFoundedInduction, TLAPS

-----------------------------------------------------------------------------
(* The elements of the sequences Flush and its requeue build.              *)

LEMMA Elements ==
  ASSUME NEW S, NEW s \in Seq(S)
  PROVE  /\ \A e : e \in ToSet(s) <=> \E i \in 1..Len(s) : e = s[i]
         /\ \A e \in ToSet(s) : e \in S
         /\ ToSet(<<>>) = {}
  BY LenProperties DEF ToSet

LEMMA ElementsConcat ==
  ASSUME NEW S, NEW s \in Seq(S), NEW t \in Seq(S)
  PROVE  /\ s \o t \in Seq(S)
         /\ \A e \in ToSet(s) : e \in ToSet(s \o t)
         /\ \A e \in ToSet(t) : e \in ToSet(s \o t)
  <1>1. s \o t \in Seq(S) /\ Len(s \o t) = Len(s) + Len(t)
    BY ConcatProperties
  <1>2. \A i \in 1..Len(s) : i \in 1..Len(s \o t) /\ (s \o t)[i] = s[i]
    BY <1>1, ConcatProperties, LenProperties
  <1>3. \A i \in 1..Len(t) : Len(s) + i \in 1..Len(s \o t) /\ (s \o t)[Len(s) + i] = t[i]
    BY <1>1, ConcatProperties, LenProperties
  <1>4. \A e \in ToSet(s) : e \in ToSet(s \o t)
    <2> TAKE e \in ToSet(s)
    <2>1. PICK i \in 1..Len(s) : e = s[i]
      BY Elements
    <2> QED BY <1>1, <1>2, <2>1, Elements
  <1>5. \A e \in ToSet(t) : e \in ToSet(s \o t)
    <2> TAKE e \in ToSet(t)
    <2>1. PICK i \in 1..Len(t) : e = t[i]
      BY Elements
    <2> QED BY <1>1, <1>3, <2>1, Elements
  <1> QED BY <1>1, <1>4, <1>5

LEMMA ElementsSlice ==
  ASSUME NEW S, NEW s \in Seq(S), NEW m \in Nat, NEW n \in Nat, n =< Len(s)
  PROVE  /\ SubSeq(s, m + 1, n) \in Seq(S)
         /\ Len(SubSeq(s, m + 1, n)) = IF m < n THEN n - m ELSE 0
         /\ m >= n => SubSeq(s, m + 1, n) = <<>>
         /\ \A j \in (m+1)..n : s[j] \in ToSet(SubSeq(s, m + 1, n))
         /\ \A e \in ToSet(SubSeq(s, m + 1, n)) : \E j \in (m+1)..n : e = s[j]
         /\ m = 0 => \A i \in 1..n : SubSeq(s, m + 1, n)[i] = s[i]
  <1> DEFINE t == SubSeq(s, m + 1, n)
  <1>1. /\ t \in Seq(S)
        /\ Len(t) = IF m < n THEN n - m ELSE 0
        /\ \A i \in 1..(n-m) : t[i] = s[m+i]
    BY SubSeqProperties, LenProperties
  <1> HIDE DEF t
  <1>2. m >= n => t = <<>>
    BY <1>1, EmptySeq
  <1>3. ASSUME NEW j \in (m+1)..n  PROVE s[j] \in ToSet(t)
    <2>1. j - m \in 1..Len(t) /\ t[j-m] = s[j]
      BY <1>1
    <2> QED BY <1>1, <2>1, Elements
  <1>4. ASSUME NEW e \in ToSet(t)  PROVE \E j \in (m+1)..n : e = s[j]
    <2>1. PICK i \in 1..Len(t) : e = t[i]
      BY <1>1, Elements
    <2>2. m + i \in (m+1)..n /\ e = s[m+i]
      BY <1>1, <2>1
    <2> QED BY <2>2
  <1>5. m = 0 => \A i \in 1..n : t[i] = s[i]
    BY <1>1
  <1> QED BY <1>1, <1>2, <1>3, <1>4, <1>5, Zenon DEF t

-----------------------------------------------------------------------------
(* The inductive invariant.                                                *)

(* A flight; what its cost is does not matter here.                        *)
FlightType(f) ==
  /\ f = [x \in {"batch", "committed", "target", "cost"} |-> f[x]]
  /\ f.batch \in Seq(Event) /\ f.committed \in Nat /\ f.target \in Nat
  /\ f.committed =< Len(f.batch)

DataType ==
  /\ log \in Seq(Call) /\ stable \in Nat /\ cp \in Nat
  /\ cp =< stable /\ stable =< Len(log)
  /\ events \in Seq(Event) /\ lastOffset \in Nat
  /\ FlightType(flight)
  /\ db \in [Event -> Nat]
  /\ call \in [Call -> CallState]
  /\ cache.seen \in [CacheKey -> Seq(Seq(Event))]

(* Which parts of the state the control state rules out.                   *)
ControlShape ==
  /\ proc = "up" /\ flusher \in {"idle", "panicking"} => flight = NoFlight
  /\ flusher \in {"inserted", "released"} => Rest = <<>> /\ proc \notin {"down", "recovering"}
  /\ flusher = "released" => attached
  /\ workerErr => owner \in {"exited", "closing"} /\ flusher = "idle"
  /\ proc \in {"down", "recovering"} => /\ flusher = "idle" /\ ~attached /\ ~workerErr
                                        /\ events = <<>> /\ cache = EmptyCache
  /\ proc = "up" /\ attached => lastOffset = Len(log)
  /\ \A c \in Call : call[c] = "waiting" => attached /\ ~Lossy

(* While the worker lives, what the log holds behind the checkpoint is     *)
(* stored or in memory.                                                    *)
Held(e) == Stored(e) \/ e \in ToSet(Rest) \/ e \in ToSet(events)

MemoryCovers ==
  proc = "up" /\ attached /\ flusher # "panicking" /\ ~workerErr
    => \A i \in (cp+1)..Len(log) : \A e \in EventsOf(log[i]) : Held(e)

(* What the log holds up to the target of a flush is stored or still to be *)
(* inserted by that flush: events admitted later do not matter to it.      *)
FlightCovers ==
  proc = "up" /\ attached /\ flusher \in {"inserting", "inserted", "released"}
    => /\ flight.target =< Len(log)
       /\ \A i \in (cp+1)..flight.target : \A e \in EventsOf(log[i]) :
            Stored(e) \/ e \in ToSet(Rest)

(* A replay has stored the frames before the one it is at.                 *)
ReplayCovers ==
  proc = "recovering"
    => /\ flight.target =< Len(log) + 1
       /\ \A i \in (cp+1)..Len(log) : \A e \in EventsOf(log[i]) :
            i =< flight.target => Stored(e) \/ (i = flight.target /\ e \in ToSet(Rest))

Safe(e) == Stored(e) \/ Recoverable(e)

(* The admission cache vouches only for batches that are safe.             *)
CacheSafe ==
  attached /\ ~Lossy
    => \A k \in CacheKey : \A b \in ToSet(cache.seen[k]) : \A e \in ToSet(b) : Safe(e)

BufferInv ==
  /\ DataType /\ ControlShape
  /\ MemoryCovers /\ FlightCovers /\ ReplayCovers
  /\ CheckpointCovered /\ CacheSafe /\ AckedRecoverable

-----------------------------------------------------------------------------
(* The steps.                                                              *)

(* Steps that leave the log, the database and what is in memory alone.     *)
Quiet == UNCHANGED <<proc, attached, log, stable, cp, events, lastOffset, flight, flusher,
                     workerErr, db>>

LEMMA QuietSteps ==
  /\ \A k \in CacheKey : Expire(k) => Quiet
  /\ \A c \in Call : Check(c) \/ PushFull(c) \/ PushUnavailable(c) \/ Acknowledge(c)
                       \/ CommitFails(c) => Quiet
  /\ Stop => Quiet
  /\ StopWorker => Quiet
  /\ StopFlush => Quiet
  BY DEF Quiet, Expire, Check, PushFull, PushUnavailable, Acknowledge, CommitFails,
         Stop, StopWorker, StopFlush, disk, memory, worker

LEMMA InitInv == ASSUME BufferAssumption PROVE Init => BufferInv
  <1> SUFFICES ASSUME Init PROVE BufferInv
    OBVIOUS
  <1> USE DEF Init
  <1>1. DataType
    BY BufferAssumption, EmptySeq DEF DataType, FlightType, NoFlight, EmptyCache, CallState
  <1>2. ControlShape
    BY DEF ControlShape
  <1>3. MemoryCovers /\ FlightCovers /\ ReplayCovers
    BY EmptySeq DEF MemoryCovers, FlightCovers, ReplayCovers
  <1>4. CheckpointCovered /\ CacheSafe /\ AckedRecoverable
    <2>1. ToSet(<<>>) = {}
      BY DEF ToSet
    <2> QED BY <2>1 DEF CheckpointCovered, CacheSafe, AckedRecoverable, EmptyCache
  <1> QED BY <1>1, <1>2, <1>3, <1>4 DEF BufferInv

(* The chunk of a transaction and what it leaves of the batch.             *)
LEMMA ChunkAndRest ==
  ASSUME BufferAssumption, DataType
  PROVE  /\ Rest \in Seq(Event)
         /\ ChunkEnd \in Nat /\ ChunkEnd =< Len(flight.batch)
         /\ flight.committed =< ChunkEnd
         /\ Chunk \in Seq(Event)
         /\ \A e \in ToSet(Rest) : \/ e \in ToSet(Chunk)
                                   \/ e \in ToSet(SubSeq(flight.batch, ChunkEnd + 1, Len(flight.batch)))
  <1> DEFINE b == flight.batch
             n == flight.committed
  <1>1. b \in Seq(Event) /\ n \in Nat /\ Len(b) \in Nat /\ n =< Len(b)
    BY LenProperties DEF DataType, FlightType
  <1>2. ChunkSize \in Nat \ {0}
    BY DEF BufferAssumption
  <1>r. Rest = SubSeq(b, n + 1, Len(b))
    BY DEF Rest
  <1>c. Chunk = SubSeq(b, n + 1, ChunkEnd)
    BY DEF Chunk
  <1>e. ChunkEnd = IF Len(Rest) < ChunkSize THEN Len(b) ELSE n + ChunkSize
    BY DEF ChunkEnd
  <1> HIDE DEF b, n
  <1>3. /\ Rest \in Seq(Event)
        /\ Len(Rest) = Len(b) - n
        /\ \A e \in ToSet(Rest) : \E j \in (n+1)..Len(b) : e = b[j]
    <2>1. Len(b) =< Len(b)
      BY <1>1
    <2>2. PICK k \in Nat : k = Len(b)
      BY <1>1
    <2>k. k =< Len(b)
      BY <1>1, <2>2
    <2>3. /\ SubSeq(b, n + 1, k) \in Seq(Event)
          /\ Len(SubSeq(b, n + 1, k)) = (IF n < k THEN k - n ELSE 0)
          /\ \A e \in ToSet(SubSeq(b, n + 1, k)) : \E j \in (n+1)..k : e = b[j]
      <3>1. b \in Seq(Event) /\ n \in Nat
        BY <1>1
      <3> HIDE DEF b, n
      <3> QED BY ONLY <3>1, <2>k, k \in Nat, ElementsSlice, Zenon
    <2> QED BY <1>1, <1>r, <2>2, <2>3
  <1>4. ChunkEnd \in Nat /\ n =< ChunkEnd /\ ChunkEnd =< Len(b)
    BY <1>1, <1>2, <1>3, <1>e
  <1>5. Chunk \in Seq(Event) /\ \A j \in (n+1)..ChunkEnd : b[j] \in ToSet(Chunk)
    BY <1>1, <1>4, <1>c, ElementsSlice
  <1>6. \A j \in (ChunkEnd+1)..Len(b) : b[j] \in ToSet(SubSeq(b, ChunkEnd + 1, Len(b)))
    <2>1. Len(b) =< Len(b)
      BY <1>1
    <2> QED BY <1>1, <1>4, <2>1, ElementsSlice, Zenon
  <1>7. ASSUME NEW e \in ToSet(Rest)
        PROVE  e \in ToSet(Chunk) \/ e \in ToSet(SubSeq(b, ChunkEnd + 1, Len(b)))
    <2>1. PICK j \in (n+1)..Len(b) : e = b[j]
      BY <1>3
    <2> QED BY <1>1, <1>4, <1>5, <1>6, <2>1
  <1> QED BY <1>3, <1>4, <1>5, <1>7 DEF b, n

(* An insert stores its chunk and forgets nothing.                         *)
LEMMA InsertStores ==
  ASSUME BufferAssumption, DataType, NEW found \in BOOLEAN, db' = Inserted(found)
  PROVE  /\ db' \in [Event -> Nat]
         /\ \A e \in Event : db[e] > 0 => db'[e] > 0
         /\ \A e \in ToSet(Chunk) : db'[e] > 0
  <1>1. \A e \in ToSet(Chunk) : e \in Event
    BY ChunkAndRest, Elements
  <1>2. db \in [Event -> Nat]
    BY DEF DataType
  <1> QED BY <1>1, <1>2 DEF Inserted

LEMMA LogCalls ==
  ASSUME BufferAssumption, DataType
  PROVE  /\ Len(log) \in Nat
         /\ \A i \in 1..Len(log) : log[i] \in Call
         /\ \A c \in Call : Batch[c] \in Seq(Event) /\ Len(Batch[c]) \in Nat
         /\ \A c \in Call : \A e \in EventsOf(c) : e \in Event
  <1>1. log \in Seq(Call)
    BY DEF DataType
  <1>2. \A c \in Call : Batch[c] \in Seq(Event)
    BY DEF BufferAssumption
  <1>3. \A c \in Call : \A e \in EventsOf(c) : e \in Event
    BY <1>2, Elements DEF EventsOf
  <1> QED BY <1>1, <1>2, <1>3, LenProperties

(* Recording a batch keeps the types of the cache and adds that batch only. *)
LEMMA RecordSeen ==
  ASSUME BufferAssumption, DataType, NEW c \in Call, Record(c)
  PROVE  /\ cache'.seen \in [CacheKey -> Seq(Seq(Event))]
         /\ \A k \in CacheKey : \A d \in ToSet(cache'.seen[k]) :
              d = Batch[c] \/ d \in ToSet(cache.seen[k])
  <1> DEFINE k == Key[c]
             d == Batch[c]
  <1>1. Batch[c] \in Seq(Event) /\ MaxDigestsPerKey \in Nat
    BY DEF BufferAssumption
  <1>2. cache.seen \in [CacheKey -> Seq(Seq(Event))]
    BY DEF DataType
  <1>3. CASE k = NoKey
    BY <1>2, <1>3 DEF Record
  <1>4. CASE k # NoKey
    <2>1. k \in CacheKey
      BY <1>4 DEF BufferAssumption
    <2>2. PICK old \in Seq(Seq(Event)) : old = cache.seen[k]
      BY <1>2, <2>1
    <2> DEFINE all == <<d>> \o old
               n == IF Len(all) < MaxDigestsPerKey THEN Len(all) ELSE MaxDigestsPerKey
    <2>3. <<d>> \in Seq(Seq(Event)) /\ Len(<<d>>) = 1 /\ <<d>>[1] = d
      BY <1>1
    <2>4. /\ all \in Seq(Seq(Event)) /\ Len(all) = 1 + Len(old)
          /\ \A i \in 1..Len(all) : all[i] = IF i =< 1 THEN d ELSE old[i - 1]
      BY <2>3, ConcatProperties
    <2>5. n \in Nat /\ n =< Len(all)
      BY <1>1, <2>4, LenProperties
    <2> HIDE DEF all, n
    <2>6. /\ SubSeq(all, 1, n) \in Seq(Seq(Event)) /\ Len(SubSeq(all, 1, n)) = n
          /\ \A i \in 1..n : SubSeq(all, 1, n)[i] = all[i]
      BY <2>4, <2>5
    <2>7. \A x \in ToSet(SubSeq(all, 1, n)) : x = d \/ x \in ToSet(old)
      <3> TAKE x \in ToSet(SubSeq(all, 1, n))
      <3> DEFINE t == SubSeq(all, 1, n)
      <3>0. t \in Seq(Seq(Event)) /\ Len(t) = n /\ x \in ToSet(t)
        BY <2>6
      <3> HIDE DEF t
      <3>p. PICK i \in 1..n : x = t[i]
        BY <3>0, Elements
      <3>1. x = all[i] /\ i \in 1..Len(all)
        BY <2>4, <2>5, <2>6, <3>p, LenProperties DEF t
      <3>2. Len(old) \in Nat
        BY <2>2, LenProperties
      <3>3. CASE i > 1
        <4>1. i - 1 \in 1..Len(old)
          BY <2>4, <3>1, <3>2, <3>3
        <4>2. x = old[i - 1]
          BY <2>4, <3>1, <3>2, <3>3, SMTT(20)
        <4> QED BY <2>2, <4>1, <4>2, Elements
      <3> QED BY <2>4, <3>1, <3>2, <3>3
    <2>8. /\ Digests(k, d) \in Seq(Seq(Event))
          /\ \A x \in ToSet(Digests(k, d)) : x = d \/ x \in ToSet(old)
      BY <2>2, <2>6, <2>7, Zenon DEF Digests, all, n
    <2>9. cache'.seen = [x \in CacheKey |-> IF x = k THEN Digests(k, d)
                                            ELSE IF x \in Evicted(k) THEN <<>>
                                            ELSE cache.seen[x]]
      BY <1>4 DEF Record
    <2> QED BY <1>2, <2>1, <2>2, <2>8, <2>9, EmptySeq, Elements
  <1> QED BY <1>3, <1>4

(* The call and the cache change in these steps and hardly anywhere else.  *)
LEMMA Answers ==
  ASSUME BufferAssumption, DataType, ControlShape, NEW c \in Call
  PROVE  /\ Check(c) \/ PushFull(c) \/ PushUnavailable(c) \/ CommitFails(c)
              => cache' = cache /\ call' \in [Call -> CallState]
         /\ Acknowledge(c) \/ Push(c) \/ PushMemoryOnly(c)
              => /\ cache'.seen \in [CacheKey -> Seq(Seq(Event))]
                 /\ call' \in [Call -> CallState]
  <1>1. call \in [Call -> CallState]
    BY DEF DataType
  <1>2. Granted \in CallState
    BY DEF Granted, CallState
  <1>3. Check(c) \/ PushFull(c) \/ PushUnavailable(c) \/ CommitFails(c)
          => cache' = cache /\ call' \in [Call -> CallState]
    BY <1>1, <1>2 DEF Check, PushFull, PushUnavailable, CommitFails, Reply, CallState
  <1>4. Acknowledge(c) => call' \in [Call -> CallState] /\ Record(c)
    BY <1>1 DEF Acknowledge, Reply, CallState
  <1>5. PushMemoryOnly(c) => call' \in [Call -> CallState] /\ Record(c)
    BY <1>1 DEF PushMemoryOnly, Reply, CallState
  <1>6. Push(c) => call' \in [Call -> CallState] /\ (Record(c) \/ cache' = cache)
    BY <1>1 DEF Push, Reply, CallState
  <1>7. Record(c) => cache'.seen \in [CacheKey -> Seq(Seq(Event))]
    BY RecordSeen
  <1>8. cache.seen \in [CacheKey -> Seq(Seq(Event))]
    BY DEF DataType
  <1> QED BY <1>3, <1>4, <1>5, <1>6, <1>7, <1>8

LEMMA DataTypeStep ==
  ASSUME BufferAssumption, BufferInv, [Next]_vars
  PROVE  DataType'
  <1> USE BufferAssumption
  <1>t. DataType /\ ControlShape /\ FlightCovers /\ ReplayCovers
    BY DEF BufferInv
  <1>l. /\ log \in Seq(Call) /\ Len(log) \in Nat
        /\ \A c \in Call : Batch[c] \in Seq(Event) /\ Len(Batch[c]) \in Nat
        /\ \A i \in 1..Len(log) : log[i] \in Call
    BY <1>t, LogCalls DEF DataType
  <1>n. FlightType(NoFlight)
    BY EmptySeq DEF NoFlight, FlightType
  <1>r. ASSUME NEW i \in Nat \ {0} PROVE FlightType(Replay(i))
    <2>1. CASE i =< Len(log)
      BY <1>l, <2>1 DEF Replay, FlightType
    <2>2. CASE ~(i =< Len(log))
      BY <2>2, EmptySeq DEF Replay, FlightType, NoFlight
    <2> QED BY <2>1, <2>2
  <1>e. <<>> \in Seq(Event)
    BY EmptySeq
  <1>q. ASSUME Quiet, cache'.seen \in [CacheKey -> Seq(Seq(Event))], call' \in [Call -> CallState]
        PROVE  DataType'
    BY <1>t, <1>q DEF DataType, Quiet, disk
  <1>1. ASSUME NEW k \in CacheKey, Expire(k) PROVE DataType'
    <2>1. cache'.seen = cache.seen /\ call' = call
      BY <1>1 DEF Expire
    <2> QED BY <1>q, <1>1, <1>t, <2>1, QuietSteps DEF DataType
  <1>2. ASSUME NEW c \in Call, Check(c) \/ PushFull(c) \/ PushUnavailable(c) \/ Acknowledge(c)
                              \/ CommitFails(c)
        PROVE  DataType'
    <2>1. cache.seen \in [CacheKey -> Seq(Seq(Event))]
      BY <1>t DEF DataType
    <2> QED BY <1>q, <1>2, <1>t, <2>1, QuietSteps, Answers
  <1>3. ASSUME Stop \/ StopWorker \/ StopFlush \/ UNCHANGED vars PROVE DataType'
    BY <1>t, <1>3 DEF DataType, Stop, StopWorker, StopFlush, vars, disk, memory, worker
  <1>4. ASSUME NEW c \in Call, Push(c) PROVE DataType'
    <2>1. log' \in Seq(Call) /\ Len(log') = Len(log) + 1 /\ lastOffset' \in Nat
      BY <1>4, <1>l DEF Push
    <2>2. events' \in Seq(Event)
      BY <1>4, <1>t, <1>l, ConcatProperties DEF Push, Buffered, DataType
    <2>3. cache'.seen \in [CacheKey -> Seq(Seq(Event))] /\ call' \in [Call -> CallState]
      BY <1>4, <1>t, Answers
    <2>4. UNCHANGED <<stable, cp, flight, db>>
      BY <1>4 DEF Push, worker
    <2>5. stable' =< Len(log')
      BY <1>t, <1>l, <2>1, <2>4 DEF DataType
    <2>6. FlightType(flight)'
      BY <1>t, <2>4 DEF DataType, FlightType
    <2> QED BY <1>t, <2>1, <2>2, <2>3, <2>4, <2>5, <2>6 DEF DataType
  <1>5. ASSUME NEW c \in Call, PushMemoryOnly(c) PROVE DataType'
    <2>1. events' \in Seq(Event)
      BY <1>5, <1>t, <1>l, ConcatProperties DEF PushMemoryOnly, Buffered, DataType
    <2>2. cache'.seen \in [CacheKey -> Seq(Seq(Event))] /\ call' \in [Call -> CallState]
      BY <1>5, <1>t, Answers
    <2>3. UNCHANGED <<log, stable, cp, lastOffset, flight, db>>
      BY <1>5 DEF PushMemoryOnly, worker, disk
    <2> QED BY <1>t, <2>1, <2>2, <2>3 DEF DataType
  <1>6. ASSUME Sync \/ StopClose PROVE DataType'
    BY <1>t, <1>l, <1>6, SMTT(20) DEF DataType, Sync, StopClose, memory, worker
  <1>7. ASSUME Detach PROVE DataType'
    <2>1. FlightType(flight')
      BY <1>t, <1>7, LenProperties DEF DataType, Detach, FlightType
    <2> QED BY <1>t, <1>e, <1>7, <2>1 DEF DataType, Detach, disk
  <1>8. ASSUME NEW found \in Found, InsertChunk(found) PROVE DataType'
    <2>1. db' \in [Event -> Nat]
      BY <1>8, <1>t, InsertStores DEF InsertChunk, Found
    <2>2. ChunkEnd \in Nat /\ ChunkEnd =< Len(flight.batch)
      BY <1>t, ChunkAndRest
    <2>3. FlightType(flight')
      BY <1>t, <1>8, <2>2 DEF InsertChunk, DataType, FlightType
    <2> QED BY <1>t, <1>8, <2>1, <2>3 DEF DataType, InsertChunk, disk, memory
  <1>9. ASSUME TxFails PROVE db' \in [Event -> Nat]
    BY <1>t, <1>9, InsertStores DEF TxFails, Found, DataType
  <1>10. ASSUME InsertFails PROVE DataType'
    <2>1. events' \in Seq(Event)
      BY <1>t, <1>10, ChunkAndRest, ConcatProperties DEF InsertFails, Requeue, DataType
    <2> QED BY <1>t, <1>n, <1>9, <1>10, <2>1 DEF DataType, InsertFails, disk
  <1>11. ASSUME Release PROVE DataType'
    BY <1>t, <1>n, <1>11 DEF DataType, Release, disk
  <1>12. ASSUME Checkpoint PROVE DataType'
    <2>1. proc = "up" /\ flusher = "released" /\ flight' = NoFlight
          /\ UNCHANGED <<log, events, lastOffset, call, cache, db>>
      BY <1>12 DEF Checkpoint, memory
    <2>2. flight.target \in Nat /\ cp \in Nat /\ stable \in Nat /\ flight.target =< Len(log)
      BY <1>t, <2>1 DEF DataType, FlightType, FlightCovers, ControlShape
    <2>3. stable' \in Nat /\ cp' \in Nat /\ cp' =< stable' /\ stable' =< Len(log)
      <3>1. CASE UNCHANGED <<stable, cp>>
        BY <1>t, <3>1 DEF DataType
      <3>2. CASE stable' = Len(log) /\ cp' = flight.target
        BY <1>l, <2>2, <3>2
      <3>3. CASE stable' = Len(log) /\ UNCHANGED cp
        BY <1>t, <1>l, <3>3 DEF DataType
      <3> QED BY <1>12, <1>l, <2>2, <3>1, <3>2, <3>3 DEF Checkpoint, CheckpointTarget
    <2> QED BY <1>t, <1>n, <2>1, <2>3 DEF DataType
  <1>13. ASSUME Panic \/ LatchWorkerErr PROVE DataType'
    BY <1>t, <1>n, <1>13 DEF DataType, Panic, LatchWorkerErr, disk, memory
  <1>14. ASSUME Crash PROVE DataType'
    <2>1. PICK n \in stable..Len(log) : log' = SubSeq(log, 1, n)
      BY <1>14 DEF Crash
    <2>2. n \in 0..Len(log) /\ stable =< n
      BY <1>t, <1>l, <2>1 DEF DataType
    <2>3. log' \in Seq(Call) /\ Len(log') = n
      BY <1>l, <2>1, <2>2
    <2>4. call' \in [Call -> CallState]
      BY <1>t, <1>14 DEF Crash, DataType, CallState
    <2>5. cache'.seen \in [CacheKey -> Seq(Seq(Event))]
      BY <1>14, EmptySeq DEF Crash, EmptyCache
    <2> QED BY <1>t, <1>n, <1>e, <1>14, <2>2, <2>3, <2>4, <2>5 DEF Crash, DataType
  <1>15. ASSUME OpenQueue PROVE DataType'
    <2>1. cp + 1 \in Nat \ {0}
      BY <1>t DEF DataType
    <2>2. FlightType(flight')
      BY <1>r, <1>15, <2>1 DEF OpenQueue
    <2> QED BY <1>t, <1>15, <2>2 DEF DataType, OpenQueue, disk, memory
  <1>16. ASSUME ReplayNext PROVE DataType'
    <2>1. flight.target + 1 \in Nat \ {0}
      BY <1>t DEF DataType, FlightType
    <2>2. FlightType(flight')
      BY <1>r, <1>16, <2>1 DEF ReplayNext
    <2> QED BY <1>t, <1>16, <2>2 DEF DataType, ReplayNext, disk, memory
  <1>17. ASSUME Attach PROVE DataType'
    BY <1>t, <1>l, <1>n, <1>17 DEF DataType, Attach
  <1>18. ASSUME OpenFails PROVE DataType'
    BY <1>t, <1>n, <1>18 DEF DataType, OpenFails, StartDegraded, memory
  <1>19. ASSUME ReplayFails PROVE DataType'
    BY <1>t, <1>n, <1>9, <1>19 DEF DataType, ReplayFails, StartDegraded, memory
  <1>20. ASSUME AttachFails PROVE DataType'
    BY <1>t, <1>l, <1>n, <1>20, SMTT(20) DEF DataType, AttachFails, StartDegraded, memory
  <1> QED BY <1>1, <1>2, <1>3, <1>4, <1>5, <1>6, <1>7, <1>8, <1>10, <1>11, <1>12, <1>13, <1>14,
             <1>15, <1>16, <1>17, <1>18, <1>19, <1>20 DEF Next

-----------------------------------------------------------------------------
(* What no step does: forget a stored event, cut the log below its stable  *)
(* prefix, or move the checkpoint over an event that is not stored.        *)
LogKept ==
  /\ \A e \in Event : Stored(e) => Stored(e)'
  /\ cp =< cp' /\ stable =< stable'
  /\ \A i \in 1..stable : log'[i] = log[i]
  /\ \A i \in (cp+1)..cp' : \A e \in EventsOf(log'[i]) : Stored(e)'

LEMMA KeptStep ==
  ASSUME BufferAssumption, BufferInv, [Next]_vars
  PROVE  LogKept
  <1> USE BufferAssumption
  <1>t. DataType /\ ControlShape /\ FlightCovers /\ ReplayCovers
    BY DEF BufferInv
  <1>l. /\ log \in Seq(Call) /\ Len(log) \in Nat
        /\ stable \in Nat /\ cp \in Nat /\ cp =< stable /\ stable =< Len(log)
        /\ \A c \in Call : \A e \in EventsOf(c) : e \in Event
        /\ \A i \in 1..Len(log) : log[i] \in Call
    BY <1>t, LogCalls DEF DataType
  <1>s. ASSUME UNCHANGED <<log, stable, cp>>, \A e \in Event : db[e] > 0 => db'[e] > 0
        PROVE  LogKept
    BY <1>l, <1>s DEF LogKept, Stored, disk
  <1>u. ASSUME UNCHANGED <<log, stable, cp>>, UNCHANGED db
        PROVE  LogKept
    BY <1>s, <1>u
  <1>1. ASSUME Quiet \/ UNCHANGED vars PROVE LogKept
    BY <1>u, <1>1 DEF Quiet, vars, disk
  <1>2. ASSUME NEW c \in Call, Push(c) PROVE LogKept
    <2>1. \A i \in 1..stable : log'[i] = log[i]
      BY <1>l, <1>2 DEF Push
    <2> QED BY <1>l, <1>2, <2>1 DEF Push, LogKept, Stored
  <1>3. ASSUME NEW c \in Call, PushMemoryOnly(c) PROVE LogKept
    BY <1>u, <1>3 DEF PushMemoryOnly, disk
  <1>4. ASSUME Detach \/ Release \/ Panic \/ LatchWorkerErr \/ OpenQueue \/ ReplayNext PROVE LogKept
    BY <1>u, <1>4 DEF Detach, Release, Panic, LatchWorkerErr, OpenQueue, ReplayNext, disk
  <1>5. ASSUME Sync \/ StopClose PROVE LogKept
    BY <1>l, <1>5 DEF Sync, StopClose, LogKept, Stored
  <1>6. ASSUME NEW found \in Found, InsertChunk(found) PROVE LogKept
    <2>1. \A e \in Event : db[e] > 0 => db'[e] > 0
      BY <1>t, <1>6, InsertStores DEF InsertChunk, Found
    <2> QED BY <1>s, <1>6, <2>1 DEF InsertChunk, disk
  <1>7. ASSUME TxFails PROVE \A e \in Event : db[e] > 0 => db'[e] > 0
    BY <1>t, <1>7, InsertStores DEF TxFails, Found
  <1>8. ASSUME InsertFails PROVE LogKept
    BY <1>s, <1>7, <1>8 DEF InsertFails, disk
  <1>9. ASSUME Checkpoint PROVE LogKept
    <2>1. proc = "up" /\ flusher = "released" /\ UNCHANGED <<log, db>>
      BY <1>9 DEF Checkpoint
    <2>2. attached /\ Rest = <<>>
      BY <1>t, <2>1 DEF ControlShape
    <2>3. /\ flight.target =< Len(log)
          /\ \A i \in (cp+1)..flight.target : \A e \in EventsOf(log[i]) : Stored(e)
      BY <1>t, <2>1, <2>2, Elements, EmptySeq DEF FlightCovers
    <2>4. flight.target \in Nat
      BY <1>t DEF DataType, FlightType
    <2>5. CASE cp' = cp /\ stable' \in {stable, Len(log)}
      BY <1>l, <2>1, <2>5 DEF LogKept, Stored
    <2>6. CASE cp' = flight.target /\ cp' > cp /\ stable' = Len(log)
      BY <1>l, <2>1, <2>3, <2>4, <2>6 DEF LogKept, Stored
    <2> QED BY <1>9, <2>5, <2>6 DEF Checkpoint, CheckpointTarget
  <1>10. ASSUME Crash PROVE LogKept
    <2>1. PICK n \in stable..Len(log) : log' = SubSeq(log, 1, n)
      BY <1>10 DEF Crash
    <2>2. n \in 0..Len(log) /\ stable =< n
      BY <1>l, <2>1
    <2>3. \A i \in 1..n : log'[i] = log[i]
      BY <1>l, <2>1, <2>2, SMTT(20)
    <2> QED BY <1>l, <1>10, <2>2, <2>3 DEF Crash, LogKept, Stored
  <1>11. ASSUME proc = "recovering", flight.target > Len(log)
         PROVE  \A i \in (cp+1)..Len(log) : \A e \in EventsOf(log[i]) : Stored(e)
    <2>1. flight.target \in Nat
      BY <1>t DEF DataType, FlightType
    <2>2. \A i \in (cp+1)..Len(log) : i =< flight.target /\ i # flight.target
      BY <1>l, <1>11, <2>1
    <2>3. \A i \in (cp+1)..Len(log) : \A e \in EventsOf(log[i]) :
            i =< flight.target => Stored(e) \/ (i = flight.target /\ e \in ToSet(Rest))
      BY <1>t, <1>11, Zenon DEF ReplayCovers
    <2> QED BY <2>2, <2>3, Zenon
  <1>12. ASSUME Attach PROVE LogKept
    BY <1>l, <1>11, <1>12 DEF Attach, LogKept, Stored
  <1>13. ASSUME OpenFails PROVE LogKept
    BY <1>u, <1>13 DEF OpenFails, StartDegraded, disk
  <1>14. ASSUME ReplayFails PROVE LogKept
    BY <1>s, <1>7, <1>14 DEF ReplayFails, StartDegraded, disk
  <1>15. ASSUME AttachFails PROVE LogKept
    BY <1>l, <1>11, <1>15 DEF AttachFails, StartDegraded, LogKept, Stored
  <1> QED BY <1>1, <1>2, <1>3, <1>4, <1>5, <1>6, <1>8, <1>9, <1>10, <1>12, <1>13, <1>14, <1>15,
             QuietSteps DEF Next

(* A step that keeps the log keeps what is safe safe.                      *)
LEMMA KeptSafe ==
  ASSUME BufferAssumption, DataType, DataType', CheckpointCovered, LogKept
  PROVE  /\ CheckpointCovered'
         /\ \A e \in Event : Safe(e) => Safe(e)'
  <1>l. /\ Len(log) \in Nat /\ stable \in Nat /\ cp \in Nat /\ cp =< stable /\ stable =< Len(log)
        /\ cp' \in Nat /\ stable' \in Nat
        /\ \A c \in Call : \A e \in EventsOf(c) : e \in Event
        /\ \A i \in 1..Len(log) : log[i] \in Call
    BY LogCalls DEF DataType
  <1>1. CheckpointCovered'
    <2> SUFFICES ASSUME NEW i \in 1..cp', NEW e \in EventsOf(log'[i]) PROVE Stored(e)'
      BY DEF CheckpointCovered
    <2>1. CASE i \in 1..cp
      <3>1. log'[i] = log[i] /\ log[i] \in Call
        BY <1>l, <2>1 DEF LogKept
      <3> QED BY <1>l, <2>1, <3>1 DEF CheckpointCovered, LogKept
    <2>2. CASE i \in (cp+1)..cp'
      BY <2>2 DEF LogKept
    <2> QED BY <1>l, <2>1, <2>2
  <1>2. ASSUME NEW e \in Event, Safe(e) PROVE Safe(e)'
    <2>1. CASE Stored(e)
      BY <2>1 DEF LogKept, Safe
    <2>2. CASE Recoverable(e)
      <3>1. PICK i \in (cp+1)..stable : e \in EventsOf(log[i])
        BY <2>2 DEF Recoverable
      <3>2. i \in 1..stable' /\ e \in EventsOf(log'[i])
        BY <1>l, <3>1 DEF LogKept
      <3>3. CASE i \in (cp+1)..cp'
        BY <3>2, <3>3 DEF LogKept, Safe
      <3>4. CASE i \in (cp'+1)..stable'
        <4>1. \E j \in (cp'+1)..stable' : e \in ToSet(Batch[log'[j]])
          BY <3>2, <3>4 DEF EventsOf
        <4>2. Recoverable(e)'
          BY <4>1, Zenon DEF Recoverable, EventsOf
        <4> QED BY <4>2, Zenon DEF Safe
      <3>5. i \in (cp+1)..cp' \/ i \in (cp'+1)..stable'
        <4>1. i \in Int /\ cp + 1 =< i /\ i =< stable'
          BY <1>l, <3>1, <3>2
        <4>2. PICK q \in Nat, r \in Nat : q = cp' /\ r = stable'
          BY <1>l
        <4>3. i =< r /\ cp \in Nat
          BY <1>l, <4>1, <4>2
        <4>4. i \in (cp+1)..q \/ i \in (q+1)..r
          BY ONLY <4>1, <4>3, q \in Nat, r \in Nat
        <4> QED BY <4>2, <4>4
      <3> QED BY <3>3, <3>4, <3>5
    <2> QED BY <1>2, <2>1, <2>2 DEF Safe
  <1> QED BY <1>1, <1>2

(* Nothing is left of a batch once all of it is committed.                 *)
LEMMA RestOf ==
  /\ flight' = NoFlight => Rest' = <<>>
  /\ flight = NoFlight => Rest = <<>>
  /\ \A b \in Seq(Event) : flight'.batch = b /\ flight'.committed = 0 => Rest' = b
  <1>2. flight' = NoFlight => Rest' = <<>>
    BY SubSeqEmpty DEF Rest, NoFlight
  <1>3. flight = NoFlight => Rest = <<>>
    BY SubSeqEmpty DEF Rest, NoFlight
  <1>4. ASSUME NEW b \in Seq(Event), flight'.batch = b, flight'.committed = 0
        PROVE  Rest' = b
    <2>1. SubSeq(b, 1, Len(b)) = b
      BY SubSeqFull
    <2> QED BY <1>4, <2>1 DEF Rest
  <1> QED BY <1>2, <1>3, <1>4

LEMMA ControlStep ==
  ASSUME BufferAssumption, BufferInv, [Next]_vars
  PROVE  ControlShape'
  <1> USE BufferAssumption
  <1>t. DataType /\ ControlShape
    BY DEF BufferInv
  <1>l. log \in Seq(Call) /\ Len(log) \in Nat
    BY <1>t, LogCalls DEF DataType
  <1>r. UNCHANGED flight => Rest' = Rest
    BY DEF Rest
  <1>c. call \in [Call -> CallState]
    BY <1>t DEF DataType
  <1>1. ASSUME NEW k \in CacheKey, Expire(k) PROVE ControlShape'
    BY <1>t, <1>r, <1>1 DEF ControlShape, Expire, disk, memory, worker, EmptyCache
  <1>2. ASSUME NEW c \in Call, Check(c) \/ PushFull(c) \/ PushUnavailable(c) \/ CommitFails(c)
        PROVE  ControlShape'
    <2>1. /\ UNCHANGED <<proc, attached, log, events, lastOffset, flight, flusher, owner, workerErr, cache>>
          /\ \A d \in Call : call'[d] = "waiting" => call[d] = "waiting"
      BY <1>2, <1>c DEF Check, PushFull, PushUnavailable, CommitFails, Reply, Granted, disk, memory, worker
    <2> QED BY <1>t, <1>r, <2>1 DEF ControlShape
  <1>3. ASSUME NEW c \in Call, Acknowledge(c) PROVE ControlShape'
    <2>1. /\ UNCHANGED <<proc, attached, log, events, lastOffset, flight, flusher, owner, workerErr>>
          /\ proc \notin {"down", "recovering"}
          /\ \A d \in Call : call'[d] = "waiting" => call[d] = "waiting"
      BY <1>3, <1>c DEF Acknowledge, Reply, disk, memory, worker
    <2> QED BY <1>t, <1>r, <2>1 DEF ControlShape
  <1>4. ASSUME NEW c \in Call, Push(c) PROVE ControlShape'
    <2>1. /\ UNCHANGED <<proc, attached, flight, flusher, owner, workerErr>>
          /\ proc = "up" /\ attached
          /\ \A d \in Call : call'[d] = "waiting" => call[d] = "waiting" \/ ~Lossy
          /\ lastOffset' = Len(log')
      BY <1>4, <1>c, <1>l DEF Push, Reply, worker
    <2> QED BY <1>t, <1>r, <2>1 DEF ControlShape
  <1>5. ASSUME NEW c \in Call, PushMemoryOnly(c) PROVE ControlShape'
    <2>1. /\ UNCHANGED <<proc, attached, log, lastOffset, flight, flusher, owner, workerErr>>
          /\ proc = "up"
          /\ \A d \in Call : call'[d] = "waiting" => call[d] = "waiting"
      BY <1>5, <1>c DEF PushMemoryOnly, Reply, disk, worker
    <2> QED BY <1>t, <1>r, <2>1 DEF ControlShape
  <1>6. ASSUME Stop \/ Sync \/ StopClose \/ UNCHANGED vars PROVE ControlShape'
    BY <1>t, <1>r, <1>6 DEF ControlShape, Stop, Sync, StopClose, vars, disk, memory, worker
  <1>7. ASSUME StopWorker \/ StopFlush PROVE ControlShape'
    BY <1>t, <1>r, <1>7 DEF ControlShape, StopWorker, StopFlush, SkipLastFlush, disk, memory, worker
  <1>8. ASSUME Detach PROVE ControlShape'
    BY <1>t, <1>8 DEF ControlShape, Detach, disk
  <1>9. ASSUME NEW found \in Found, InsertChunk(found) PROVE ControlShape'
    <2>1. /\ UNCHANGED <<proc, attached, log, events, lastOffset, owner, workerErr, call, cache>>
          /\ flight' = [flight EXCEPT !.committed = ChunkEnd]
      BY <1>9 DEF InsertChunk, disk, memory
    <2>2. CASE proc = "recovering"
      BY <1>t, <1>9, <2>1, <2>2 DEF ControlShape, InsertChunk
    <2>3. CASE proc = "up" /\ flusher = "inserting" /\ ChunkEnd # Len(flight.batch)
      BY <1>t, <1>9, <2>1, <2>3 DEF ControlShape, InsertChunk
    <2>4. CASE proc = "up" /\ flusher = "inserting" /\ ChunkEnd = Len(flight.batch)
      <3>1. flight'.batch = flight.batch /\ flight'.committed = Len(flight.batch)
            /\ Len(flight.batch) \in Nat
        BY <1>t, <2>1, <2>4, LenProperties DEF DataType, FlightType
      <3>2. Rest' = <<>>
        BY <3>1, SubSeqEmpty DEF Rest
      <3> QED BY <1>t, <1>9, <2>1, <2>4, <3>2 DEF ControlShape, InsertChunk
    <2> QED BY <1>9, <2>2, <2>3, <2>4 DEF InsertChunk, Inserting
  <1>10. ASSUME InsertFails PROVE ControlShape'
    BY <1>t, <1>10 DEF ControlShape, InsertFails, Returned, disk
  <1>11. ASSUME Release PROVE ControlShape'
    BY <1>t, <1>r, <1>11 DEF ControlShape, Release, Returned, disk
  <1>12. ASSUME Checkpoint PROVE ControlShape'
    BY <1>t, <1>12 DEF ControlShape, Checkpoint, Returned, memory
  <1>13. ASSUME Panic \/ LatchWorkerErr PROVE ControlShape'
    BY <1>t, <1>13 DEF ControlShape, Panic, LatchWorkerErr, disk, memory
  <1>14. ASSUME Crash PROVE ControlShape'
    BY <1>t, <1>c, <1>14 DEF ControlShape, Crash
  <1>15. ASSUME OpenQueue \/ ReplayNext PROVE ControlShape'
    BY <1>t, <1>15 DEF ControlShape, OpenQueue, ReplayNext, disk, memory
  <1>16. ASSUME Attach PROVE ControlShape'
    BY <1>t, <1>16 DEF ControlShape, Attach
  <1>17. ASSUME OpenFails \/ ReplayFails \/ AttachFails PROVE ControlShape'
    BY <1>t, <1>17 DEF ControlShape, OpenFails, ReplayFails, AttachFails, StartDegraded, memory
  <1> QED BY <1>1, <1>2, <1>3, <1>4, <1>5, <1>6, <1>7, <1>8, <1>9, <1>10, <1>11, <1>12, <1>13,
             <1>14, <1>15, <1>16, <1>17 DEF Next

(* What an insert transaction does to a batch in memory: what it does not  *)
(* store is still to be inserted.                                          *)
LEMMA InsertLeaves ==
  ASSUME BufferAssumption, DataType, NEW found \in Found, InsertChunk(found)
  PROVE  \A e \in Event : Stored(e) \/ e \in ToSet(Rest) => Stored(e)' \/ e \in ToSet(Rest')
  <1>1. /\ \A e \in Event : db[e] > 0 => db'[e] > 0
        /\ \A e \in ToSet(Chunk) : db'[e] > 0
    BY InsertStores DEF InsertChunk, Found
  <1>2. Rest' = SubSeq(flight.batch, ChunkEnd + 1, Len(flight.batch))
    <2>1. flight' = [flight EXCEPT !.committed = ChunkEnd]
      BY DEF InsertChunk
    <2>2. flight'.batch = flight.batch /\ flight'.committed = ChunkEnd
      BY <2>1 DEF DataType, FlightType
    <2> QED BY <2>2 DEF Rest
  <1>3. \A e \in ToSet(Rest) : e \in ToSet(Chunk) \/ e \in ToSet(Rest')
    BY <1>2, ChunkAndRest
  <1> QED BY <1>1, <1>3 DEF Stored

LEMMA MemoryStep ==
  ASSUME BufferAssumption, BufferInv, [Next]_vars
  PROVE  MemoryCovers'
  <1> USE BufferAssumption
  <1>t. DataType /\ ControlShape /\ MemoryCovers /\ LogKept
    BY KeptStep DEF BufferInv
  <1>l. /\ log \in Seq(Call) /\ Len(log) \in Nat /\ cp \in Nat
        /\ \A c \in Call : Batch[c] \in Seq(Event)
        /\ \A i \in 1..Len(log) : log[i] \in Call
        /\ \A c \in Call : \A e \in EventsOf(c) : e \in Event
        /\ events \in Seq(Event) /\ Rest \in Seq(Event)
    BY <1>t, LogCalls, ChunkAndRest DEF DataType
  <1>0. ToSet(<<>>) = {}
    BY DEF ToSet
  <1>v. CASE ~(proc' = "up" /\ attached' /\ flusher' # "panicking" /\ ~workerErr')
    BY <1>v DEF MemoryCovers
  <1>a. SUFFICES ASSUME proc' = "up", attached', flusher' # "panicking", ~workerErr'
                 PROVE  MemoryCovers'
    BY <1>v
  <1>1. ASSUME Quiet \/ UNCHANGED vars PROVE MemoryCovers'
    BY <1>t, <1>1 DEF MemoryCovers, Held, Stored, Rest, EventsOf, Quiet, vars, disk, memory, worker
  <1>2. ASSUME NEW c \in Call, Push(c) PROVE MemoryCovers'
    <2>1. /\ UNCHANGED <<proc, attached, cp, flight, flusher, workerErr, db>>
          /\ log' = Append(log, c) /\ events' = events \o Batch[c]
      BY <1>2 DEF Push, Buffered, worker
    <2>2. \A e \in ToSet(events) : e \in ToSet(events')
      BY <1>l, <2>1, ElementsConcat
    <2>3. \A e \in ToSet(Batch[c]) : e \in ToSet(events')
      BY <1>l, <2>1, ElementsConcat
    <2>4. ASSUME NEW i \in (cp+1)..(Len(log)+1), NEW e \in ToSet(Batch[log'[i]])
          PROVE  db[e] > 0 \/ e \in ToSet(Rest) \/ e \in ToSet(events')
      <3>1. CASE i = Len(log) + 1
        BY <1>l, <2>1, <2>3, <2>4, <3>1
      <3>2. CASE i \in (cp+1)..Len(log)
        <4>1. log'[i] = log[i]
          BY <1>l, <2>1, <3>2
        <4> QED BY <1>t, <1>a, <2>1, <2>2, <2>4, <3>2, <4>1 DEF MemoryCovers, Held, Stored, EventsOf
      <3> QED BY <1>l, <3>1, <3>2
    <2>5. Len(log') = Len(log) + 1 /\ Rest' = Rest
      BY <1>l, <2>1 DEF Rest
    <2> QED BY <2>1, <2>4, <2>5 DEF MemoryCovers, Held, Stored, EventsOf
  <1>3. ASSUME NEW c \in Call, PushMemoryOnly(c) PROVE MemoryCovers'
    BY <1>a, <1>3 DEF PushMemoryOnly
  <1>4. ASSUME Sync PROVE MemoryCovers'
    BY <1>t, <1>4 DEF MemoryCovers, Held, Stored, Rest, EventsOf, Sync, memory, worker
  <1>5. ASSUME StopClose PROVE MemoryCovers'
    BY <1>a, <1>5 DEF StopClose
  <1>6. ASSUME Detach PROVE MemoryCovers'
    <2>1. /\ UNCHANGED <<proc, attached, log, cp, workerErr, db>> /\ flusher = "idle"
          /\ flight'.batch = events /\ flight'.committed = 0 /\ proc = "up"
      BY <1>6 DEF Detach, disk
    <2>2. Rest = <<>> /\ Rest' = events
      BY <1>t, <1>l, <2>1, RestOf DEF ControlShape
    <2> QED BY <1>t, <1>a, <1>0, <2>1, <2>2 DEF MemoryCovers, Held, Stored, EventsOf
  <1>7. ASSUME NEW found \in Found, InsertChunk(found) PROVE MemoryCovers'
    <2>1. UNCHANGED <<proc, attached, log, cp, events, workerErr>>
      BY <1>7 DEF InsertChunk, disk, memory
    <2>2. flusher # "panicking"
      BY <1>7, <1>a, <2>1 DEF InsertChunk, Inserting
    <2>3. ASSUME NEW i \in (cp+1)..Len(log), NEW e \in EventsOf(log[i])
          PROVE  Stored(e)' \/ e \in ToSet(Rest') \/ e \in ToSet(events)
      <3>1. e \in Event
        BY <1>l, <2>3
      <3>2. Stored(e) \/ e \in ToSet(Rest) \/ e \in ToSet(events)
        BY <1>t, <1>a, <2>1, <2>2, <2>3 DEF MemoryCovers, Held
      <3> QED BY <1>t, <1>7, <3>1, <3>2, InsertLeaves
    <2> QED BY <2>1, <2>3 DEF MemoryCovers, Held, Stored, EventsOf
  <1>8. ASSUME InsertFails PROVE MemoryCovers'
    <2>1. /\ UNCHANGED <<proc, attached, log, cp, workerErr>> /\ flusher = "inserting"
          /\ events' = Rest \o events
      BY <1>8 DEF InsertFails, Requeue, disk
    <2>2. \A e \in ToSet(Rest) \cup ToSet(events) : e \in ToSet(events')
      BY <1>l, <2>1, ElementsConcat
    <2>3. ASSUME NEW i \in (cp+1)..Len(log), NEW e \in EventsOf(log[i])
          PROVE  Stored(e)' \/ e \in ToSet(events')
      <3>1. e \in Event
        BY <1>l, <2>3
      <3>2. Stored(e) \/ e \in ToSet(Rest) \/ e \in ToSet(events)
        BY <1>t, <1>a, <2>1, <2>3 DEF MemoryCovers, Held
      <3> QED BY <1>t, <2>2, <3>1, <3>2 DEF LogKept
    <2> QED BY <2>1, <2>3 DEF MemoryCovers, Held, Stored, EventsOf
  <1>9. ASSUME Release PROVE MemoryCovers'
    <2>1. UNCHANGED <<proc, attached, log, cp, events, flight, workerErr, db>> /\ flusher = "inserted"
      BY <1>9, <1>a DEF Release, disk
    <2> QED BY <1>t, <1>a, <2>1 DEF MemoryCovers, Held, Stored, Rest, EventsOf
  <1>10. ASSUME Checkpoint PROVE MemoryCovers'
    <2>1. UNCHANGED <<proc, attached, log, events, workerErr, db>> /\ flusher = "released"
      BY <1>10 DEF Checkpoint, memory
    <2>2. Rest = <<>> /\ Rest' = <<>>
      BY <1>t, <1>10, <2>1, RestOf DEF Checkpoint, ControlShape
    <2>3. PICK q \in Nat : q = cp' /\ cp =< q
      <3>1. CASE cp' = cp
        BY <1>l, <3>1
      <3>2. CASE cp' = flight.target /\ flight.target > cp
        BY <1>t, <1>l, <3>2 DEF DataType, FlightType
      <3> QED BY <1>10, <3>1, <3>2 DEF Checkpoint, CheckpointTarget
    <2>4. \A i \in (q+1)..Len(log) : i \in (cp+1)..Len(log)
      <3>1. cp \in Nat /\ q \in Nat /\ cp =< q /\ Len(log) \in Nat
        BY <1>l, <2>3
      <3> QED BY ONLY <3>1
    <2> QED BY <1>t, <1>a, <1>0, <2>1, <2>2, <2>3, <2>4 DEF MemoryCovers, Held, Stored, EventsOf
  <1>11. ASSUME Panic \/ LatchWorkerErr PROVE MemoryCovers'
    BY <1>a, <1>11 DEF Panic, LatchWorkerErr
  <1>12. ASSUME Crash \/ OpenQueue \/ ReplayNext PROVE MemoryCovers'
    BY <1>a, <1>12 DEF Crash, OpenQueue, ReplayNext
  <1>13. ASSUME Attach PROVE MemoryCovers'
    <2>1. cp' = Len(log) /\ log' = log
      BY <1>13 DEF Attach
    <2>2. \A i \in (Len(log)+1)..Len(log) : FALSE
      BY <1>l
    <2> QED BY <2>1, <2>2 DEF MemoryCovers
  <1>14. ASSUME OpenFails \/ ReplayFails \/ AttachFails PROVE MemoryCovers'
    BY <1>t, <1>a, <1>14 DEF ControlShape, OpenFails, ReplayFails, AttachFails, StartDegraded
  <1> QED BY <1>1, <1>2, <1>3, <1>4, <1>5, <1>6, <1>7, <1>8, <1>9, <1>10, <1>11, <1>12, <1>13, <1>14,
             QuietSteps DEF Next

(* A flush in flight: later pushes lie behind its target, and a requeue    *)
(* ends it.                                                                *)
LEMMA FlightStep ==
  ASSUME BufferAssumption, BufferInv, [Next]_vars
  PROVE  FlightCovers'
  <1> USE BufferAssumption
  <1>t. DataType /\ ControlShape /\ MemoryCovers /\ FlightCovers
    BY DEF BufferInv
  <1>l. /\ log \in Seq(Call) /\ Len(log) \in Nat /\ cp \in Nat
        /\ \A i \in 1..Len(log) : log[i] \in Call
        /\ \A c \in Call : \A e \in EventsOf(c) : e \in Event
        /\ flight.target \in Nat
    BY <1>t, LogCalls DEF DataType, FlightType
  <1>0. ToSet(<<>>) = {}
    BY DEF ToSet
  <1>v. CASE ~(proc' = "up" /\ attached' /\ flusher' \in {"inserting", "inserted", "released"})
    BY <1>v DEF FlightCovers
  <1>a. SUFFICES ASSUME proc' = "up", attached', flusher' \in {"inserting", "inserted", "released"}
                 PROVE  FlightCovers'
    BY <1>v
  <1>1. ASSUME Quiet \/ UNCHANGED vars PROVE FlightCovers'
    BY <1>t, <1>1 DEF FlightCovers, Stored, Rest, EventsOf, Quiet, vars, disk, memory, worker
  <1>2. ASSUME NEW c \in Call, Push(c) PROVE FlightCovers'
    <2>1. /\ UNCHANGED <<proc, attached, cp, flight, flusher, db>>
          /\ log' = Append(log, c)
      BY <1>2 DEF Push, worker
    <2>2. /\ flight.target =< Len(log)
          /\ \A i \in (cp+1)..flight.target : \A e \in EventsOf(log[i]) : Stored(e) \/ e \in ToSet(Rest)
      BY <1>t, <1>a, <2>1 DEF FlightCovers
    <2>3. \A i \in (cp+1)..flight.target : log'[i] = log[i]
      BY <1>l, <2>1, <2>2
    <2>4. Len(log') = Len(log) + 1 /\ Rest' = Rest
      BY <1>l, <2>1 DEF Rest
    <2>5. flight'.target =< Len(log')
      BY <1>l, <2>1, <2>2, <2>4
    <2> QED BY <2>1, <2>2, <2>3, <2>4, <2>5 DEF FlightCovers, Stored, EventsOf
  <1>3. ASSUME NEW c \in Call, PushMemoryOnly(c) PROVE FlightCovers'
    BY <1>a, <1>3 DEF PushMemoryOnly
  <1>4. ASSUME Sync PROVE FlightCovers'
    BY <1>t, <1>4 DEF FlightCovers, Stored, Rest, EventsOf, Sync, memory, worker
  <1>5. ASSUME StopClose PROVE FlightCovers'
    BY <1>a, <1>5 DEF StopClose
  <1>6. ASSUME Detach PROVE FlightCovers'
    <2>1. /\ UNCHANGED <<proc, attached, log, cp, db>> /\ flusher = "idle" /\ proc = "up"
          /\ owner \in {"worker", "final", "stopper"}
          /\ flight'.batch = events /\ flight'.committed = 0 /\ flight'.target = lastOffset
      BY <1>6 DEF Detach, disk
    <2>2. Rest = <<>> /\ Rest' = events /\ lastOffset = Len(log) /\ ~workerErr
      BY <1>t, <1>a, <1>l, <2>1, RestOf DEF ControlShape, DataType
    <2>3. \A i \in (cp+1)..Len(log) : \A e \in EventsOf(log[i]) : Stored(e) \/ e \in ToSet(events)
      BY <1>t, <1>a, <1>0, <2>1, <2>2 DEF MemoryCovers, Held
    <2> QED BY <1>l, <2>1, <2>2, <2>3 DEF FlightCovers, Stored, EventsOf
  <1>7. ASSUME NEW found \in Found, InsertChunk(found) PROVE FlightCovers'
    <2>1. /\ UNCHANGED <<proc, attached, log, cp>> /\ flight'.target = flight.target
      BY <1>t, <1>7 DEF InsertChunk, disk, DataType, FlightType
    <2>2. flusher = "inserting"
      BY <1>7, <1>a, <2>1 DEF InsertChunk, Inserting
    <2>3. flight.target =< Len(log)
      BY <1>t, <1>a, <2>1, <2>2 DEF FlightCovers
    <2>4. ASSUME NEW i \in (cp+1)..flight.target, NEW e \in EventsOf(log[i])
          PROVE  Stored(e)' \/ e \in ToSet(Rest')
      <3>1. e \in Event
        BY <1>l, <2>3, <2>4, SMTT(20)
      <3>2. Stored(e) \/ e \in ToSet(Rest)
        BY <1>t, <1>a, <2>1, <2>2, <2>4 DEF FlightCovers
      <3> QED BY <1>t, <1>7, <3>1, <3>2, InsertLeaves
    <2> QED BY <2>1, <2>3, <2>4 DEF FlightCovers, Stored, EventsOf
  <1>8. ASSUME InsertFails \/ Checkpoint PROVE FlightCovers'
    BY <1>a, <1>8 DEF InsertFails, Checkpoint, Returned
  <1>9. ASSUME Release PROVE FlightCovers'
    <2>1. UNCHANGED <<proc, attached, log, cp, db>> /\ flusher = "inserted"
      BY <1>9 DEF Release, disk
    <2>2. UNCHANGED flight
      BY <1>9, <1>a, <2>1 DEF Release
    <2> QED BY <1>t, <1>a, <2>1, <2>2 DEF FlightCovers, Stored, Rest, EventsOf
  <1>10. ASSUME Panic \/ LatchWorkerErr \/ Crash \/ OpenQueue \/ ReplayNext PROVE FlightCovers'
    BY <1>a, <1>10 DEF Panic, LatchWorkerErr, Crash, OpenQueue, ReplayNext
  <1>11. ASSUME Attach PROVE FlightCovers'
    BY <1>t, <1>a, <1>11 DEF Attach, ControlShape
  <1>12. ASSUME OpenFails \/ ReplayFails \/ AttachFails PROVE FlightCovers'
    BY <1>t, <1>a, <1>12 DEF ControlShape, OpenFails, ReplayFails, AttachFails, StartDegraded
  <1> QED BY <1>1, <1>2, <1>3, <1>4, <1>5, <1>6, <1>7, <1>8, <1>9, <1>10, <1>11, <1>12,
             QuietSteps DEF Next

(* A replay goes to the next frame only when the one it is at is stored.   *)
LEMMA ReplayStep ==
  ASSUME BufferAssumption, BufferInv, [Next]_vars
  PROVE  ReplayCovers'
  <1> USE BufferAssumption
  <1>t. DataType /\ ControlShape /\ ReplayCovers
    BY DEF BufferInv
  <1>l. /\ log \in Seq(Call) /\ Len(log) \in Nat /\ cp \in Nat /\ cp =< Len(log)
        /\ \A i \in 1..Len(log) : log[i] \in Call
        /\ \A c \in Call : Batch[c] \in Seq(Event)
        /\ \A c \in Call : \A e \in EventsOf(c) : e \in Event
        /\ flight.target \in Nat
    <2>1. log \in Seq(Call) /\ cp \in Nat /\ stable \in Nat /\ cp =< stable /\ stable =< Len(log)
          /\ flight.target \in Nat
      BY <1>t DEF DataType, FlightType
    <2>2. Len(log) \in Nat
      BY <2>1, LenProperties
    <2>3. cp =< Len(log)
      BY <2>1, <2>2
    <2> QED BY <1>t, <2>1, <2>2, <2>3, LogCalls
  <1>k. LogKept
    BY KeptStep
  <1>0. ToSet(<<>>) = {}
    BY DEF ToSet
  <1>v. CASE proc' # "recovering"
    BY <1>v DEF ReplayCovers
  <1>a. SUFFICES ASSUME proc' = "recovering" PROVE ReplayCovers'
    BY <1>v
  <1>1. ASSUME Quiet \/ UNCHANGED vars PROVE ReplayCovers'
    BY <1>t, <1>1 DEF ReplayCovers, Stored, Rest, EventsOf, Quiet, vars, disk, memory, worker
  <1>2. ASSUME OpenQueue PROVE ReplayCovers'
    <2>1. UNCHANGED <<log, cp, db>> /\ flight' = Replay(cp + 1)
      BY <1>2 DEF OpenQueue, disk
    <2>2. flight'.target = cp + 1
      BY <2>1 DEF Replay, NoFlight
    <2>3. ASSUME NEW i \in (cp+1)..Len(log), i =< cp + 1, NEW e \in EventsOf(log[i])
          PROVE  e \in ToSet(Rest')
      <3>1. i = cp + 1 /\ i \in 1..Len(log)
        BY <1>l, <2>3
      <3>2. flight'.batch = Batch[log[i]] /\ flight'.committed = 0
        BY <1>l, <2>1, <3>1 DEF Replay
      <3>3. Rest' = Batch[log[i]]
        BY <1>l, <3>1, <3>2, RestOf
      <3> QED BY <2>3, <3>3 DEF EventsOf
    <2>4. \A i \in (cp+1)..Len(log) : i =< cp + 1 => i = cp + 1
      BY <1>l
    <2>5. cp + 1 =< Len(log) + 1
      BY <1>l
    <2> QED BY <2>1, <2>2, <2>3, <2>4, <2>5 DEF ReplayCovers, Stored, EventsOf
  <1>3. ASSUME ReplayNext PROVE ReplayCovers'
    <2>1. UNCHANGED <<log, cp, db>> /\ flight' = Replay(flight.target + 1) /\ Rest = <<>>
          /\ flight.target =< Len(log) /\ proc = "recovering"
      BY <1>3 DEF ReplayNext, disk
    <2>2. flight'.target = flight.target + 1
      BY <2>1 DEF Replay, NoFlight
    <2>3. ASSUME NEW i \in (cp+1)..Len(log), i =< flight.target + 1, NEW e \in EventsOf(log[i])
          PROVE  Stored(e) \/ (i = flight.target + 1 /\ e \in ToSet(Rest'))
      <3>1. CASE i = flight.target + 1
        <4>0. i \in 1..Len(log) /\ i =< Len(log) /\ flight' = Replay(i)
          BY <1>l, <2>1, <2>3, <3>1
        <4>1. flight'.batch = Batch[log[i]] /\ flight'.committed = 0
          BY <4>0 DEF Replay
        <4>2. Rest' = Batch[log[i]]
          BY <1>l, <4>0, <4>1, RestOf
        <4> QED BY <2>3, <3>1, <4>2 DEF EventsOf
      <3>2. CASE i =< flight.target
        BY <1>t, <1>0, <2>1, <2>3, <3>2 DEF ReplayCovers
      <3> QED BY <1>l, <2>3, <3>1, <3>2, SMTT(20)
    <2>4. flight.target + 1 =< Len(log) + 1
      BY <1>l, <2>1
    <2> QED BY <2>1, <2>2, <2>3, <2>4 DEF ReplayCovers, Stored, EventsOf
  <1>4. ASSUME NEW found \in Found, InsertChunk(found) PROVE ReplayCovers'
    <2>1. /\ UNCHANGED <<proc, log, cp>> /\ flight'.target = flight.target
      BY <1>t, <1>4 DEF InsertChunk, disk, DataType, FlightType
    <2>2. flight.target =< Len(log) + 1
      BY <1>t, <1>a, <2>1 DEF ReplayCovers
    <2>3. ASSUME NEW i \in (cp+1)..Len(log), i =< flight.target, NEW e \in EventsOf(log[i])
          PROVE  Stored(e)' \/ (i = flight.target /\ e \in ToSet(Rest'))
      <3>1. e \in Event
        BY <1>l, <2>3
      <3>2. Stored(e) \/ (i = flight.target /\ e \in ToSet(Rest))
        BY <1>t, <1>a, <2>1, <2>3 DEF ReplayCovers
      <3>3. Stored(e) \/ e \in ToSet(Rest) => Stored(e)' \/ e \in ToSet(Rest')
        BY <1>t, <1>4, <3>1, InsertLeaves
      <3>4. Stored(e) => Stored(e)'
        BY <1>t, <1>k, <3>1 DEF LogKept
      <3> QED BY <3>2, <3>3, <3>4, Zenon
    <2> QED BY <2>1, <2>2, <2>3 DEF ReplayCovers, Stored, EventsOf
  <1>5. ASSUME NEW c \in Call, Push(c) \/ PushMemoryOnly(c) PROVE ReplayCovers'
    BY <1>a, <1>5 DEF Push, PushMemoryOnly
  <1>6. ASSUME Sync \/ StopClose \/ Detach \/ InsertFails \/ Release \/ Checkpoint \/ Panic
                 \/ LatchWorkerErr
        PROVE ReplayCovers'
    BY <1>a, <1>6 DEF Sync, StopClose, Detach, InsertFails, Release, Checkpoint, Panic, LatchWorkerErr
  <1>7. ASSUME Crash \/ Attach PROVE ReplayCovers'
    BY <1>a, <1>7 DEF Crash, Attach
  <1>8. ASSUME OpenFails \/ ReplayFails \/ AttachFails PROVE ReplayCovers'
    BY <1>a, <1>8 DEF OpenFails, ReplayFails, AttachFails, StartDegraded
  <1> QED BY <1>1, <1>2, <1>3, <1>4, <1>5, <1>6, <1>7, <1>8, QuietSteps DEF Next

(* Calls that are answered, and what a batch was recorded for.             *)
LEMMA CacheStep ==
  ASSUME BufferAssumption, BufferInv, [Next]_vars
  PROVE  CacheSafe'
  <1> USE BufferAssumption
  <1>t. DataType /\ ControlShape /\ CacheSafe /\ CheckpointCovered /\ LogKept /\ DataType'
    BY KeptStep, DataTypeStep DEF BufferInv
  <1>k. \A e \in Event : Safe(e) => Safe(e)'
    BY <1>t, KeptSafe
  <1>l. /\ log \in Seq(Call) /\ cp \in Nat /\ stable \in Nat
        /\ \A c \in Call : Batch[c] \in Seq(Event)
        /\ \A k \in CacheKey : cache.seen[k] \in Seq(Seq(Event))
    BY <1>t, LogCalls DEF DataType
  <1>v. CASE ~(attached' /\ ~Lossy)
    BY <1>v DEF CacheSafe
  <1>a. SUFFICES ASSUME attached', ~Lossy PROVE CacheSafe'
    BY <1>v
  <1>e. ASSUME NEW k \in CacheKey, NEW b \in ToSet(cache.seen[k]), NEW e \in ToSet(b)
        PROVE  e \in Event
    <2>1. b \in Seq(Event)
      BY <1>l, <1>e, Elements
    <2> QED BY <1>e, <2>1, Elements
  <1>1. ASSUME attached, cache'.seen = cache.seen
        PROVE  CacheSafe'
    <2>1. ASSUME NEW k \in CacheKey, NEW b \in ToSet(cache.seen[k]), NEW e \in ToSet(b)
          PROVE  Safe(e)'
      <3>1. Safe(e)
        BY <1>t, <1>a, <1>1, <2>1 DEF CacheSafe
      <3> QED BY <1>e, <1>k, <2>1, <3>1
    <2> QED BY <1>1, <2>1 DEF CacheSafe
  <1>2. ASSUME UNCHANGED <<attached, cache>> PROVE CacheSafe'
    BY <1>1, <1>2, <1>a
  <1>3. ASSUME NEW k \in CacheKey, Expire(k) PROVE CacheSafe'
    <2>1. cache'.seen = cache.seen /\ attached' = attached
      BY <1>3 DEF Expire
    <2> QED BY <1>1, <1>a, <2>1
  <1>4. ASSUME NEW c \in Call, Acknowledge(c) PROVE CacheSafe'
    <2>1. /\ UNCHANGED <<attached, log, stable, cp>>
          /\ Record(c) /\ Committed(c)
      BY <1>4 DEF Acknowledge, disk
    <2>2. \A e \in EventsOf(c) : Safe(e)
      <3>1. PICK i \in 1..stable : log[i] = c
        BY <2>1 DEF Committed
      <3>2. i \in 1..cp \/ i \in (cp+1)..stable
        <4>1. i \in 1..stable /\ cp \in Nat /\ stable \in Nat
          BY <1>l
        <4> QED BY ONLY <4>1
      <3> QED BY <1>t, <3>1, <3>2 DEF CheckpointCovered, Safe, Recoverable
    <2>3. \A e \in EventsOf(c) : Safe(e)'
      BY <1>k, <1>t, <2>2, LogCalls
    <2>4. ASSUME NEW k \in CacheKey, NEW b \in ToSet(cache'.seen[k]), NEW e \in ToSet(b)
          PROVE  Safe(e)'
      <3>1. CASE b = Batch[c]
        BY <2>3, <2>4, <3>1 DEF EventsOf
      <3>2. CASE b \in ToSet(cache.seen[k])
        <4>1. Safe(e)
          BY <1>t, <1>a, <2>1, <2>4, <3>2 DEF CacheSafe
        <4> QED BY <1>e, <1>k, <2>4, <3>2, <4>1
      <3> QED BY <1>t, <2>1, <2>4, <3>1, <3>2, RecordSeen
    <2> QED BY <2>4 DEF CacheSafe
  <1>5. ASSUME NEW c \in Call, Check(c) \/ PushFull(c) \/ PushUnavailable(c) \/ CommitFails(c)
        PROVE  CacheSafe'
    BY <1>2, <1>5 DEF Check, PushFull, PushUnavailable, CommitFails
  <1>6. ASSUME NEW c \in Call, Push(c) PROVE CacheSafe'
    BY <1>2, <1>6, <1>a DEF Push
  <1>7. ASSUME NEW c \in Call, PushMemoryOnly(c) PROVE CacheSafe'
    BY <1>a, <1>7 DEF PushMemoryOnly
  <1>8. ASSUME NEW found \in Found, InsertChunk(found) PROVE CacheSafe'
    BY <1>2, <1>8 DEF InsertChunk
  <1>9. ASSUME \/ Sync \/ Detach \/ InsertFails \/ Release \/ Checkpoint \/ Panic \/ LatchWorkerErr
               \/ Stop \/ StopWorker \/ StopFlush \/ StopClose \/ OpenQueue \/ ReplayNext
               \/ OpenFails \/ ReplayFails \/ AttachFails \/ UNCHANGED vars
        PROVE CacheSafe'
    BY <1>2, <1>9 DEF Sync, Detach, InsertFails, Release, Checkpoint, Panic, LatchWorkerErr, Stop,
       StopWorker, StopFlush, StopClose, OpenQueue, ReplayNext, OpenFails, ReplayFails,
       AttachFails, StartDegraded, vars
  <1>10. ASSUME Crash PROVE CacheSafe'
    BY <1>a, <1>10 DEF Crash
  <1>11. ASSUME Attach PROVE CacheSafe'
    <2>1. cache' = EmptyCache
      BY <1>t, <1>11 DEF Attach, ControlShape
    <2>2. ToSet(<<>>) = {}
      BY DEF ToSet
    <2> QED BY <2>1, <2>2 DEF CacheSafe, EmptyCache
  <1> QED BY <1>2, <1>3, <1>4, <1>5, <1>6, <1>7, <1>8, <1>9, <1>10, <1>11 DEF Next

(* A call is acknowledged by Acknowledge, whose frame is behind a sync, or *)
(* by the cache, which vouches only for what is safe.                      *)
LEMMA AckedStep ==
  ASSUME BufferAssumption, BufferInv, [Next]_vars
  PROVE  AckedRecoverable'
  <1> USE BufferAssumption
  <1>t. /\ DataType /\ ControlShape /\ CacheSafe /\ CheckpointCovered /\ AckedRecoverable
        /\ LogKept /\ DataType'
    BY KeptStep, DataTypeStep DEF BufferInv
  <1>k. \A e \in Event : Safe(e) => Safe(e)'
    BY <1>t, KeptSafe
  <1>l. /\ log \in Seq(Call) /\ cp \in Nat /\ stable \in Nat
        /\ \A c \in Call : \A e \in EventsOf(c) : e \in Event
        /\ call \in [Call -> CallState]
        /\ \A k \in CacheKey : cache.seen[k] \in Seq(Seq(Event))
    BY <1>t, LogCalls DEF DataType
  <1>s. ASSUME NEW c \in Call, call[c] = "acked" \/ \A e \in EventsOf(c) : Safe(e)
        PROVE  \A e \in EventsOf(c) : Safe(e)'
    <2>1. \A e \in EventsOf(c) : Safe(e)
      BY <1>t, <1>s DEF AckedRecoverable, Safe
    <2> QED BY <1>k, <1>l, <2>1
  <1>1. ASSUME NEW c \in Call,
               \A d \in Call : call'[d] = "acked" => call[d] = "acked" \/ d = c,
               call'[c] = "acked" => call[c] = "acked" \/ \A e \in EventsOf(c) : Safe(e)
        PROVE  AckedRecoverable'
    <2>1. ASSUME NEW d \in Call, call'[d] = "acked" PROVE \A e \in EventsOf(d) : Safe(e)'
      BY <1>s, <1>1, <2>1
    <2> QED BY <2>1 DEF AckedRecoverable, Safe
  <1>2. ASSUME \A d \in Call : call'[d] = "acked" => call[d] = "acked"
        PROVE  AckedRecoverable'
    <2>1. ASSUME NEW d \in Call, call'[d] = "acked" PROVE \A e \in EventsOf(d) : Safe(e)'
      BY <1>s, <1>2, <2>1
    <2> QED BY <2>1 DEF AckedRecoverable, Safe
  <1>3. ASSUME NEW c \in Call, Check(c) PROVE AckedRecoverable'
    <2>1. call' = [call EXCEPT ![c] = IF Duplicate(c) THEN Granted ELSE "checked"]
      BY <1>3 DEF Check, Reply
    <2>2. ASSUME call'[c] = "acked" PROVE \A e \in EventsOf(c) : Safe(e)
      <3>1. Duplicate(c) /\ Granted = "acked"
        BY <1>l, <2>1, <2>2
      <3>2. attached /\ ~Lossy
        BY <3>1 DEF Granted
      <3>3. Key[c] \in CacheKey /\ Contains(cache.seen[Key[c]], Batch[c])
        BY <3>1 DEF Duplicate, BufferAssumption
      <3>4. Batch[c] \in ToSet(cache.seen[Key[c]])
        BY <3>3 DEF Contains, ToSet
      <3> QED BY <1>t, <3>2, <3>3, <3>4 DEF CacheSafe, EventsOf
    <2> QED BY <1>1, <1>l, <2>1, <2>2
  <1>4. ASSUME NEW c \in Call, Acknowledge(c) PROVE AckedRecoverable'
    <2>1. /\ call' = [call EXCEPT ![c] = "acked"] /\ Committed(c)
      BY <1>4 DEF Acknowledge, Reply
    <2>2. \A e \in EventsOf(c) : Safe(e)
      <3>1. PICK i \in 1..stable : log[i] = c
        BY <2>1 DEF Committed
      <3>2. i \in 1..cp \/ i \in (cp+1)..stable
        <4>1. i \in 1..stable /\ cp \in Nat /\ stable \in Nat
          BY <1>l
        <4> QED BY ONLY <4>1
      <3> QED BY <1>t, <3>1, <3>2 DEF CheckpointCovered, Safe, Recoverable
    <2> QED BY <1>1, <1>l, <2>1, <2>2
  <1>5. ASSUME NEW c \in Call, PushFull(c) \/ PushUnavailable(c) \/ CommitFails(c)
        PROVE  AckedRecoverable'
    BY <1>2, <1>l, <1>5 DEF PushFull, PushUnavailable, CommitFails, Reply
  <1>6. ASSUME NEW c \in Call, Push(c) \/ PushMemoryOnly(c) PROVE AckedRecoverable'
    BY <1>2, <1>l, <1>6 DEF Push, PushMemoryOnly, Reply
  <1>7. ASSUME NEW found \in Found, InsertChunk(found) PROVE AckedRecoverable'
    BY <1>2, <1>7 DEF InsertChunk
  <1>8. ASSUME NEW k \in CacheKey, Expire(k) PROVE AckedRecoverable'
    BY <1>2, <1>8 DEF Expire
  <1>9. ASSUME \/ Sync \/ Detach \/ InsertFails \/ Release \/ Checkpoint \/ Panic \/ LatchWorkerErr
               \/ Stop \/ StopWorker \/ StopFlush \/ StopClose \/ OpenQueue \/ ReplayNext
               \/ OpenFails \/ ReplayFails \/ AttachFails \/ UNCHANGED vars
        PROVE AckedRecoverable'
    <2>1. call' = call
      BY <1>9 DEF Sync, Detach, InsertFails, Release, Checkpoint, Panic, LatchWorkerErr, Stop,
         StopWorker, StopFlush, StopClose, OpenQueue, ReplayNext, OpenFails, ReplayFails,
         AttachFails, StartDegraded, vars
    <2> QED BY <1>2, <2>1
  <1>10. ASSUME Crash \/ Attach PROVE AckedRecoverable'
    BY <1>2, <1>l, <1>10 DEF Crash, Attach
  <1> QED BY <1>3, <1>4, <1>5, <1>6, <1>7, <1>8, <1>9, <1>10 DEF Next

-----------------------------------------------------------------------------
LEMMA BufferInductive ==
  ASSUME BufferAssumption, BufferInv, [Next]_vars
  PROVE  BufferInv'
  <1>1. CheckpointCovered'
    BY KeptStep, KeptSafe, DataTypeStep DEF BufferInv
  <1> QED BY <1>1, DataTypeStep, ControlStep, MemoryStep, FlightStep, ReplayStep, CacheStep,
             AckedStep DEF BufferInv

(* The invariant the two properties rest on: data and control state fit,   *)
(* and what the log holds behind the checkpoint is stored, in flight,      *)
(* buffered, or about to be replayed.                                      *)
THEOREM BufferInvariant == ASSUME BufferAssumption PROVE Spec => []BufferInv
  <1>1. Init => BufferInv
    BY InitInv
  <1>2. BufferInv /\ [Next]_vars => BufferInv'
    BY BufferInductive
  <1> QED BY <1>1, <1>2, PTL DEF Spec

(* The checkpoint never passes an event that is not in the database.       *)
THEOREM CheckpointNeverPasses == ASSUME BufferAssumption PROVE Spec => []CheckpointCovered
  <1>1. BufferInv => CheckpointCovered
    BY DEF BufferInv
  <1> QED BY <1>1, BufferInvariant, PTL

(* A batch answered with a durable 200 is stored, or will be replayed:     *)
(* through any flush, transaction or checkpoint that fails, panics, stops  *)
(* and crashes.  No fsync of the log fails here (see FlushFails).          *)
THEOREM DurableAckNeverLost == ASSUME BufferAssumption PROVE Spec => []AckedRecoverable
  <1>1. BufferInv => AckedRecoverable
    BY DEF BufferInv
  <1> QED BY <1>1, BufferInvariant, PTL

-----------------------------------------------------------------------------
(* While no lookup of the committed keys fails, an event has one row,      *)
(* however often it is sent, queued again, replayed or inserted by a       *)
(* transaction that committed and reported a failure.                      *)
THEOREM BufferStoresOnce == Spec => []StoredOnce
<1> DEFINE Once == "lookup" \notin FaultKind => db \in [Event -> {0, 1}]
<1>1. Init => Once
  BY DEF Init
<1>2. Once /\ [Next]_vars => Once'
  <2> SUFFICES ASSUME "lookup" \notin FaultKind, db \in [Event -> {0, 1}], [Next]_vars
               PROVE  db' \in [Event -> {0, 1}]
    OBVIOUS
  <2>1. ASSUME NEW found \in Found, db' = Inserted(found)
        PROVE  db' \in [Event -> {0, 1}]
    <3>1. found = TRUE
      BY DEF Found
    <3> QED BY <2>1, <3>1 DEF Inserted
  <2>2. ASSUME NEW found \in Found, InsertChunk(found)
        PROVE  db' \in [Event -> {0, 1}]
    BY <2>1, <2>2 DEF InsertChunk
  <2>3. CASE InsertFails \/ ReplayFails
    BY <2>1, <2>3 DEF InsertFails, ReplayFails, TxFails
  <2>4. ASSUME NEW k \in CacheKey, Expire(k)
        PROVE  db' = db
    BY <2>4 DEF Expire
  <2>5. ASSUME NEW c \in Call,
               \/ Check(c) \/ PushFull(c) \/ PushUnavailable(c) \/ Push(c)
               \/ PushMemoryOnly(c) \/ Acknowledge(c) \/ CommitFails(c)
        PROVE  db' = db
    BY <2>5 DEF Check, PushFull, PushUnavailable, Push, PushMemoryOnly, Acknowledge, CommitFails
  <2>6. CASE Sync \/ Detach \/ Release \/ Checkpoint \/ Panic \/ LatchWorkerErr
    BY <2>6 DEF Sync, Detach, Release, Checkpoint, Panic, LatchWorkerErr
  <2>7. CASE Stop \/ StopWorker \/ StopFlush \/ StopClose
    BY <2>7 DEF Stop, StopWorker, StopFlush, StopClose
  <2>8. CASE Crash \/ OpenQueue \/ ReplayNext \/ Attach \/ OpenFails \/ AttachFails
    BY <2>8 DEF Crash, OpenQueue, ReplayNext, Attach, OpenFails, AttachFails
  <2>9. CASE UNCHANGED vars
    BY <2>9 DEF vars
  <2> QED BY <2>2, <2>3, <2>4, <2>5, <2>6, <2>7, <2>8, <2>9 DEF Next
<1>3. Once => StoredOnce
  BY DEF StoredOnce
<1> QED BY <1>1, <1>2, <1>3, PTL DEF Spec

-----------------------------------------------------------------------------
(* The ingest path refines DurableLog.                                     *)

(* A frame is of one call, whose answer follows the group commit.          *)
LogOnce ==
  /\ \A i, j \in 1..Len(log) : log[i] = log[j] => i = j
  /\ \A i \in 1..Len(log) : call[log[i]] \notin {"idle", "checked"}
  /\ \A i \in 1..Len(log) : call[log[i]] = "acked" => i =< stable

LEMMA LogOnceStep ==
  ASSUME BufferAssumption, BufferInv, LogOnce, [Next]_vars
  PROVE  LogOnce'
<1>t. /\ DataType /\ Len(log) \in Nat /\ (\A i \in 1..Len(log) : log[i] \in Call)
      /\ stable \in Nat /\ stable' \in Nat /\ stable =< stable' /\ stable =< Len(log)
      /\ log \in Seq(Call) /\ call \in [Call -> CallState]
  BY KeptStep, DataTypeStep, LogCalls DEF BufferInv, DataType, LogKept
<1> DEFINE Kept == \A c \in Call :
             /\ call[c] \notin {"idle", "checked"} => call'[c] \notin {"idle", "checked"}
             /\ call'[c] = "acked" => call[c] \in {"acked", "idle"} \/ Committed(c)
<1>k. ASSUME log' = log, Kept  PROVE LogOnce'
  <2>1. ASSUME NEW i \in 1..Len(log), call'[log[i]] = "acked"  PROVE i =< stable'
    <3>1. CASE Committed(log[i])
      <4>1. PICK j \in 1..stable : log[j] = log[i]
        BY <3>1 DEF Committed
      <4>2. j \in 1..Len(log)
        BY <1>t
      <4> QED BY <1>t, <4>1, <4>2 DEF LogOnce
    <3>2. CASE call[log[i]] = "acked"
      BY <1>t, <3>2 DEF LogOnce
    <3> QED BY <1>k, <1>t, <2>1, <3>1, <3>2 DEF LogOnce
  <2> QED BY <1>k, <1>t, <2>1 DEF LogOnce
<1>a. ASSUME NEW c \in Call, NEW r, Reply(c, r), r \notin {"idle"},
             r = "checked" => call[c] = "idle",
             r = "acked" => call[c] = "idle" \/ Committed(c)
      PROVE  Kept
  BY <1>a, <1>t DEF Reply
<1>1. ASSUME NEW c \in Call,
             Check(c) \/ PushFull(c) \/ PushUnavailable(c) \/ PushMemoryOnly(c)
                       \/ Acknowledge(c) \/ CommitFails(c)
      PROVE  LogOnce'
  <2>1. log' = log
    BY <1>1 DEF Check, PushFull, PushUnavailable, PushMemoryOnly, Acknowledge, CommitFails, disk
  <2>2. CASE Check(c)
    <3> DEFINE r == IF Duplicate(c) THEN Granted ELSE "checked"
    <3>1. Reply(c, r) /\ call[c] = "idle" /\ r # "idle"
      BY <2>2 DEF Check, Granted
    <3> HIDE DEF r
    <3> QED BY <1>a, <1>k, <2>1, <3>1
  <2>3. CASE Acknowledge(c)
    BY <1>a, <1>k, <2>1, <2>3 DEF Acknowledge
  <2>4. CASE PushFull(c) \/ PushUnavailable(c) \/ PushMemoryOnly(c) \/ CommitFails(c)
    <3>1. Reply(c, "full") \/ Reply(c, "unavailable") \/ Reply(c, "accepted")
      BY <2>4 DEF PushFull, PushUnavailable, PushMemoryOnly, CommitFails
    <3> QED BY <1>a, <1>k, <2>1, <3>1
  <2> QED BY <1>1, <2>2, <2>3, <2>4
<1>2. ASSUME NEW c \in Call, Push(c)  PROVE LogOnce'
  <2>1. /\ call[c] = "checked" /\ stable' = stable
        /\ \E r \in {"accepted", "waiting"} : Reply(c, r)
        /\ log' = Append(log, c)
    BY <1>2 DEF Push
  <2>2. /\ Len(log') = Len(log) + 1 /\ log'[Len(log) + 1] = c
        /\ \A i \in 1..Len(log) : log'[i] = log[i]
    BY <1>t, <2>1, AppendProperties
  <2>3. /\ call'[c] \in {"accepted", "waiting"}
        /\ \A d \in Call : d # c => call'[d] = call[d]
    BY <1>t, <2>1 DEF Reply
  <2>4. \A i \in 1..Len(log) : log[i] # c /\ log[i] \in Call
    BY <1>t, <2>1 DEF LogOnce
  <2>5. \A i \in 1..(Len(log) + 1) : i \in 1..Len(log) \/ i = Len(log) + 1
    BY <1>t, SMTT(20)
  <2>6. \A i, j \in 1..Len(log') : log'[i] = log'[j] => i = j
    <3>1. \A i, j \in 1..Len(log) : log[i] = log[j] => i = j
      BY DEF LogOnce
    <3> QED BY ONLY <2>2, <2>4, <2>5, <3>1
  <2>7. \A i \in 1..Len(log') : call'[log'[i]] \notin {"idle", "checked"}
    <3>1. \A i \in 1..Len(log) : call[log[i]] \notin {"idle", "checked"}
      BY DEF LogOnce
    <3> QED BY ONLY <2>2, <2>3, <2>4, <2>5, <3>1
  <2>8. \A i \in 1..Len(log') : call'[log'[i]] = "acked" => i =< stable'
    <3>1. \A i \in 1..Len(log) : call[log[i]] = "acked" => i =< stable
      BY DEF LogOnce
    <3> QED BY ONLY <2>1, <2>2, <2>3, <2>4, <2>5, <3>1
  <2> QED BY <2>6, <2>7, <2>8 DEF LogOnce
<1>3. CASE Crash
  <2>1. PICK n \in stable..Len(log) : log' = SubSeq(log, 1, n)
    BY <1>3 DEF Crash
  <2>2. Len(log') = n /\ n =< Len(log) /\ n \in Nat /\ \A i \in 1..n : log'[i] = log[i]
    BY <1>t, <2>1
  <2>3. \A i \in 1..n : i \in 1..Len(log)
    BY <1>t, <2>2
  <2>4. /\ \A c \in Call : call[c] \notin {"idle", "checked"} => call'[c] \notin {"idle", "checked"}
        /\ \A c \in Call : call'[c] = "acked" => call[c] = "acked"
        /\ stable' = stable
    BY <1>3 DEF Crash
  <2> QED BY <1>t, <2>2, <2>3, <2>4 DEF LogOnce
<1>4. ASSUME log' = log, call' = call  PROVE LogOnce'
  BY <1>4, <1>k
<1>5. ASSUME NEW found \in Found, InsertChunk(found)  PROVE LogOnce'
  <2>1. log' = log /\ call' = call
    BY <1>5 DEF InsertChunk, disk
  <2> QED BY <1>4, <2>1
<1>6. ASSUME NEW k \in CacheKey, Expire(k)  PROVE LogOnce'
  BY <1>4, <1>6 DEF Expire, disk
<1>7. CASE \/ Sync \/ Detach \/ InsertFails \/ Release \/ Checkpoint \/ Panic \/ LatchWorkerErr
           \/ Stop \/ StopWorker \/ StopFlush \/ StopClose
  <2>1. log' = log /\ call' = call
    BY <1>7 DEF Sync, Detach, InsertFails, Release, Checkpoint, Panic, LatchWorkerErr, Stop, StopWorker,
                StopFlush, StopClose, disk
  <2> QED BY <1>4, <2>1
<1>8. CASE OpenQueue \/ ReplayNext \/ Attach \/ OpenFails \/ ReplayFails \/ AttachFails \/ UNCHANGED vars
  <2>1. log' = log /\ call' = call
    BY <1>8 DEF OpenQueue, ReplayNext, Attach, OpenFails, ReplayFails, AttachFails, StartDegraded, vars, disk
  <2> QED BY <1>4, <2>1
<1> QED BY <1>1, <1>2, <1>3, <1>5, <1>6, <1>7, <1>8 DEF Next

(* The refinement mapping.                                                 *)
Place == [c \in Call |-> IF \E i \in (cp+1)..Len(log) : log[i] = c
                         THEN CHOOSE i \in (cp+1)..Len(log) : log[i] = c ELSE 0]
Acked == {c \in Call : call[c] = "acked" /\ \E i \in 1..Len(log) : log[i] = c}
Taken == {log[i] : i \in 1..cp}

LogInv == BufferInv /\ LogOnce

(* The place of a call is its frame behind the checkpoint.                 *)
LEMMA PlaceIs ==
  ASSUME BufferAssumption, LogInv
  PROVE  /\ Place \in [Call -> Nat] /\ cp \in Nat /\ Len(log) \in Nat /\ cp =< Len(log)
         /\ \A c \in Call : Place[c] # 0 => Place[c] \in (cp+1)..Len(log) /\ log[Place[c]] = c
         /\ \A i \in (cp+1)..Len(log) : log[i] \in Call /\ Place[log[i]] = i
<1>1. /\ DataType /\ Len(log) \in Nat /\ cp \in Nat /\ cp =< Len(log) /\ LogOnce
      /\ \A i \in 1..Len(log) : log[i] \in Call
  BY LogCalls DEF LogInv, BufferInv, DataType
<1>2. \A i \in (cp+1)..Len(log) : i \in 1..Len(log) /\ i \in Nat /\ i # 0
  BY <1>1
<1>3. ASSUME NEW c \in Call, \E i \in (cp+1)..Len(log) : log[i] = c
      PROVE  Place[c] \in (cp+1)..Len(log) /\ log[Place[c]] = c
  BY <1>3 DEF Place
<1>4. \A c \in Call : ~(\E i \in (cp+1)..Len(log) : log[i] = c) => Place[c] = 0
  BY DEF Place
<1>5. \A c \in Call : Place[c] \in Nat
  BY <1>2, <1>3, <1>4
<1>6. Place \in [Call -> Nat]
  BY <1>5 DEF Place
<1>7. ASSUME NEW i \in (cp+1)..Len(log)  PROVE log[i] \in Call /\ Place[log[i]] = i
  BY <1>1, <1>2, <1>3 DEF LogOnce
<1> QED BY <1>1, <1>3, <1>4, <1>6, <1>7

LEMMA PlaceNext ==
  ASSUME BufferAssumption, LogInv'
  PROVE  /\ Place' \in [Call -> Nat] /\ cp' \in Nat /\ Len(log') \in Nat /\ cp' =< Len(log')
         /\ \A c \in Call : Place'[c] # 0 => Place'[c] \in (cp'+1)..Len(log') /\ log'[Place'[c]] = c
         /\ \A i \in (cp'+1)..Len(log') : log'[i] \in Call /\ Place'[log'[i]] = i
<1>1. (BufferAssumption /\ LogInv
         => /\ Place \in [Call -> Nat] /\ cp \in Nat /\ Len(log) \in Nat /\ cp =< Len(log)
            /\ \A c \in Call : Place[c] # 0 => Place[c] \in (cp+1)..Len(log) /\ log[Place[c]] = c
            /\ \A i \in (cp+1)..Len(log) : log[i] \in Call /\ Place[log[i]] = i)'
  BY PlaceIs, PTL
<1>2. BufferAssumption'
  BY DEF BufferAssumption
<1> QED BY <1>1, <1>2

LEMMA FramesVars == Frames!vars = <<Place, Acked, Taken>>
  BY Zenon DEF Frames!vars, Place, Acked, Taken

LEMMA FramesStutter ==
  ASSUME UNCHANGED <<Place, Acked, Taken>>
  PROVE  [Frames!Next]_(Frames!vars)
  BY Zenon DEF Frames!vars, Place, Acked, Taken

(* A cut is the place of a frame, or 0.                                    *)
LEMMA FramesCut ==
  ASSUME NEW CONSTANT cut, cut = 0 \/ \E d \in Call : cut = Place[d],
         Frames!Store(cut)
  PROVE  Frames!Next
<1>1. cut \in {0} \cup {Place[d] : d \in Call}
  OBVIOUS
<1> QED BY <1>1, Zenon DEF Frames!Next, Place

(* Steps that leave the log and the answers of its frames alone.           *)
LEMMA StutterRefines ==
  ASSUME BufferAssumption, LogInv, log' = log, cp' = cp,
         \A i \in 1..Len(log) : call'[log[i]] = "acked" <=> call[log[i]] = "acked"
  PROVE  [Frames!Next]_(Frames!vars)
<1>1. Place' = Place /\ Taken' = Taken
  BY DEF Place, Taken
<1>2. Acked' = Acked
  BY DEF Acked
<1> QED BY <1>1, <1>2, FramesStutter

(* The positions an append adds one to.                                    *)
LEMMA OneMore ==
  ASSUME NEW a \in Nat, NEW m \in Nat, NEW n, a =< m, n = m + 1
  PROVE  /\ \A i \in 1..n : i \in 1..m \/ i = n
         /\ \A i \in 1..m : i \in 1..n /\ i < n
         /\ \A i \in (a+1)..n : i \in (a+1)..m \/ i = n
         /\ \A i \in (a+1)..m : i \in (a+1)..n /\ i \in 1..m
         /\ n \in (a+1)..n /\ (\A i \in 1..a : i \in 1..m) /\ n \in Nat /\ 0 < n
  OBVIOUS

(* A push appends one frame.                                               *)
LEMMA PushRefines ==
  ASSUME BufferAssumption, LogInv, LogInv', NEW c \in Call, Push(c)
  PROVE  [Frames!Next]_(Frames!vars)
<1> DEFINE n == Len(log) + 1
<1>1. /\ DataType /\ LogOnce /\ Len(log) \in Nat /\ (\A i \in 1..Len(log) : log[i] \in Call)
      /\ log \in Seq(Call) /\ call \in [Call -> CallState] /\ cp \in Nat /\ cp =< Len(log)
  <2>1. DataType /\ LogOnce
    BY DEF LogInv, BufferInv
  <2>2. Len(log) \in Nat /\ \A i \in 1..Len(log) : log[i] \in Call
    BY <2>1, LogCalls
  <2>3. log \in Seq(Call) /\ call \in [Call -> CallState]
    BY <2>1 DEF DataType
  <2> QED BY <2>1, <2>2, <2>3, PlaceIs
<1>2. /\ call[c] = "checked" /\ cp' = cp /\ log' = Append(log, c)
      /\ \E r \in {"accepted", "waiting"} : Reply(c, r)
  BY DEF Push
<1>3. /\ Len(log') = n /\ log'[n] = c /\ n \in Nat
      /\ \A i \in 1..Len(log) : log'[i] = log[i]
  BY <1>1, <1>2, AppendProperties
<1>4. /\ call'[c] # "acked" /\ \A d \in Call : d # c => call'[d] = call[d]
  BY <1>1, <1>2 DEF Reply
<1>5. \A i \in 1..Len(log) : log[i] # c
  BY <1>1, <1>2 DEF LogOnce
<1>6. /\ \A i \in 1..n : i \in 1..Len(log) \/ i = n
      /\ \A i \in 1..Len(log) : i \in 1..n /\ i < n
      /\ \A i \in (cp+1)..n : i \in (cp+1)..Len(log) \/ i = n
      /\ \A i \in (cp+1)..Len(log) : i \in (cp+1)..n /\ i \in 1..Len(log)
      /\ n \in (cp+1)..n /\ \A i \in 1..cp : i \in 1..Len(log)
  <2>1. n = Len(log) + 1
    OBVIOUS
  <2>2. Len(log) \in Nat /\ cp \in Nat /\ cp =< Len(log)
    BY <1>1
  <2> HIDE DEF n
  <2> QED BY ONLY <2>1, <2>2, OneMore
<1>7. Place[c] = 0 /\ Place'[c] = n
  BY <1>2, <1>3, <1>5, <1>6, PlaceIs, PlaceNext
<1>8. ASSUME NEW d \in Call, d # c  PROVE Place'[d] = Place[d]
  <2>1. CASE Place[d] # 0
    <3>1. Place[d] \in (cp+1)..Len(log) /\ log[Place[d]] = d
      BY <2>1, PlaceIs
    <3>2. Place[d] \in (cp'+1)..Len(log') /\ log'[Place[d]] = d
      BY <1>2, <1>3, <1>6, <3>1
    <3> QED BY <3>2, PlaceNext
  <2>2. CASE Place'[d] # 0
    <3>1. Place'[d] \in (cp+1)..n /\ log'[Place'[d]] = d
      BY <1>2, <1>3, <2>2, PlaceNext
    <3>2. Place'[d] \in (cp+1)..Len(log) /\ log[Place'[d]] = d
      BY <1>3, <1>6, <1>8, <3>1
    <3> QED BY <3>2, PlaceIs
  <2> QED BY <2>1, <2>2
<1>9. /\ \A d \in Call : Place[d] < n /\ Place[d] \in Nat
      /\ Place \in [Call -> Nat] /\ Place' \in [Call -> Nat]
  <2>1. /\ Place \in [Call -> Nat] /\ Place' \in [Call -> Nat]
        /\ \A d \in Call : Place[d] = 0 \/ Place[d] \in (cp+1)..Len(log)
    BY PlaceIs, PlaceNext
  <2>2. 0 < n /\ \A i \in (cp+1)..Len(log) : i < n
    BY <1>1, OneMore
  <2> QED BY ONLY <2>1, <2>2
<1> HIDE DEF n
<1>10. Place' = [Place EXCEPT ![c] = Place'[c]]
  BY <1>8, <1>9
<1>11. Taken' = Taken
  BY <1>2, <1>3, <1>6 DEF Taken
<1>12. Acked' = Acked
  <2>1. \A d \in Call : d # c => ((\E i \in 1..n : log'[i] = d) <=> (\E i \in 1..Len(log) : log[i] = d))
    BY <1>3, <1>6
  <2>2. call[c] # "acked" /\ call'[c] # "acked"
    BY <1>2, <1>4
  <2>3. \A d \in Call : /\ call'[d] = "acked" /\ (\E i \in 1..n : log'[i] = d)
                       <=> /\ call[d] = "acked" /\ (\E i \in 1..Len(log) : log[i] = d)
    BY <1>4, <2>1, <2>2, Zenon
  <2>4. Len(log') = n
    BY <1>3
  <2> QED BY <2>3, <2>4, Zenon DEF Acked
<1>13. c \notin Taken \cup Acked
  BY <1>2, <1>5, <1>6 DEF Taken, Acked
<1>14. Place[c] = 0 /\ Place'[c] \in Nat /\ \A d \in Call : Place[d] < Place'[c]
  BY <1>3, <1>7, <1>9
<1>15. Frames!Append(c)
  BY <1>10, <1>11, <1>12, <1>13, <1>14, Zenon DEF Frames!Append, Place, Acked, Taken
<1> QED BY <1>15, Zenon DEF Frames!Next

(* A 200 acknowledges one frame.                                           *)
LEMMA AcknowledgeRefines ==
  ASSUME BufferAssumption, LogInv, LogInv', NEW c \in Call, Acknowledge(c)
  PROVE  [Frames!Next]_(Frames!vars)
<1>1. /\ log' = log /\ cp' = cp /\ Reply(c, "acked") /\ Committed(c)
      /\ call \in [Call -> CallState] /\ Len(log) \in Nat /\ cp \in Nat /\ stable =< Len(log)
      /\ stable \in Nat
  BY LogCalls DEF Acknowledge, disk, LogInv, BufferInv, DataType
<1>2. Place' = Place /\ Taken' = Taken
  BY <1>1 DEF Place, Taken
<1>3. PICK i \in 1..Len(log) : log[i] = c
  BY <1>1 DEF Committed
<1>4. Acked' = Acked \cup {c}
  BY <1>1, <1>3 DEF Acked, Reply
<1>5. Place[c] > 0 \/ c \in Taken
  <2>1. CASE i =< cp
    <3>1. i \in 1..cp
      BY <1>1, <2>1
    <3> QED BY <1>3, <3>1 DEF Taken
  <2>2. CASE i > cp
    <3>1. i \in (cp+1)..Len(log) /\ i > 0
      BY <1>1, <2>2
    <3> QED BY <1>3, <3>1, PlaceIs
  <2> QED BY <1>1, <2>1, <2>2
<1>6. PICK I \in SUBSET Call : I = {c}
  OBVIOUS
<1>7. \A d \in I : Place[d] > 0 \/ d \in Taken
  BY <1>5, <1>6
<1>8. Frames!Ack(I)
  BY <1>2, <1>4, <1>6, <1>7, Zenon DEF Frames!Ack, Place, Acked, Taken
<1> QED BY <1>8, Zenon DEF Frames!Next

(* The positions a checkpoint splits.                                      *)
LEMMA Between ==
  ASSUME NEW a \in Nat, NEW b \in Nat, NEW n \in Nat, b > a, b =< n
  PROVE  /\ \A i \in 1..b : i \in 1..a \/ (i \in (a+1)..n /\ i > 0)
         /\ \A i \in 1..a : i \in 1..b
         /\ \A i \in (a+1)..n : i =< b => i \in 1..b
         /\ \A i \in (a+1)..n : i > b => i \in (b+1)..n
         /\ \A i \in (b+1)..n : i \in (a+1)..n /\ i > b
  OBVIOUS

(* A checkpoint stores a prefix.                                           *)
LEMMA StoreRefines ==
  ASSUME BufferAssumption, LogInv, LogInv', log' = log, call' = call, cp' > cp
  PROVE  [Frames!Next]_(Frames!vars)
<1>1. cp \in Nat /\ cp' \in Nat /\ Len(log) \in Nat /\ cp' =< Len(log)
  BY PlaceIs, PlaceNext
<1>2. cp' \in (cp+1)..Len(log)
  BY <1>1
<1>3. PICK cut \in Nat : cut = cp'
  BY <1>1
<1>4. log[cut] \in Call /\ Place[log[cut]] = cut
  BY <1>2, <1>3, PlaceIs
<1> DEFINE taken == {d \in Call : 0 < Place[d] /\ Place[d] =< cut}
<1>c. cut > cp /\ cut =< Len(log)
  BY <1>1, <1>3
<1>5. /\ \A i \in 1..cut : i \in 1..cp \/ (i \in (cp+1)..Len(log) /\ i > 0)
      /\ \A i \in 1..cp : i \in 1..cut
      /\ \A i \in (cp+1)..Len(log) : i =< cut => i \in 1..cut
      /\ \A i \in (cp+1)..Len(log) : i > cut => i \in (cut+1)..Len(log)
      /\ \A i \in (cut+1)..Len(log) : i \in (cp+1)..Len(log) /\ i > cut
  BY <1>1, <1>c, Between
<1>6. Taken' = Taken \cup taken
  <2>1. ASSUME NEW d \in Taken'  PROVE d \in Taken \cup taken
    <3>1. PICK i \in 1..cut : d = log[i]
      BY <1>3, <2>1 DEF Taken
    <3>2. CASE i \in 1..cp
      BY <3>1, <3>2 DEF Taken
    <3>3. CASE i \in (cp+1)..Len(log) /\ i > 0
      <4>1. d \in Call /\ Place[d] = i /\ i =< cut
        BY <3>1, <3>3, PlaceIs
      <4> QED BY <3>3, <4>1
    <3> QED BY <1>5, <3>1, <3>2, <3>3
  <2>2. ASSUME NEW d \in taken  PROVE d \in Taken'
    <3>1. Place[d] \in (cp+1)..Len(log) /\ log[Place[d]] = d /\ Place[d] =< cut
      BY PlaceIs
    <3>2. Place[d] \in 1..cut
      BY <1>5, <3>1
    <3> QED BY <1>3, <3>1, <3>2 DEF Taken
  <2>3. \A d \in Taken : d \in Taken'
    BY <1>3, <1>5 DEF Taken
  <2> QED BY <2>1, <2>2, <2>3
<1>7. ASSUME NEW d \in Call  PROVE Place'[d] = IF d \in taken THEN 0 ELSE Place[d]
  <2>1. Place[d] \in Nat /\ Place'[d] \in Nat
    BY PlaceIs, PlaceNext
  <2>2. CASE Place'[d] # 0
    <3>1. Place'[d] \in (cut+1)..Len(log) /\ log[Place'[d]] = d
      BY <1>3, <2>2, PlaceNext
    <3>2. Place'[d] \in (cp+1)..Len(log) /\ Place'[d] > cut
      BY <1>5, <3>1
    <3>3. Place[d] = Place'[d]
      BY <3>1, <3>2, PlaceIs
    <3> QED BY <2>1, <3>2, <3>3
  <2>3. CASE Place'[d] = 0 /\ Place[d] # 0
    <3>1. Place[d] \in (cp+1)..Len(log) /\ log[Place[d]] = d
      BY <2>3, PlaceIs
    <3>2. Place[d] > cut => Place[d] \in (cp'+1)..Len(log')
      BY <1>3, <1>5, <3>1
    <3>3. Place[d] > cut => Place'[d] = Place[d]
      BY <3>1, <3>2, PlaceNext
    <3> QED BY <2>1, <2>3, <3>3
  <2>4. CASE Place'[d] = 0 /\ Place[d] = 0
    BY <2>4
  <2> QED BY <2>2, <2>3, <2>4
<1>8. Place' = [d \in Call |-> IF d \in taken THEN 0 ELSE Place[d]]
  BY <1>7, PlaceNext
<1>9. Acked' = Acked
  BY DEF Acked
<1>10. Frames!Store(cut)
  BY <1>6, <1>8, <1>9, Zenon DEF Frames!Store, Place, Acked, Taken
<1> QED BY <1>4, <1>10, FramesCut, Zenon

(* A crash cuts what is behind the stable log, and no acknowledged frame.  *)
LEMMA CrashRefines ==
  ASSUME BufferAssumption, LogInv, LogInv', Crash
  PROVE  [Frames!Next]_(Frames!vars)
<1>1. /\ Len(log) \in Nat /\ cp \in Nat /\ stable \in Nat /\ cp =< stable /\ stable =< Len(log)
      /\ log \in Seq(Call) /\ LogOnce /\ cp' = cp /\ call \in [Call -> CallState]
  BY LogCalls DEF LogInv, BufferInv, DataType, Crash
<1>2. PICK n \in stable..Len(log) : log' = SubSeq(log, 1, n)
  BY DEF Crash
<1>3. n \in Nat /\ Len(log') = n /\ n =< Len(log) /\ stable =< n /\ \A i \in 1..n : log'[i] = log[i]
  BY <1>1, <1>2
<1>4. /\ \A i \in (cp+1)..n : i \in (cp+1)..Len(log) /\ i \in 1..n /\ i =< n
      /\ \A i \in (cp+1)..Len(log) : i =< n => i \in (cp+1)..n
      /\ \A i \in 1..cp : i \in 1..n
      /\ \A i \in 1..n : i \in 1..Len(log)
      /\ \A i \in 1..Len(log) : i =< stable => i \in 1..n
  BY <1>1, <1>3
<1>5. Taken' = Taken
  BY <1>1, <1>3, <1>4 DEF Taken
<1>6. Acked' = Acked
  <2>1. \A c \in Call : call'[c] = "acked" <=> call[c] = "acked"
    BY <1>1 DEF Crash
  <2>2. \A c \in Call : (\E i \in 1..n : log'[i] = c) => \E i \in 1..Len(log) : log[i] = c
    BY <1>3, <1>4
  <2>3. \A c \in Call : call[c] = "acked" /\ (\E i \in 1..Len(log) : log[i] = c)
                        => \E i \in 1..n : log'[i] = c
    BY <1>1, <1>3, <1>4 DEF LogOnce
  <2> QED BY <1>3, <2>1, <2>2, <2>3 DEF Acked
<1>7. ASSUME NEW d \in Call  PROVE Place'[d] = IF Place[d] > n THEN 0 ELSE Place[d]
  <2>1. Place[d] \in Nat /\ Place'[d] \in Nat
    BY PlaceIs, PlaceNext
  <2>2. CASE Place'[d] # 0
    <3>1. Place'[d] \in (cp+1)..n /\ log'[Place'[d]] = d
      BY <1>1, <1>3, <2>2, PlaceNext
    <3>2. Place'[d] \in (cp+1)..Len(log) /\ log[Place'[d]] = d /\ Place'[d] =< n
      BY <1>3, <1>4, <3>1
    <3>3. Place[d] = Place'[d]
      BY <3>2, PlaceIs
    <3> QED BY <1>3, <2>1, <3>2, <3>3
  <2>3. CASE Place'[d] = 0 /\ Place[d] # 0
    <3>1. Place[d] \in (cp+1)..Len(log) /\ log[Place[d]] = d
      BY <2>3, PlaceIs
    <3>2. Place[d] =< n => Place[d] \in (cp'+1)..Len(log') /\ log'[Place[d]] = d
      BY <1>1, <1>3, <1>4, <3>1
    <3>3. Place[d] =< n => Place'[d] = Place[d]
      BY <3>2, PlaceNext
    <3> QED BY <1>3, <2>1, <2>3, <3>3
  <2>4. CASE Place'[d] = 0 /\ Place[d] = 0
    BY <2>4
  <2> QED BY <2>2, <2>3, <2>4
<1>8. ASSUME NEW d \in Acked  PROVE d \in Call /\ Place[d] =< n
  <2>1. d \in Call /\ call[d] = "acked"
    BY <1>8 DEF Acked
  <2>2. CASE Place[d] = 0
    BY <1>3, <2>1, <2>2
  <2>3. CASE Place[d] # 0
    <3>1. Place[d] \in (cp+1)..Len(log) /\ log[Place[d]] = d
      BY <2>1, <2>3, PlaceIs
    <3>2. Place[d] \in 1..Len(log)
      BY <1>1, <3>1
    <3>3. Place[d] =< stable
      BY <1>1, <2>1, <3>1, <3>2 DEF LogOnce
    <3> QED BY <1>1, <1>3, <2>1, <3>2, <3>3
  <2> QED BY <2>2, <2>3
<1>9. Place' \in [Call -> Nat]
  BY PlaceNext
<1>10. \A d \in Call : Place[d] \in Nat
  BY PlaceIs
<1>11. \A d \in Call : Place'[d] > 0 => Place[d] > 0
  BY <1>3, <1>7, <1>10
<1>12. \A d \in Acked : Place[d] > 0 => Place'[d] > 0
  BY <1>3, <1>7, <1>8, <1>10
<1>13. \A d, e \in Call : Place'[d] > 0 /\ Place'[d] < Place'[e] => Place[d] < Place[e]
  BY <1>3, <1>7, <1>10
<1>14. Frames!Crash
  BY <1>5, <1>6, <1>9, <1>11, <1>12, <1>13, Zenon DEF Frames!Crash, Place, Acked, Taken
<1> QED BY <1>14, Zenon DEF Frames!Next

LEMMA StepRefines ==
  ASSUME BufferAssumption, LogInv, LogInv', [Next]_vars
  PROVE  [Frames!Next]_(Frames!vars)
<1>1. ASSUME log' = log, cp' = cp, call' = call  PROVE [Frames!Next]_(Frames!vars)
  BY <1>1, StutterRefines
<1>2. cp \in Nat /\ Len(log) \in Nat /\ LogOnce /\ (\A i \in 1..Len(log) : log[i] \in Call)
      /\ call \in [Call -> CallState]
  BY PlaceIs, LogCalls DEF LogInv, BufferInv, DataType
<1>a. ASSUME NEW c \in Call, NEW r, Reply(c, r), log' = log, cp' = cp,
             call[c] # "acked", call[c] \in {"idle", "checked"} \/ r # "acked"
      PROVE  [Frames!Next]_(Frames!vars)
  <2>1. \A i \in 1..Len(log) : call'[log[i]] = "acked" <=> call[log[i]] = "acked"
    BY <1>2, <1>a DEF LogOnce, Reply
  <2> QED BY <1>a, <2>1, StutterRefines
<1>3. ASSUME NEW c \in Call,
             Check(c) \/ PushFull(c) \/ PushUnavailable(c) \/ PushMemoryOnly(c) \/ CommitFails(c)
      PROVE  [Frames!Next]_(Frames!vars)
  <2>1. log' = log /\ cp' = cp
    BY <1>3 DEF Check, PushFull, PushUnavailable, PushMemoryOnly, CommitFails, disk
  <2>2. PICK r : Reply(c, r)
    BY <1>3 DEF Check, PushFull, PushUnavailable, PushMemoryOnly, CommitFails
  <2>3. CASE call[c] \in {"idle", "checked"}
    BY <1>a, <2>1, <2>2, <2>3
  <2>4. CASE CommitFails(c)
    BY <1>a, <2>1, <2>4 DEF CommitFails
  <2> QED BY <1>3, <2>3, <2>4 DEF Check, PushFull, PushUnavailable, PushMemoryOnly
<1>4. ASSUME NEW c \in Call, Push(c) \/ Acknowledge(c)  PROVE [Frames!Next]_(Frames!vars)
  BY <1>4, PushRefines, AcknowledgeRefines
<1>5. ASSUME NEW found \in Found, InsertChunk(found)  PROVE [Frames!Next]_(Frames!vars)
  <2>1. log' = log /\ cp' = cp /\ call' = call
    BY <1>5 DEF InsertChunk, disk
  <2> QED BY <1>1, <2>1
<1>6. ASSUME NEW k \in CacheKey, Expire(k)  PROVE [Frames!Next]_(Frames!vars)
  BY <1>1, <1>6 DEF Expire, disk
<1>7. CASE \/ Sync \/ Detach \/ InsertFails \/ Release \/ Panic \/ LatchWorkerErr
           \/ Stop \/ StopWorker \/ StopFlush \/ StopClose
  <2>1. log' = log /\ cp' = cp /\ call' = call
    BY <1>7 DEF Sync, Detach, InsertFails, Release, Panic, LatchWorkerErr, Stop, StopWorker,
                StopFlush, StopClose, disk
  <2> QED BY <1>1, <2>1
<1>8. CASE OpenQueue \/ ReplayNext \/ OpenFails \/ ReplayFails \/ UNCHANGED vars
  <2>1. log' = log /\ cp' = cp /\ call' = call
    BY <1>8 DEF OpenQueue, ReplayNext, OpenFails, ReplayFails, StartDegraded, vars, disk
  <2> QED BY <1>1, <2>1
<1>9. CASE Checkpoint \/ Attach \/ AttachFails
  <2>1. log' = log /\ call' = call
    BY <1>9 DEF Checkpoint, Attach, AttachFails, StartDegraded
  <2>2. cp' = cp \/ cp' > cp
    <3>1. cp =< Len(log)
      BY PlaceIs
    <3>2. cp' = cp \/ cp' = Len(log) \/ (cp' = CheckpointTarget /\ CheckpointTarget > cp)
      BY <1>9 DEF Checkpoint, Attach, AttachFails
    <3> QED BY <1>2, <3>1, <3>2
  <2> QED BY <1>1, <2>1, <2>2, StoreRefines
<1>10. CASE Crash
  BY <1>10, CrashRefines
<1> QED BY <1>3, <1>4, <1>5, <1>6, <1>7, <1>8, <1>9, <1>10 DEF Next

LEMMA InitRefines == Init => Frames!Init
<1> SUFFICES ASSUME Init  PROVE Frames!Init
  OBVIOUS
<1>1. log = <<>> /\ cp = 0 /\ Len(log) = 0 /\ \A c \in Call : call[c] = "idle"
  BY EmptySeq DEF Init
<1>2. Place = [c \in Call |-> 0]
  BY <1>1 DEF Place
<1>3. Acked = {} /\ Taken = {}
  BY <1>1 DEF Acked, Taken
<1> QED BY <1>2, <1>3, Zenon DEF Frames!Init, Place, Acked, Taken

(* To its log the ingest path is a durable FIFO of frames: a 200 names a   *)
(* frame that is there, a checkpoint stores a prefix, a crash cuts no      *)
(* acknowledged frame.  This is the contract that DiskQueue implements as  *)
(* long as no fsync fails, which is assumed here too.                      *)
THEOREM BufferUsesDurableLog == ASSUME BufferAssumption PROVE Spec => UsesDurableLog
<1>1. Init => LogOnce
  <2>1. ASSUME Init  PROVE log = <<>> /\ Len(log) = 0
    BY <2>1, EmptySeq DEF Init
  <2> QED BY <2>1 DEF LogOnce
<1>2. LogInv /\ LogInv' /\ [Next]_vars => [Frames!Next]_(Frames!vars)
  BY StepRefines
<1>3. LogInv = (BufferInv /\ LogOnce)
  BY DEF LogInv
<1>4. LogInv /\ [Next]_vars /\ BufferInv' => LogInv'
  BY LogOnceStep DEF LogInv
<1>5. Init => LogInv
  BY <1>1, InitInv, Zenon DEF LogInv
<1>6. Spec => []LogInv
  BY <1>4, <1>5, BufferInvariant, PTL DEF Spec
<1> QED BY <1>2, <1>6, InitRefines, PTL DEF Spec, UsesDurableLog, Frames!Spec
-----------------------------------------------------------------------------
(* What a sequence of events costs.  The fold walks the sets of positions, *)
(* taking the last one first.                                              *)

IsCosts(s, P, costs) ==
  costs = [p \in P |-> IF p = {} THEN 0 ELSE costs[p \ {Max(p)}] + Size[s[Max(p)]]]

\* The numbers up to the first that has something have not.
LEMMA LeastNumber ==
  ASSUME NEW B \in SUBSET Nat, B # {}
  PROVE  \E m \in B : m = 0 \/ (m - 1 \in Nat /\ m - 1 \notin B)
<1>1. PICK m \in B : \A other \in B : ~(<<other, m>> \in OpToRel(<, Nat))
  BY WFMin, NatLessThanWellFounded
<1>2. m = 0 \/ (m - 1 \in Nat /\ m - 1 < m)
  OBVIOUS
<1> QED BY <1>1, <1>2 DEF OpToRel

LEMMA LastIs ==
  ASSUME NEW n \in Nat, NEW p \in SUBSET (1..n), p # {}
  PROVE  Max(p) \in p /\ \A j \in p : Max(p) >= j
<1> DEFINE B == {m \in Nat : \A j \in p : j =< m}
<1>1. B \in SUBSET Nat /\ n \in B
  OBVIOUS
<1>2. PICK m \in B : m = 0 \/ (m - 1 \in Nat /\ m - 1 \notin B)
  BY <1>1, LeastNumber
<1>3. m # 0
  <2>1. PICK j \in p : TRUE
    OBVIOUS
  <2>2. j >= 1 /\ j =< m
    BY <1>2
  <2> QED BY <2>2
<1>4. PICK j \in p : j > m - 1
  BY <1>2, <1>3
<1>5. j = m
  BY <1>2, <1>4
<1> QED BY <1>2, <1>4, <1>5 DEF Max

LEMMA CostsExist ==
  ASSUME NEW n \in Nat, NEW s
  PROVE  \E costs : IsCosts(s, SUBSET (1..n), costs)
<1> DEFINE Has(m) == \E costs : IsCosts(s, SUBSET (1..m), costs)
           B == {m \in Nat : ~Has(m)}
<1> SUFFICES ASSUME B # {} PROVE FALSE
  OBVIOUS
<1>1. PICK m \in B : m = 0 \/ (m - 1 \in Nat /\ m - 1 \notin B)
  <2> HIDE DEF Has
  <2> QED BY LeastNumber
<1>2. Has(0)
  <2> DEFINE costs == [p \in SUBSET (1..0) |-> 0]
  <2>1. \A p \in SUBSET (1..0) : p = {}
    OBVIOUS
  <2>2. costs = [p \in SUBSET (1..0) |-> IF p = {} THEN 0 ELSE costs[p \ {Max(p)}] + Size[s[Max(p)]]]
    BY <2>1
  <2> HIDE DEF costs
  <2> QED BY <2>2 DEF IsCosts
<1>3. m - 1 \in Nat /\ m \in Nat /\ Has(m - 1)
  <2> HIDE DEF Has
  <2> QED BY <1>1, <1>2
<1>4. PICK costs : IsCosts(s, SUBSET (1..(m - 1)), costs)
  BY <1>3
<1> DEFINE more == [p \in SUBSET (1..m) |-> IF m \in p THEN costs[p \ {m}] + Size[s[m]] ELSE costs[p]]
<1>5. ASSUME NEW p \in SUBSET (1..m)
      PROVE  more[p] = IF p = {} THEN 0 ELSE more[p \ {Max(p)}] + Size[s[Max(p)]]
  <2>1. \A q \in SUBSET (1..m) : m \notin q => q \in SUBSET (1..(m - 1))
    BY <1>3
  <2>2. CASE m \in p
    <3>1. Max(p) = m
      <4>1. Max(p) \in 1..m /\ Max(p) >= m
        BY <1>3, <2>2, LastIs
      <4> QED BY <1>3, <4>1
    <3>2. p \ {m} \in SUBSET (1..m) /\ m \notin p \ {m}
      OBVIOUS
    <3>3. more[p \ {m}] = costs[p \ {m}]
      BY <3>2
    <3> QED BY <2>2, <3>1, <3>3
  <2>3. CASE p = {}
    <3>1. p \in SUBSET (1..(m - 1)) /\ costs[p] = 0
      BY <1>4, <2>1, <2>3 DEF IsCosts
    <3> QED BY <2>3, <3>1
  <2>4. CASE m \notin p /\ p # {}
    <3> DEFINE l == Max(p)
    <3>1. l \in p
      BY <1>3, <2>4, LastIs
    <3>2. costs[p] = costs[p \ {l}] + Size[s[l]]
      BY <1>4, <2>1, <2>4 DEF IsCosts
    <3>3. p \ {l} \in SUBSET (1..m) /\ m \notin p \ {l}
      BY <2>4
    <3> HIDE DEF l
    <3>4. more[p \ {l}] = costs[p \ {l}] /\ more[p] = costs[p]
      BY <2>4, <3>3
    <3> QED BY <2>4, <3>2, <3>4 DEF l
  <2> QED BY <2>2, <2>3, <2>4
<1>6. IsCosts(s, SUBSET (1..m), more)
  <2>1. more = [p \in SUBSET (1..m) |-> more[p]]
    OBVIOUS
  <2> HIDE DEF more
  <2> QED BY <1>5, <2>1 DEF IsCosts
<1> HIDE DEF more
<1>7. Has(m)
  BY <1>6
<1> HIDE DEF Has
<1> QED BY <1>1, <1>7

(* What the first of a sequence cost, and then one more.                   *)
CostsUpTo(s, c) ==
  /\ c \in [0..Len(s) -> Nat] /\ c[0] = 0 /\ Cost(s) = c[Len(s)]
  /\ \A i \in 1..Len(s) : c[i] = c[i - 1] + Size[s[i]]

LEMMA CostGoes ==
  ASSUME BufferAssumption, NEW s \in Seq(Event)
  PROVE  \E c : CostsUpTo(s, c)
<1> DEFINE n == Len(s)
           iter[p \in SUBSET DOMAIN s] ==
             IF p = {} THEN 0 ELSE LET x == Max(p) IN iter[p \ {x}] + Size[s[x]]
<1>1. n \in Nat /\ DOMAIN s = 1..n /\ \A i \in 1..n : s[i] \in Event /\ Size[s[i]] \in Nat
  BY LenProperties, BufferAssumption DEF BufferAssumption
<1>3. Cost(s) = iter[DOMAIN s]
  BY DEF Cost, FoldLeft, MapThenFoldSet
<1>4. iter = [p \in SUBSET DOMAIN s |-> IF p = {} THEN 0 ELSE LET x == Max(p) IN iter[p \ {x}] + Size[s[x]]]
  <2>1. \E costs : costs = [p \in SUBSET DOMAIN s |->
                   IF p = {} THEN 0 ELSE LET x == Max(p) IN costs[p \ {x}] + Size[s[x]]]
    <3> HIDE DEF iter, n
    <3>1. PICK costs : IsCosts(s, SUBSET (1..n), costs)
      BY <1>1, CostsExist
    <3>2. IsCosts(s, SUBSET DOMAIN s, costs)
      BY <1>1, <3>1
    <3> QED BY <3>2, Zenon DEF IsCosts
  <2> QED BY <2>1
<1> HIDE DEF iter, n
<1>5. IsCosts(s, SUBSET (1..n), iter)
  BY <1>1, <1>4, Zenon DEF IsCosts
<1> DEFINE c == [k \in 0..n |-> iter[1..k]]
<1>6. c[0] = 0 /\ Cost(s) = c[n]
  <2>1. 1..0 = {} /\ {} \in SUBSET (1..n)
    OBVIOUS
  <2>2. iter[{}] = 0
    BY <1>5, <2>1 DEF IsCosts
  <2> QED BY <1>1, <1>3, <2>1, <2>2
<1>7. ASSUME NEW i \in 1..n PROVE c[i] = c[i - 1] + Size[s[i]]
  <2>1. /\ i \in 0..n /\ i - 1 \in 0..n /\ 1..i \in SUBSET (1..n) /\ i \in 1..i
        /\ (1..i) \ {i} = 1..(i - 1) /\ i \in Nat
    BY <1>1
  <2>2. Max(1..i) = i
    <3>1. 1..i # {} /\ 1..i \in SUBSET (1..i)
      BY <2>1
    <3>2. Max(1..i) \in 1..i /\ Max(1..i) >= i
      BY <2>1, <3>1, LastIs
    <3> QED BY <2>1, <3>2
  <2>3. iter[1..i] = iter[(1..i) \ {i}] + Size[s[i]]
    BY <1>5, <2>1, <2>2 DEF IsCosts
  <2> QED BY <2>1, <2>3
<1> HIDE DEF c
<1>8. ASSUME NEW k \in 0..n PROVE c[k] \in Nat
  <2> DEFINE B == {m \in 0..n : c[m] \notin Nat}
  <2> SUFFICES ASSUME B # {} PROVE FALSE
    OBVIOUS
  <2>1. PICK m \in B : m = 0 \/ (m - 1 \in Nat /\ m - 1 \notin B)
    <3>1. B \in SUBSET Nat
      BY <1>1
    <3> QED BY <3>1, LeastNumber
  <2>2. m \in 1..n /\ m - 1 \in 0..n /\ c[m - 1] \in Nat
    BY <1>1, <1>6, <2>1
  <2>3. c[m] \in Nat
    BY <1>1, <1>7, <2>2
  <2> QED BY <2>1, <2>3
<1>9. c \in [0..n -> Nat]
  <2>1. c = [k \in 0..n |-> c[k]]
    BY DEF c
  <2> QED BY <1>8, <2>1
<1> QED BY <1>6, <1>7, <1>9 DEF CostsUpTo, n

(* The cost of one sequence behind another is the sum.                     *)
LEMMA CostConcat ==
  ASSUME BufferAssumption, NEW s \in Seq(Event), NEW t \in Seq(Event)
  PROVE  Cost(s \o t) = Cost(s) + Cost(t) /\ Cost(s) \in Nat /\ Cost(t) \in Nat
<1> DEFINE u == s \o t
           m == Len(s)
           n == Len(t)
<1>1. /\ u \in Seq(Event) /\ m \in Nat /\ n \in Nat /\ Len(u) = m + n
      /\ \A i \in 1..(m + n) : u[i] = IF i =< m THEN s[i] ELSE t[i - m]
  BY ConcatProperties, LenProperties
<1> HIDE DEF u, m, n
<1>2. PICK a : CostsUpTo(s, a)
  BY CostGoes
<1>3. PICK b : CostsUpTo(t, b)
  BY CostGoes
<1>4. PICK c : CostsUpTo(u, c)
  BY <1>1, CostGoes
<1>5. /\ a \in [0..m -> Nat] /\ a[0] = 0 /\ Cost(s) = a[m]
      /\ \A i \in 1..m : a[i] = a[i - 1] + Size[s[i]]
      /\ b \in [0..n -> Nat] /\ b[0] = 0 /\ Cost(t) = b[n]
      /\ \A i \in 1..n : b[i] = b[i - 1] + Size[t[i]]
  BY <1>2, <1>3 DEF CostsUpTo, m, n
<1>6. /\ c \in [0..(m + n) -> Nat] /\ c[0] = 0 /\ Cost(u) = c[m + n]
      /\ \A i \in 1..(m + n) : c[i] = c[i - 1] + Size[u[i]]
  BY <1>1, <1>4 DEF CostsUpTo
<1>7. ASSUME NEW k \in 0..m PROVE c[k] = a[k]
  <2> DEFINE B == {i \in 0..m : c[i] # a[i]}
  <2> SUFFICES ASSUME B # {} PROVE FALSE
    OBVIOUS
  <2>1. PICK i \in B : i = 0 \/ (i - 1 \in Nat /\ i - 1 \notin B)
    <3>1. B \in SUBSET Nat
      BY <1>1
    <3> QED BY <3>1, LeastNumber
  <2>2. i \in 1..m /\ i - 1 \in 0..m /\ i \in 1..(m + n) /\ c[i - 1] = a[i - 1]
    BY <1>1, <1>5, <1>6, <2>1
  <2>3. u[i] = s[i]
    BY <1>1, <2>2
  <2>4. c[i] = a[i]
    BY <1>5, <1>6, <2>2, <2>3
  <2> QED BY <2>1, <2>4
<1>8. ASSUME NEW k \in 0..n PROVE c[m + k] = a[m] + b[k]
  <2> DEFINE B == {i \in 0..n : c[m + i] # a[m] + b[i]}
  <2> SUFFICES ASSUME B # {} PROVE FALSE
    OBVIOUS
  <2>0. a[m] \in Nat /\ c[m] = a[m] /\ m + 0 = m
    BY <1>1, <1>5, <1>7
  <2>1. PICK i \in B : i = 0 \/ (i - 1 \in Nat /\ i - 1 \notin B)
    <3>1. B \in SUBSET Nat
      BY <1>1
    <3> QED BY <3>1, LeastNumber
  <2>2. i # 0
    BY <1>5, <2>0, <2>1
  <2> DEFINE l == m + i
  <2>3. i \in 1..n /\ i - 1 \in 0..n /\ l \in 1..(m + n) /\ l - 1 = m + (i - 1) /\ ~(l =< m) /\ l - m = i
    <3>1. i \in 0..n
      BY <2>1
    <3>2. m \in Nat /\ n \in Nat
      BY <1>1
    <3>3. \A x, y \in Nat : \A z \in 0..y : z # 0 =>
            /\ z \in 1..y /\ z - 1 \in 0..y /\ x + z \in 1..(x + y)
            /\ x + z - 1 = x + (z - 1) /\ ~(x + z =< x) /\ x + z - x = z
      OBVIOUS
    <3> HIDE DEF B
    <3> QED BY ONLY <2>2, <3>1, <3>2, <3>3 DEF l
  <2> HIDE DEF l
  <2>4. c[m + (i - 1)] = a[m] + b[i - 1]
    BY <2>1, <2>3
  <2>5. u[l] = t[i]
    BY <1>1, <2>3
  <2>6. c[l] = a[m] + b[i - 1] + Size[t[i]] /\ b[i] = b[i - 1] + Size[t[i]]
    BY <1>5, <1>6, <2>3, <2>4, <2>5
  <2>7. Size[t[i]] \in Nat /\ b[i - 1] \in Nat
    <3>1. t[i] \in Event
      BY <2>3, ElementOfSeq DEF n
    <3> QED BY <1>5, <2>3, <3>1, BufferAssumption DEF BufferAssumption
  <2>8. c[l] = a[m] + b[i]
    BY <2>0, <2>6, <2>7
  <2> QED BY <2>1, <2>8 DEF l
<1>9. n \in 0..n /\ m \in 0..m
  BY <1>1
<1>10. Cost(u) = Cost(s) + Cost(t)
  BY <1>5, <1>6, <1>8, <1>9
<1>11. Cost(s) \in Nat /\ Cost(t) \in Nat
  BY <1>5, <1>9
<1> QED BY <1>10, <1>11 DEF u

LEMMA CostOfNone == ASSUME BufferAssumption PROVE Cost(<<>>) = 0
<1>1. <<>> \in Seq(Event) /\ Len(<<>>) = 0
  BY EmptySeq
<1>2. PICK c : CostsUpTo(<<>>, c)
  BY <1>1, CostGoes
<1> QED BY <1>1, <1>2 DEF CostsUpTo

(* What is left of a batch costs no more than the batch.                   *)
LEMMA CostOfRest ==
  ASSUME BufferAssumption, DataType
  PROVE  Cost(Rest) \in Nat /\ Cost(flight.batch) \in Nat /\ Cost(Rest) =< Cost(flight.batch)
<1> DEFINE b == flight.batch
           k == flight.committed
<1>1. b \in Seq(Event) /\ k \in Nat /\ k =< Len(b) /\ Len(b) \in Nat
  BY LenProperties DEF DataType, FlightType
<1>2. /\ 1 \in 1..(Len(b) + 1) /\ k \in (1 - 1)..Len(b) /\ Len(b) \in k..Len(b)
  BY <1>1
<1>3. SubSeq(b, 1, k) \o SubSeq(b, k + 1, Len(b)) = b
  <2>1. PICK q \in Seq(Event) : q = b
    BY <1>1
  <2>2. SubSeq(q, 1, k) \o SubSeq(q, k + 1, Len(q)) = SubSeq(q, 1, Len(q))
    BY <1>2, <2>1, ConcatAdjacentSubSeq
  <2> QED BY <2>1, <2>2, SubSeqFull
<1>4. SubSeq(b, 1, k) \in Seq(Event) /\ SubSeq(b, k + 1, Len(b)) \in Seq(Event)
  <2>1. (\A i \in 1..k : b[i] \in Event) /\ \A i \in (k + 1)..Len(b) : b[i] \in Event
    BY <1>1
  <2> QED BY <1>1, <2>1, SubSeqProperties
<1>5. /\ Cost(SubSeq(b, 1, k) \o SubSeq(b, k + 1, Len(b))) = Cost(SubSeq(b, 1, k)) + Cost(SubSeq(b, k + 1, Len(b)))
      /\ Cost(SubSeq(b, 1, k)) \in Nat /\ Cost(SubSeq(b, k + 1, Len(b))) \in Nat
  BY <1>4, CostConcat
<1> HIDE DEF b, k
<1>6. Cost(b) = Cost(SubSeq(b, 1, k)) + Cost(SubSeq(b, k + 1, Len(b)))
  BY <1>3, <1>5
<1>7. \A x, y, z \in Nat : z = x + y => y =< z
  OBVIOUS
<1>8. Cost(b) \in Nat
  BY <1>5, <1>6
<1>9. Cost(SubSeq(b, k + 1, Len(b))) =< Cost(b)
  BY <1>5, <1>6, <1>7, <1>8
<1> QED BY <1>5, <1>8, <1>9 DEF Rest, b, k

(* The budget holds with what each flush took, and what it took is what    *)
(* its batch costs; a worker that died in one leaves its credit taken.     *)
BudgetKept ==
  /\ queuedBytes = Cost(events) /\ flightBytes \in Nat /\ flight.cost \in Nat
  /\ queuedBytes + flightBytes =< MaxBufferedBytes
  /\ flusher \in {"inserting", "inserted"} => /\ flightBytes = flight.cost
                                              /\ flight.cost = Cost(flight.batch)
  /\ flusher \in {"idle", "released"} /\ ~workerErr => flightBytes = 0

LEMMA BudgetStep ==
  ASSUME BufferAssumption, BufferInv, BudgetKept, [Next]_vars
  PROVE  BudgetKept'
<1> USE BufferAssumption
<1>t. DataType /\ ControlShape
  BY DEF BufferInv
<1>n. /\ events \in Seq(Event) /\ <<>> \in Seq(Event) /\ Rest \in Seq(Event) /\ flight.batch \in Seq(Event)
      /\ \A c \in Call : Batch[c] \in Seq(Event)
      /\ Cost(events) \in Nat /\ Cost(<<>>) = 0 /\ MaxBufferedBytes \in Nat
      /\ Cost(Rest) \in Nat /\ Cost(flight.batch) \in Nat /\ Cost(Rest) =< Cost(flight.batch)
      /\ queuedBytes = Cost(events) /\ flightBytes \in Nat /\ flight.cost \in Nat
      /\ queuedBytes + flightBytes =< MaxBufferedBytes
  <2>1. Rest \in Seq(Event)
    BY <1>t, ChunkAndRest
  <2>2. events \in Seq(Event) /\ <<>> \in Seq(Event)
    BY <1>t, EmptySeq DEF DataType
  <2> QED BY <1>t, <2>1, <2>2, CostConcat, CostOfNone, CostOfRest DEF DataType, FlightType, BudgetKept, BufferAssumption
<1>k. ASSUME UNCHANGED <<events, queuedBytes, flightBytes, flight, flusher, workerErr>>
      PROVE  BudgetKept'
  BY <1>k DEF BudgetKept
<1>0. NoFlight.cost = 0
  BY DEF NoFlight
<1>1. ASSUME \/ \E k \in CacheKey : Expire(k)
             \/ \E c \in Call : \/ Check(c) \/ PushFull(c) \/ PushUnavailable(c) \/ Acknowledge(c)
                                \/ CommitFails(c)
             \/ Sync \/ Stop \/ StopWorker \/ StopFlush \/ StopClose \/ UNCHANGED vars
      PROVE  BudgetKept'
  BY <1>k, <1>1 DEF Expire, Check, PushFull, PushUnavailable, Acknowledge, CommitFails, Sync, Stop,
                    StopWorker, StopFlush, StopClose, vars, memory, worker
<1>2. ASSUME NEW c \in Call, Push(c) \/ PushMemoryOnly(c) PROVE BudgetKept'
  <2>1. /\ events' = events \o Batch[c] /\ queuedBytes' = queuedBytes + Cost(Batch[c])
        /\ queuedBytes + flightBytes + Cost(Batch[c]) =< MaxBufferedBytes
        /\ UNCHANGED <<flightBytes, flight, flusher, workerErr>>
    BY <1>2 DEF Push, PushMemoryOnly, Buffered, Fits, worker
  <2>2. Cost(events') = Cost(events) + Cost(Batch[c]) /\ Cost(Batch[c]) \in Nat
    BY <1>n, <2>1, CostConcat
  <2>3. queuedBytes' + flightBytes =< MaxBufferedBytes
    BY <1>n, <2>1, <2>2
  <2> QED BY <1>n, <2>1, <2>2, <2>3 DEF BudgetKept
<1>3. ASSUME Detach PROVE BudgetKept'
  <2>1. /\ flusher = "idle" /\ events' = <<>> /\ queuedBytes' = 0 /\ flightBytes' = flightBytes + queuedBytes
        /\ flight'.cost = queuedBytes /\ flight'.batch = events /\ flusher' = "inserting" /\ workerErr' = workerErr
        /\ owner \notin {"exited", "closing"}
    BY <1>3 DEF Detach
  <2>2. flightBytes = 0
    BY <1>t, <2>1 DEF BudgetKept, ControlShape
  <2> QED BY <1>n, <2>1, <2>2 DEF BudgetKept
<1>4. ASSUME NEW found \in Found, InsertChunk(found) PROVE BudgetKept'
  <2>1. /\ UNCHANGED <<events, queuedBytes, flightBytes, workerErr>>
        /\ flight'.cost = flight.cost /\ flight'.batch = flight.batch
        /\ flusher' = flusher \/ (flusher = "inserting" /\ flusher' = "inserted")
    BY <1>t, <1>4 DEF InsertChunk, memory, DataType, FlightType, Inserting, ControlShape
  <2> QED BY <2>1 DEF BudgetKept
<1>5. ASSUME InsertFails PROVE BudgetKept'
  <2>1. /\ flusher = "inserting" /\ events' = Rest \o events /\ queuedBytes' = queuedBytes + Cost(Rest)
        /\ flightBytes' = NotNegative(flightBytes - flight.cost) /\ flight' = NoFlight /\ flusher' = "idle"
    BY <1>5 DEF InsertFails, Requeue, Returned
  <2>2. flightBytes = flight.cost /\ flight.cost = Cost(flight.batch)
    BY <2>1 DEF BudgetKept
  <2>3. flightBytes' = 0
    BY <1>n, <2>1, <2>2 DEF NotNegative
  <2>4. Cost(events') = Cost(Rest) + Cost(events)
    BY <1>n, <2>1, CostConcat
  <2>5. queuedBytes' = Cost(events') /\ queuedBytes' + flightBytes' =< MaxBufferedBytes
    BY <1>n, <2>1, <2>2, <2>3, <2>4
  <2> QED BY <1>0, <2>1, <2>3, <2>5 DEF BudgetKept
<1>6. ASSUME Release PROVE BudgetKept'
  <2>1. /\ flusher = "inserted" /\ flightBytes' = NotNegative(flightBytes - flight.cost)
        /\ UNCHANGED <<events, queuedBytes, workerErr>> /\ flusher' \in {"released", "idle"}
        /\ flight' \in {flight, NoFlight}
    BY <1>6 DEF Release, Returned
  <2>2. flightBytes' = 0
    BY <1>n, <2>1 DEF BudgetKept, NotNegative
  <2> QED BY <1>0, <1>n, <2>1, <2>2 DEF BudgetKept
<1>7. ASSUME Checkpoint PROVE BudgetKept'
  <2>1. /\ flusher = "released" /\ flusher' = "idle" /\ flight' = NoFlight
        /\ UNCHANGED <<events, queuedBytes, flightBytes, workerErr>>
    BY <1>7 DEF Checkpoint, Returned, memory
  <2> QED BY <1>0, <2>1 DEF BudgetKept
<1>8. ASSUME Panic \/ LatchWorkerErr PROVE BudgetKept'
  <2>1. /\ flight'.cost \in Nat /\ UNCHANGED <<events, queuedBytes, flightBytes>>
        /\ flusher' = "panicking" \/ (flusher' = "idle" /\ workerErr')
    BY <1>0, <1>n, <1>8 DEF Panic, LatchWorkerErr, memory
  <2> QED BY <2>1 DEF BudgetKept
<1>9. ASSUME Crash PROVE BudgetKept'
  <2>1. events' = <<>> /\ queuedBytes' = 0 /\ flightBytes' = 0 /\ flight' = NoFlight /\ flusher' = "idle"
    BY <1>9 DEF Crash
  <2> QED BY <1>0, <1>n, <2>1 DEF BudgetKept
<1>10. ASSUME OpenQueue \/ ReplayNext \/ Attach \/ OpenFails \/ ReplayFails \/ AttachFails PROVE BudgetKept'
  <2>1. proc \in {"down", "recovering"} /\ flight'.cost = 0
    BY <1>0, <1>10 DEF OpenQueue, ReplayNext, Attach, OpenFails, ReplayFails, AttachFails, StartDegraded, Replay, NoFlight
  <2>2. UNCHANGED <<events, queuedBytes, flightBytes, flusher, workerErr>>
    BY <1>10 DEF OpenQueue, ReplayNext, Attach, OpenFails, ReplayFails, AttachFails, StartDegraded, memory
  <2>3. flusher = "idle"
    BY <1>t, <2>1 DEF ControlShape
  <2> QED BY <2>1, <2>2, <2>3 DEF BudgetKept
<1> QED BY <1>1, <1>2, <1>3, <1>4, <1>5, <1>6, <1>7, <1>8, <1>9, <1>10 DEF Next

(* The byte budget of buffer.go is exact: queued is what the queue costs,  *)
(* in flight what the flushed batch costs, together within the budget, and *)
(* the clamp at zero never acts, for any sizes, requeues and faults; only  *)
(* a worker that panicked leaves its credit taken.                         *)
THEOREM BufferBudgetExact == ASSUME BufferAssumption PROVE Spec => []BudgetExact
<1>1. Init => BudgetKept
  <2>1. Cost(<<>>) = 0
    BY CostOfNone
  <2> QED BY <2>1, BufferAssumption DEF Init, BudgetKept, NoFlight, BufferAssumption
<1>2. BufferInv /\ BudgetKept /\ [Next]_vars => BudgetKept'
  BY BudgetStep
<1>3. BudgetKept => BudgetExact
  BY DEF BudgetKept, BudgetExact
<1> QED BY <1>1, <1>2, <1>3, BufferInvariant, PTL DEF Spec

(* The types, beside those the invariant has.                              *)
LatchType == latched \in BOOLEAN /\ bufErr \in BOOLEAN

LEMMA LatchTypeStep ==
  ASSUME LatchType, [Next]_vars
  PROVE  LatchType'
<1>1. CASE UNCHANGED <<latched, bufErr>>
  BY <1>1, Zenon DEF LatchType
<1>2. ASSUME FlushFails \/ (latched' = FALSE /\ bufErr' = FALSE)  PROVE LatchType'
  BY <1>2, Zenon DEF FlushFails, LatchType
<1>3. ASSUME NEW c \in Call, PushUnavailable(c)  PROVE LatchType'
  BY <1>1, <1>3, Zenon DEF PushUnavailable, LatchType
<1>4. CASE Sync \/ Crash
  BY <1>1, <1>2, <1>4, Zenon DEF Sync, Crash
<1>5. CASE Checkpoint
  <2>1. \/ UNCHANGED <<latched, bufErr>>
        \/ FlushFails
        \/ latched' \in {latched} \cup (IF "checkpoint" \in FaultKind THEN {TRUE} ELSE {}) /\ bufErr' = bufErr
        \/ latched' = TRUE /\ bufErr' = bufErr
    BY <1>5, Zenon DEF Checkpoint
  <2>2. latched' \in {latched} \cup (IF "checkpoint" \in FaultKind THEN {TRUE} ELSE {})
          => latched' = latched \/ latched' = TRUE
    BY Zenon
  <2> QED BY <1>1, <1>2, <2>1, <2>2, Zenon DEF LatchType
<1>6. ASSUME NEW c \in Call,
             Check(c) \/ PushFull(c) \/ Push(c) \/ PushMemoryOnly(c) \/ Acknowledge(c) \/ CommitFails(c)
      PROVE  LatchType'
  BY <1>1, <1>6, Zenon DEF Check, PushFull, Push, PushMemoryOnly, Acknowledge, CommitFails, disk
<1>7. ASSUME NEW found, InsertChunk(found)  PROVE LatchType'
  BY <1>1, <1>7, Zenon DEF InsertChunk, disk
<1>8. ASSUME NEW k, Expire(k)  PROVE LatchType'
  BY <1>1, <1>8, Zenon DEF Expire, disk
<1>9. CASE Detach \/ InsertFails \/ Release \/ Panic \/ LatchWorkerErr
  BY <1>1, <1>9, Zenon DEF Detach, InsertFails, Release, Panic, LatchWorkerErr, disk
<1>10. CASE Stop \/ StopWorker \/ StopFlush \/ StopClose
  BY <1>1, <1>10, Zenon DEF Stop, StopWorker, StopFlush, StopClose, disk
<1>11. CASE OpenQueue \/ ReplayNext \/ Attach \/ OpenFails \/ AttachFails \/ ReplayFails
  BY <1>1, <1>11, Zenon DEF OpenQueue, ReplayNext, Attach, OpenFails, AttachFails, ReplayFails, StartDegraded, disk
<1>12. CASE UNCHANGED vars
  BY <1>1, <1>12, Zenon DEF vars, disk
<1> QED BY <1>3, <1>4, <1>5, <1>6, <1>7, <1>8, <1>9, <1>10, <1>11, <1>12, Zenon DEF Next

ShapeType ==
  /\ proc \in {"down", "recovering", "up", "stopped"}
  /\ attached \in BOOLEAN /\ workerErr \in BOOLEAN /\ stopped \in BOOLEAN
  /\ flusher \in {"idle", "inserting", "inserted", "released", "panicking"}
  /\ owner \in {"worker", "final", "exited", "stopper", "closing"}
  /\ lastOffset =< Len(log) /\ db \in [Event -> 0..2] /\ crashes \in Nat

CacheType ==
  /\ cache = [x \in {"seen", "fresh", "order", "head"} |-> cache[x]]
  /\ cache.fresh \subseteq CacheKey /\ cache.order \in Seq(CacheKey) /\ cache.head \in Nat

LEMMA RecordTyped ==
  ASSUME BufferAssumption, CacheType, NEW c \in Call, Record(c)
  PROVE  CacheType'
<1> DEFINE k == Key[c]
<1>1. CASE k = NoKey
  BY <1>1 DEF Record, CacheType
<1>2. CASE k # NoKey
  <2>1. k \in CacheKey
    BY <1>2 DEF BufferAssumption
  <2>2. /\ cache.order \in Seq(CacheKey) /\ Len(cache.order) \in Nat /\ cache.head \in Nat
        /\ CacheMax \in Nat \ {0} /\ cache.fresh \subseteq CacheKey
    BY LenProperties DEF CacheType, BufferAssumption
  <2>3. (cache.head % CacheMax) + 1 \in Nat
    BY <2>2
  <2>4. Append(cache.order, k) \in Seq(CacheKey)
    BY <2>1, <2>2
  <2>5. [cache.order EXCEPT ![cache.head] = k] \in Seq(CacheKey)
    <3>1. CASE cache.head \in 1..Len(cache.order)
      BY <2>1, <2>2, <3>1, ExceptSeq
    <3>2. CASE cache.head \notin 1..Len(cache.order)
      <4>1. DOMAIN cache.order = 1..Len(cache.order)
        BY <2>2, LenProperties
      <4>2. [cache.order EXCEPT ![cache.head] = k] = cache.order
        BY <2>2, <3>2, <4>1
      <4> QED BY <2>2, <4>2
    <3> QED BY <3>1, <3>2
  <2>6. Ring(k)[1] \in Seq(CacheKey) /\ Ring(k)[2] \in Nat
    <3>1. CASE cache.seen[k] # <<>>
      BY <2>2, <3>1 DEF Ring
    <3>2. CASE cache.seen[k] = <<>> /\ Len(cache.order) < CacheMax
      BY <2>2, <2>4, <3>2 DEF Ring
    <3>3. CASE cache.seen[k] = <<>> /\ ~(Len(cache.order) < CacheMax)
      BY <2>3, <2>5, <3>3 DEF Ring
    <3> QED BY <3>1, <3>2, <3>3
  <2>7. PICK seen : cache' = [seen |-> seen, fresh |-> (cache.fresh \ Evicted(k)) \cup {k},
                               order |-> Ring(k)[1], head |-> Ring(k)[2]]
    BY <1>2 DEF Record
  <2> QED BY <2>1, <2>2, <2>6, <2>7 DEF CacheType
<1> QED BY <1>1, <1>2

LEMMA CacheTypeStep ==
  ASSUME BufferAssumption, CacheType, [Next]_vars
  PROVE  CacheType'
<1>1. ASSUME UNCHANGED cache PROVE CacheType'
  BY <1>1 DEF CacheType
<1>2. CASE \E k \in CacheKey : Expire(k)
  BY <1>2 DEF Expire, CacheType
<1>3. CASE \E c \in Call : Record(c)
  BY <1>3, RecordTyped
<1>4. CASE cache' = EmptyCache
  BY <1>4, EmptySeq DEF CacheType, EmptyCache
<1>5. ASSUME NEW c \in Call, Check(c) \/ PushFull(c) \/ PushUnavailable(c) \/ Push(c)
                               \/ PushMemoryOnly(c) \/ Acknowledge(c) \/ CommitFails(c)
      PROVE  UNCHANGED cache \/ Record(c)
  BY <1>5 DEF Check, PushFull, PushUnavailable, Push, PushMemoryOnly, Acknowledge, CommitFails
<1>6. ASSUME NEW found \in Found, InsertChunk(found) PROVE UNCHANGED cache
  BY <1>6 DEF InsertChunk
<1>7. ASSUME \/ Sync \/ Detach \/ InsertFails \/ Release \/ Checkpoint \/ Panic \/ LatchWorkerErr
             \/ Stop \/ StopWorker \/ StopFlush \/ StopClose \/ OpenQueue \/ ReplayNext \/ Attach
             \/ OpenFails \/ ReplayFails \/ AttachFails \/ UNCHANGED vars
      PROVE  UNCHANGED cache
  BY <1>7 DEF Sync, Detach, InsertFails, Release, Checkpoint, Panic, LatchWorkerErr, Stop, StopWorker, StopFlush,
              StopClose, OpenQueue, ReplayNext, Attach, OpenFails, ReplayFails, AttachFails, StartDegraded, vars
<1>8. ASSUME Crash PROVE cache' = EmptyCache
  BY <1>8 DEF Crash
<1> QED BY <1>1, <1>2, <1>3, <1>4, <1>5, <1>6, <1>7, <1>8 DEF Next

LEMMA ShapeTypeStep ==
  ASSUME BufferAssumption, BufferInv, ShapeType, [Next]_vars
  PROVE  ShapeType'
<1>t. /\ DataType /\ log \in Seq(Call) /\ Len(log) \in Nat /\ ControlShape
  BY LogCalls DEF BufferInv, DataType
<1>i. ASSUME NEW found, db' = Inserted(found) PROVE db' \in [Event -> 0..2]
  BY <1>i DEF Inserted, ShapeType
<1>f. ASSUME TxFails PROVE db' \in [Event -> 0..2]
  BY <1>f, <1>i DEF TxFails, ShapeType
<1>1. ASSUME NEW k \in CacheKey, Expire(k) PROVE ShapeType'
  BY <1>1 DEF Expire, ShapeType, disk, memory, worker
<1>2. ASSUME NEW c \in Call, Check(c) \/ PushFull(c) \/ Acknowledge(c) \/ CommitFails(c) PROVE ShapeType'
  BY <1>2 DEF Check, PushFull, Acknowledge, CommitFails, ShapeType, disk, memory, worker
<1>3. ASSUME NEW c \in Call, PushUnavailable(c) PROVE ShapeType'
  BY <1>3 DEF PushUnavailable, ShapeType, disk, memory, worker
<1>4. ASSUME NEW c \in Call, Push(c) PROVE ShapeType'
  <2>1. Len(log') = Len(log) + 1 /\ lastOffset' = Len(log) + 1
    BY <1>4, <1>t DEF Push
  <2> QED BY <1>4, <1>t, <2>1 DEF Push, ShapeType, worker
<1>5. ASSUME NEW c \in Call, PushMemoryOnly(c) PROVE ShapeType'
  BY <1>5 DEF PushMemoryOnly, ShapeType, disk, worker
<1>6. CASE Sync
  BY <1>6 DEF Sync, ShapeType, memory, worker
<1>7. CASE Detach
  BY <1>7 DEF Detach, ShapeType, disk
<1>8. ASSUME NEW found \in Found, InsertChunk(found) PROVE ShapeType'
  <2>1. db' \in [Event -> 0..2]
    BY <1>8, <1>i DEF InsertChunk
  <2> QED BY <1>8, <2>1 DEF InsertChunk, ShapeType, disk, memory
<1>9. CASE InsertFails
  <2>1. db' \in [Event -> 0..2]
    BY <1>9, <1>f DEF InsertFails
  <2> QED BY <1>9, <2>1 DEF InsertFails, ShapeType, disk, Returned
<1>10. CASE Release
  BY <1>10 DEF Release, ShapeType, disk, Returned
<1>11. CASE Checkpoint
  BY <1>11 DEF Checkpoint, ShapeType, memory, Returned
<1>12. CASE Panic \/ LatchWorkerErr
  BY <1>12 DEF Panic, LatchWorkerErr, ShapeType, memory, disk
<1>13. CASE Stop \/ StopWorker \/ StopFlush
  BY <1>13 DEF Stop, StopWorker, StopFlush, ShapeType, memory, disk
<1>14. CASE StopClose
  BY <1>14 DEF StopClose, ShapeType, memory, worker
<1>15. CASE Crash
  <2>1. PICK n \in stable..Len(log) : log' = SubSeq(log, 1, n)
    BY <1>15 DEF Crash
  <2>2. Len(log') \in Nat
    <3>1. n \in Nat /\ n =< Len(log)
      BY <1>t, <2>1 DEF DataType
    <3>2. \A i \in 1..n : log[i] \in Call
      BY <1>t, <3>1
    <3>3. log' \in Seq(Call)
      BY <2>1, <3>1, <3>2, SubSeqProperties
    <3> QED BY <3>3, LenProperties
  <2>3. /\ proc' = "down" /\ attached' = FALSE /\ workerErr' = FALSE /\ stopped' = FALSE
        /\ flusher' = "idle" /\ owner' = "worker" /\ lastOffset' = 0 /\ db' = db /\ crashes' = crashes + 1
    BY <1>15 DEF Crash
  <2>4. lastOffset' =< Len(log')
    BY <2>2, <2>3
  <2>5. attached' \in BOOLEAN /\ workerErr' \in BOOLEAN /\ stopped' \in BOOLEAN
    BY <2>3, Zenon
  <2>6. crashes' \in Nat /\ db' \in [Event -> 0..2]
    BY <2>3 DEF ShapeType
  <2> QED BY <2>3, <2>4, <2>5, <2>6 DEF ShapeType
<1>16. CASE OpenQueue \/ ReplayNext
  BY <1>16 DEF OpenQueue, ReplayNext, ShapeType, memory, disk
<1>17. CASE Attach
  BY <1>17, <1>t DEF Attach, ShapeType
<1>18. CASE OpenFails \/ AttachFails
  BY <1>18 DEF OpenFails, AttachFails, StartDegraded, ShapeType, memory
<1>19. CASE ReplayFails
  BY <1>19, <1>f DEF ReplayFails, StartDegraded, ShapeType, memory
<1>20. CASE UNCHANGED vars
  BY <1>20 DEF vars, ShapeType, memory, worker, disk
<1> QED BY <1>1, <1>2, <1>3, <1>4, <1>5, <1>6, <1>7, <1>8, <1>9, <1>10, <1>11, <1>12, <1>13, <1>14, <1>15,
           <1>16, <1>17, <1>18, <1>19, <1>20 DEF Next

(* The checkpoint stays within the log, an event never has more than the   *)
(* two rows a failed lookup gives it, and all else has its type.           *)
THEOREM BufferTyped == ASSUME BufferAssumption PROVE Spec => []TypeOK
<1>1. Init => ShapeType /\ CacheType /\ LatchType
  <2>1. Len(<<>>) = 0 /\ <<>> \in Seq(CacheKey)
    BY EmptySeq
  <2>2. Init => CacheType
    <3>1. Init => cache = EmptyCache
      BY DEF Init
    <3>2. EmptyCache = [x \in {"seen", "fresh", "order", "head"} |-> EmptyCache[x]]
      BY DEF EmptyCache
    <3>3. EmptyCache.fresh = {} /\ EmptyCache.order = <<>> /\ EmptyCache.head = 1
      BY DEF EmptyCache
    <3> SUFFICES ASSUME cache = EmptyCache PROVE CacheType
      BY <3>1
    <3>4. /\ cache = [x \in {"seen", "fresh", "order", "head"} |-> cache[x]]
          /\ cache.fresh = {} /\ cache.order = <<>> /\ cache.head = 1
      BY <3>2, <3>3, Zenon
    <3>5. 1 \in Nat /\ {} \subseteq CacheKey
      OBVIOUS
    <3> QED BY <2>1, <3>4, <3>5, Zenon DEF CacheType
  <2>3. ASSUME Init PROVE ShapeType
    <3>1. attached \in BOOLEAN /\ workerErr \in BOOLEAN /\ stopped \in BOOLEAN
      BY <2>3, Zenon DEF Init
    <3>2. lastOffset =< Len(log) /\ crashes \in Nat /\ db \in [Event -> 0..2]
      BY <2>1, <2>3 DEF Init
    <3> QED BY <2>3, <3>1, <3>2 DEF Init, ShapeType
  <2>4. Init => LatchType
    BY Zenon DEF Init, LatchType
  <2> QED BY <2>2, <2>3, <2>4
<1>2. BufferInv /\ ShapeType /\ CacheType /\ LatchType /\ [Next]_vars => (ShapeType /\ CacheType /\ LatchType)'
  BY ShapeTypeStep, CacheTypeStep, LatchTypeStep
<1>3. BufferInv /\ BudgetKept /\ ShapeType /\ CacheType /\ LatchType => TypeOK
  <2> SUFFICES ASSUME BufferInv, BudgetKept, ShapeType, CacheType, LatchType PROVE TypeOK
    OBVIOUS
  <2>1. /\ log \in Seq(Call) /\ Len(log) \in Nat /\ stable \in 0..Len(log) /\ cp \in 0..Len(log)
        /\ lastOffset \in 0..Len(log) /\ events \in Seq(Event) /\ call \in [Call -> CallState]
    BY LogCalls DEF BufferInv, DataType, ShapeType
  <2>2. queuedBytes \in Nat /\ flightBytes \in Nat /\ flight.cost \in Nat
    BY <2>1, BufferAssumption, CostConcat DEF BudgetKept
  <2>3. flight \in Flight
    BY <2>2 DEF BufferInv, DataType, FlightType, Flight
  <2>4. cache \in Cache
    BY DEF BufferInv, DataType, CacheType, Cache
  <2> QED BY <2>1, <2>2, <2>3, <2>4 DEF TypeOK, ShapeType, LatchType
<1>4. Init => BudgetKept
  <2>1. Cost(<<>>) = 0
    BY CostOfNone
  <2> QED BY <2>1, BufferAssumption DEF Init, BudgetKept, NoFlight, BufferAssumption
<1>5. BufferInv /\ BudgetKept /\ [Next]_vars => BudgetKept'
  BY BudgetStep
<1> QED BY <1>1, <1>2, <1>3, <1>4, <1>5, BufferInvariant, PTL DEF Spec
=============================================================================
