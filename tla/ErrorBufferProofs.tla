------------------------- MODULE ErrorBufferProofs -------------------------
(***************************************************************************)
(* For every set of calls, identities, budgets and faults: the checkpoint  *)
(* of the error path never passes a record without a final disposition     *)
(* (CheckpointFinal), a durable 200 keeps its meaning (AckedDisposed), one *)
(* identity is applied once (AppliedOnce), the reservations are exact      *)
(* (ReservationsExact), and the log is used as the durable FIFO of         *)
(* DurableLog.  The last section takes both buffers together, as MCBuffers *)
(* does.                                                                   *)
(***************************************************************************)
EXTENDS MCBuffers, SequenceTheorems, WellFoundedInduction, TLAPS

-----------------------------------------------------------------------------
(* The inductive invariant.                                                *)

\* Entries in the order of their frames.
Sorted(s) == \A i, j \in 1..Len(s) : i < j => s[i].offset < s[j].offset
Before(s, t) == \A d \in ToSet(s), e \in ToSet(t) : d.offset < e.offset

FlightType(f) ==
  /\ f = [x \in {"todo", "pending", "target", "gap"} |-> f[x]]
  /\ f.todo \in Seq(Entry) /\ f.pending \in Seq(Entry)
  /\ f.target \in Nat /\ f.gap \in BOOLEAN

CacheType(a) ==
  /\ a = [x \in {"seen", "fresh", "order", "head"} |-> a[x]]
  /\ a.seen \in [EventId -> Content \cup {Absent}] /\ a.fresh \subseteq EventId

DataType ==
  /\ log \in Seq(Call) /\ stable \in Nat /\ cp \in Nat
  /\ cp =< stable /\ stable =< Len(log)
  /\ events \in Seq(Entry) /\ FlightType(flight)
  /\ call \in [Call -> CallState] /\ CacheType(adm)
  /\ inbox \in [EventId -> Content \cup {Absent}]
  /\ rows \in [Call -> 0..2]
  /\ thinned \subseteq Call /\ quarantined \subseteq Call

(* Which parts of the state the control state rules out.                   *)
ControlShape ==
  /\ attached \/ proc = "recovering" => spool
  /\ proc \in {"down", "recovering"} => /\ ~attached /\ ~workerErr /\ flusher = "idle"
                                        /\ events = <<>> /\ adm.fresh = {}
  /\ proc = "up" /\ flusher \in {"idle", "panicking"} => flight = NoFlight
  /\ flusher = "settled" => attached /\ flight.todo = <<>> /\ flight.pending = <<>>
  /\ workerErr => owner \in {"exited", "closing"} /\ flusher = "idle"
  /\ ~flight.gap => flight.pending = <<>>

Tracked == attached \/ proc = "recovering"
Queued == ToSet(flight.pending) \cup ToSet(flight.todo) \cup ToSet(events)

(* While the log is open, what is queued are frames of it, in its order:   *)
(* first what is pending, then what is to be applied, then what came later. *)
QueueOrdered ==
  Tracked =>
    /\ \A e \in Queued : e.offset \in 1..Len(log) /\ log[e.offset] = e.call
    /\ Sorted(flight.pending) /\ Sorted(flight.todo) /\ Sorted(events)
    /\ Before(flight.pending, flight.todo) /\ Before(flight.pending, events)
    /\ Before(flight.todo, events)

(* While the worker lives, a frame behind the checkpoint has its           *)
(* disposition or is queued.                                               *)
QueueCovers ==
  Tracked /\ proc # "stopped" /\ flusher # "panicking" /\ ~workerErr =>
    \A i \in (cp+1)..Len(log) : Disposed(log[i]) \/ \E e \in Queued : e.offset = i

(* What a batch has earned is final.                                       *)
TargetFinal ==
  Tracked => /\ flight.target =< Len(log)
             /\ \A i \in 1..flight.target : Disposed(log[i])

(* The admission cache vouches only for records that are safe.             *)
Safe(d) == Disposed(d) \/ Replayable(d)
CacheSafe ==
  attached /\ ~Lossy => \A i \in adm.fresh :
    \E d \in Call : Identity[d] = i /\ Digest[d] = adm.seen[i] /\ Safe(d)

ErrorInv ==
  /\ DataType /\ ControlShape
  /\ QueueOrdered /\ QueueCovers /\ TargetFinal
  /\ CheckpointFinal /\ CacheSafe /\ AckedDisposed

(* A call is in one frame at most, and only after its push; a 200 for one  *)
(* is given when its frame is stable.                                      *)
LogOnce ==
  /\ \A i, j \in 1..Len(log) : log[i] = log[j] => i = j
  /\ \A i \in 1..Len(log) : call[log[i]] \notin {"idle", "checked"}
  /\ \A i \in 1..Len(log) : call[log[i]] = "acked" => i =< stable

-----------------------------------------------------------------------------
(* The elements of the queue, and their order.                             *)

(* The elements of a sequence of entries are entries at its positions.     *)
LEMMA Elements ==
  ASSUME NEW s \in Seq(Entry)
  PROVE  /\ \A e : e \in ToSet(s) <=> \E i \in 1..Len(s) : e = s[i]
         /\ \A e \in ToSet(s) : e \in Entry /\ e.offset \in Nat /\ e.call \in Call
         /\ ToSet(<<>>) = {} /\ Sorted(<<>>) /\ Len(s) \in Nat
<1>1. \A e \in ToSet(s) : e \in Entry
  BY LenProperties DEF ToSet
<1> QED BY <1>1, LenProperties DEF ToSet, Sorted, Entry

(* Requeue, the pending records before what was admitted since.            *)
LEMMA Concatenated ==
  ASSUME NEW s \in Seq(Entry), NEW t \in Seq(Entry)
  PROVE  /\ s \o t \in Seq(Entry)
         /\ ToSet(s \o t) = ToSet(s) \cup ToSet(t)
         /\ Sorted(s) /\ Sorted(t) /\ Before(s, t) => Sorted(s \o t)
<1>1. /\ s \o t \in Seq(Entry) /\ Len(s \o t) = Len(s) + Len(t)
      /\ Len(s) \in Nat /\ Len(t) \in Nat
  BY ConcatProperties, LenProperties
<1>2. /\ \A i \in 1..Len(s) : (s \o t)[i] = s[i]
      /\ \A i \in (Len(s)+1)..(Len(s)+Len(t)) : (s \o t)[i] = t[i - Len(s)]
  BY <1>1, ConcatProperties
<1>3. ASSUME NEW e \in ToSet(s \o t)  PROVE e \in ToSet(s) \cup ToSet(t)
  <2>1. PICK i \in 1..Len(s \o t) : e = (s \o t)[i]
    BY <1>1, Elements
  <2>2. CASE i =< Len(s)
    BY <1>1, <1>2, <2>1, <2>2, Elements
  <2>3. CASE i > Len(s)
    <3>1. i - Len(s) \in 1..Len(t) /\ e = t[i - Len(s)]
      BY <1>1, <1>2, <2>1, <2>3
    <3> QED BY <3>1, Elements
  <2> QED BY <1>1, <2>1, <2>2, <2>3
<1>4. ASSUME NEW e \in ToSet(s)  PROVE e \in ToSet(s \o t)
  <2>1. PICK i \in 1..Len(s) : e = s[i]
    BY Elements
  <2>2. i \in 1..Len(s \o t) /\ e = (s \o t)[i]
    BY <1>1, <1>2, <2>1
  <2> QED BY <1>1, <2>2, Elements
<1>5. ASSUME NEW e \in ToSet(t)  PROVE e \in ToSet(s \o t)
  <2>1. PICK i \in 1..Len(t) : e = t[i]
    BY Elements
  <2>2. Len(s) + i \in 1..Len(s \o t) /\ e = (s \o t)[Len(s) + i]
    BY <1>1, <1>2, <2>1
  <2> QED BY <1>1, <2>2, Elements
<1>6. ASSUME Sorted(s), Sorted(t), Before(s, t),
             NEW i \in 1..Len(s \o t), NEW j \in 1..Len(s \o t), i < j
      PROVE  (s \o t)[i].offset < (s \o t)[j].offset
  <2>1. CASE j =< Len(s)
    <3>1. i \in 1..Len(s) /\ j \in 1..Len(s)
      BY <1>1, <1>6, <2>1
    <3> QED BY <1>2, <1>6, <3>1 DEF Sorted
  <2>2. CASE i > Len(s)
    <3>1. /\ i - Len(s) \in 1..Len(t) /\ j - Len(s) \in 1..Len(t) /\ i - Len(s) < j - Len(s)
          /\ (s \o t)[i] = t[i - Len(s)] /\ (s \o t)[j] = t[j - Len(s)]
      BY <1>1, <1>2, <1>6, <2>2
    <3> QED BY <1>6, <3>1 DEF Sorted
  <2>3. CASE i =< Len(s) /\ j > Len(s)
    <3>1. /\ i \in 1..Len(s) /\ j - Len(s) \in 1..Len(t)
          /\ (s \o t)[i] = s[i] /\ (s \o t)[j] = t[j - Len(s)]
      BY <1>1, <1>2, <2>3
    <3>2. (s \o t)[i] \in ToSet(s) /\ (s \o t)[j] \in ToSet(t)
      BY <3>1, Elements
    <3> QED BY <1>6, <3>2 DEF Before
  <2> QED BY <1>1, <2>1, <2>2, <2>3
<1> QED BY <1>1, <1>3, <1>4, <1>5, <1>6 DEF Sorted

(* A record that is pending, or admitted, is the last of its queue.        *)
LEMMA Appended ==
  ASSUME NEW s \in Seq(Entry), NEW e \in Entry
  PROVE  /\ Append(s, e) \in Seq(Entry)
         /\ ToSet(Append(s, e)) = ToSet(s) \cup {e}
         /\ Sorted(s) /\ (\A d \in ToSet(s) : d.offset < e.offset) => Sorted(Append(s, e))
<1> DEFINE t == Append(s, e)
<1>1. /\ t \in Seq(Entry) /\ Len(t) = Len(s) + 1 /\ Len(s) \in Nat
      /\ t[Len(s) + 1] = e /\ \A i \in 1..Len(s) : t[i] = s[i]
  BY AppendProperties, LenProperties
<1> HIDE DEF t
<1>2. \A i \in 1..Len(t) : i \in 1..Len(s) \/ i = Len(s) + 1
  BY <1>1
<1>3. ToSet(t) = ToSet(s) \cup {e}
  <2>1. ASSUME NEW d \in ToSet(t)  PROVE d \in ToSet(s) \cup {e}
    BY <1>1, <1>2, Elements
  <2>2. ASSUME NEW d \in ToSet(s)  PROVE d \in ToSet(t)
    <3>1. PICK i \in 1..Len(s) : d = s[i]
      BY Elements
    <3>2. i \in 1..Len(t) /\ d = t[i]
      BY <1>1, <3>1
    <3> QED BY <1>1, <3>2, Elements
  <2>3. e \in ToSet(t)
    <3>1. Len(s) + 1 \in 1..Len(t) /\ e = t[Len(s) + 1]
      BY <1>1
    <3> QED BY <1>1, <3>1, Elements
  <2> QED BY <2>1, <2>2, <2>3
<1>4. ASSUME Sorted(s), \A d \in ToSet(s) : d.offset < e.offset,
             NEW i \in 1..Len(t), NEW j \in 1..Len(t), i < j
      PROVE  t[i].offset < t[j].offset
  <2>1. CASE j = Len(s) + 1
    <3>1. i \in 1..Len(s)
      BY <1>1, <1>4, <2>1
    <3> QED BY <1>1, <1>4, <2>1, <3>1, Elements
  <2>2. CASE j \in 1..Len(s)
    <3>1. i \in 1..Len(s)
      BY <1>1, <1>4, <2>2
    <3> QED BY <1>1, <1>4, <2>2, <3>1 DEF Sorted
  <2> QED BY <1>2, <2>1, <2>2
<1>5. Sorted(s) /\ (\A d \in ToSet(s) : d.offset < e.offset) => Sorted(t)
  BY <1>4 DEF Sorted
<1> QED BY <1>1, <1>3, <1>5 DEF t

(* The record at the head of a batch comes before the rest of it.          *)
LEMMA Taken ==
  ASSUME NEW s \in Seq(Entry), s # <<>>
  PROVE  /\ Head(s) \in Entry /\ Tail(s) \in Seq(Entry)
         /\ ToSet(s) = {Head(s)} \cup ToSet(Tail(s))
         /\ Sorted(s) => /\ Sorted(Tail(s))
                         /\ \A e \in ToSet(Tail(s)) : Head(s).offset < e.offset
<1> DEFINE t == Tail(s)
<1>1. /\ t \in Seq(Entry) /\ Len(s) \in Nat /\ Len(s) > 0 /\ Len(t) = Len(s) - 1
      /\ Head(s) = s[1] /\ s[1] \in Entry /\ \A i \in 1..Len(t) : t[i] = s[i + 1]
  BY HeadTailProperties, LenProperties, EmptySeq
<1> HIDE DEF t
<1>2. ASSUME NEW e \in ToSet(t)  PROVE \E i \in 2..Len(s) : e = s[i]
  <2>1. PICK i \in 1..Len(t) : e = t[i]
    BY <1>1, Elements
  <2>2. i + 1 \in 2..Len(s) /\ e = s[i + 1]
    BY <1>1, <2>1
  <2> QED BY <2>2
<1>3. ASSUME NEW e \in ToSet(s), e # Head(s)  PROVE e \in ToSet(t)
  <2>1. PICK i \in 1..Len(s) : e = s[i]
    BY Elements
  <2>2. i # 1
    BY <1>1, <1>3, <2>1
  <2>3. i - 1 \in 1..Len(t) /\ e = t[i - 1]
    BY <1>1, <2>1, <2>2
  <2> QED BY <1>1, <2>3, Elements
<1>4. ToSet(s) = {Head(s)} \cup ToSet(t)
  <2>1. Head(s) \in ToSet(s)
    BY <1>1, Elements
  <2>2. \A i \in 2..Len(s) : i \in 1..Len(s)
    BY <1>1
  <2>3. ToSet(t) \subseteq ToSet(s)
    BY <1>2, <2>2, Elements
  <2> QED BY <1>3, <2>1, <2>3
<1>5. ASSUME Sorted(s)
      PROVE  Sorted(t) /\ \A e \in ToSet(t) : Head(s).offset < e.offset
  <2>1. ASSUME NEW i \in 1..Len(t), NEW j \in 1..Len(t), i < j
        PROVE  t[i].offset < t[j].offset
    <3>1. i + 1 \in 1..Len(s) /\ j + 1 \in 1..Len(s) /\ i + 1 < j + 1
      BY <1>1, <2>1
    <3> QED BY <1>1, <1>5, <2>1, <3>1 DEF Sorted
  <2>2. \A i \in 2..Len(s) : 1 \in 1..Len(s) /\ i \in 1..Len(s) /\ 1 < i
    BY <1>1
  <2> QED BY <1>1, <1>2, <1>5, <2>1, <2>2 DEF Sorted
<1> QED BY <1>1, <1>4, <1>5 DEF t

-----------------------------------------------------------------------------
(* The steps.                                                              *)

(* What a flight, a frame and a replayed record are.                       *)
LEMMA Parts ==
  ASSUME DataType
  PROVE  /\ Len(log) \in Nat /\ \A i \in 1..Len(log) : log[i] \in Call
         /\ flight.todo \in Seq(Entry) /\ flight.pending \in Seq(Entry)
         /\ flight.target \in Nat /\ events \in Seq(Entry)
         /\ \A c \in Call : Digest[c] \in Content /\ Digest[c] # Absent
         /\ \A c \in Call : Identity[c] # NoId => Identity[c] \in EventId
         /\ FlightType(NoFlight) /\ <<>> \in Seq(Entry)
<1>1. FlightType(NoFlight) /\ <<>> \in Seq(Entry)
  BY EmptySeq DEF FlightType, NoFlight
<1>2. Len(log) \in Nat /\ \A i \in 1..Len(log) : log[i] \in Call
  BY LenProperties DEF DataType
<1> QED BY <1>1, <1>2, ErrorBufferAssumption DEF DataType, FlightType, CallState

(* The record a batch is at is an entry of it.                             *)
LEMMA AtCurrent ==
  ASSUME DataType, flight.todo # <<>>
  PROVE  /\ Current \in Entry /\ Current.call \in Call /\ Current.offset \in Nat
         /\ Current \in ToSet(flight.todo)
         /\ Tail(flight.todo) \in Seq(Entry)
         /\ ToSet(flight.todo) = {Current} \cup ToSet(Tail(flight.todo))
         /\ Sorted(flight.todo) => /\ Sorted(Tail(flight.todo))
                                  /\ \A e \in ToSet(Tail(flight.todo)) : Current.offset < e.offset
  BY Parts, Taken DEF Current, Entry

(* AddRow and Claim change one record's count and one identity.            *)
LEMMA Applied ==
  ASSUME DataType, NEW c \in Call, ApplyCommits(c) \/ Quarantine(c) \/ ApplyFails(c)
  PROVE  /\ inbox' \in [EventId -> Content \cup {Absent}]
         /\ rows' \in [Call -> 0..2]
         /\ thinned' \subseteq Call /\ quarantined' \subseteq Call
         /\ thinned \subseteq thinned' /\ quarantined \subseteq quarantined'
         /\ \A d \in Call : rows[d] > 0 => rows'[d] > 0
         /\ \A i \in EventId : inbox[i] # Absent => inbox'[i] = inbox[i]
<1>1. ASSUME Claim(c), ~Claimed(c)
      PROVE  /\ inbox' \in [EventId -> Content \cup {Absent}]
             /\ \A i \in EventId : inbox[i] # Absent => inbox'[i] = inbox[i]
  BY <1>1, Parts DEF Claim, Claimed, DataType
<1>2. ASSUME AddRow(c)
      PROVE  rows' \in [Call -> 0..2] /\ \A d \in Call : rows[d] > 0 => rows'[d] > 0
  <2> DEFINE n == IF rows[c] = 2 THEN 2 ELSE rows[c] + 1
  <2>1. n \in 0..2 /\ n > 0
    BY DEF DataType
  <2>2. rows' = [rows EXCEPT ![c] = n]
    BY <1>2 DEF AddRow
  <2> HIDE DEF n
  <2> QED BY <2>1, <2>2 DEF DataType
<1>3. ASSUME UNCHANGED tables
      PROVE  /\ inbox' = inbox /\ rows' = rows
             /\ thinned' = thinned /\ quarantined' = quarantined
  BY <1>3 DEF tables
<1>4. CASE ApplyCommits(c)
  BY <1>1, <1>2, <1>3, <1>4 DEF ApplyCommits, DataType
<1>5. CASE Quarantine(c)
  BY <1>5 DEF Quarantine, DataType
<1>6. CASE UNCHANGED tables
  BY <1>3, <1>6 DEF DataType
<1> QED BY <1>4, <1>5, <1>6 DEF ApplyFails

(* Record admits one identity with the digest of its record, and at most   *)
(* forgets another.                                                        *)
LEMMA Remembered ==
  ASSUME DataType, NEW c \in Call, Record(c)
  PROVE  /\ CacheType(adm')
         /\ \A i \in adm'.fresh :
              \/ i = Identity[c] /\ adm'.seen[i] = Digest[c]
              \/ i \in adm.fresh /\ adm'.seen[i] = adm.seen[i]
<1>1. CASE Identity[c] = NoId
  BY <1>1 DEF Record, DataType, CacheType
<1>2. CASE Identity[c] # NoId
  <2> DEFINE own == Identity[c]
             known == own # NoId /\ adm.seen[own] # Absent
             full == Len(adm.order) = CacheMax
             old == IF known \/ ~full THEN {} ELSE {adm.order[adm.head]}
             order == IF known THEN adm.order
                      ELSE IF full THEN [adm.order EXCEPT ![adm.head] = own]
                      ELSE Append(adm.order, own)
             head == IF known \/ ~full THEN adm.head ELSE (adm.head % CacheMax) + 1
  <2>1. adm' = [seen |-> [x \in EventId |-> IF x = own THEN Digest[c]
                                            ELSE IF x \in old THEN Absent ELSE adm.seen[x]],
                fresh |-> (adm.fresh \ old) \cup {own}, order |-> order, head |-> head]
    BY <1>2 DEF Record
  <2>2. own \in EventId /\ Digest[c] \in Content
    BY <1>2, Parts
  <2>3. CacheType(adm)
    BY DEF DataType
  <2> HIDE DEF own, known, full, old, order, head
  <2>4. /\ adm'.fresh = (adm.fresh \ old) \cup {own}
        /\ adm'.seen = [x \in EventId |-> IF x = own THEN Digest[c]
                                           ELSE IF x \in old THEN Absent ELSE adm.seen[x]]
        /\ adm' = [x \in {"seen", "fresh", "order", "head"} |-> adm'[x]]
    BY <2>1
  <2>5. adm.fresh \subseteq EventId /\ adm.seen \in [EventId -> Content \cup {Absent}]
    BY <2>3 DEF CacheType
  <2>6. adm'.fresh \subseteq EventId /\ adm'.seen \in [EventId -> Content \cup {Absent}]
    BY <2>2, <2>4, <2>5
  <2>7. \A x \in adm'.fresh :
          \/ x = own /\ adm'.seen[x] = Digest[c]
          \/ x \in adm.fresh /\ adm'.seen[x] = adm.seen[x]
    BY <2>2, <2>4, <2>5
  <2>8. CacheType(adm')
    BY <2>4, <2>6 DEF CacheType
  <2> QED BY <2>7, <2>8 DEF own
<1> QED BY <1>1, <1>2

(* Types.                                                                  *)
LEMMA TypeStep == ErrorInv /\ [Next]_vars => DataType'
<1> SUFFICES ASSUME ErrorInv, [Next]_vars  PROVE DataType'
  OBVIOUS
<1>t. DataType /\ ControlShape /\ TargetFinal
  BY DEF ErrorInv
<1>a. ASSUME NEW c \in Call, NEW r \in CallState, Reply(c, r)  PROVE call' \in [Call -> CallState]
  BY <1>a, <1>t DEF Reply, DataType
<1>1. ASSUME NEW i \in EventId, Expire(i)  PROVE DataType'
  <2>1. CacheType(adm')
    BY <1>1, <1>t DEF Expire, DataType, CacheType
  <2> QED BY <1>1, <1>t, <2>1 DEF DataType, Expire, disk, memory, worker, tables
<1>2. ASSUME NEW c \in Call, Lookup(c)  PROVE DataType'
  <2>1. call' \in [Call -> CallState]
    BY <1>2, <1>t DEF Lookup, Reply, DataType, CallState, Granted
  <2> QED BY <1>2, <1>t, <2>1 DEF DataType, Lookup, disk, memory, worker, tables
<1>3. ASSUME NEW c \in Call, PushFull(c)  PROVE DataType'
  <2>1. call' \in [Call -> CallState]
    BY <1>3, <1>t DEF PushFull, Reply, DataType, CallState
  <2> QED BY <1>3, <1>t, <2>1 DEF DataType, PushFull, disk, memory, worker, tables
<1>4. ASSUME NEW c \in Call, PushUnavailable(c)  PROVE DataType'
  <2>1. call' \in [Call -> CallState]
    BY <1>4, <1>t DEF PushUnavailable, Reply, DataType, CallState
  <2> QED
    BY <1>4, <1>t, <2>1
    DEF DataType, PushUnavailable, disk, memory, worker, tables
<1>5. ASSUME NEW c \in Call, Push(c)  PROVE DataType'
  <2>1. call' \in [Call -> CallState]
    BY <1>5, <1>t DEF Push, Reply, DataType, CallState
  <2>2. CacheType(adm')
    BY <1>5, <1>t, Remembered DEF Push, DataType
  <2>3. /\ events' \in Seq(Entry) /\ log' \in Seq(Call) /\ Len(log') = Len(log) + 1
        /\ Len(log) \in Nat
    BY <1>5, <1>t, Parts, Appended, AppendProperties
    DEF Push, Buffered, DataType, Entry
  <2>4. stable' =< Len(log')
    BY <1>5, <1>t, <2>3 DEF Push, DataType
  <2> QED BY <1>5, <1>t, <2>1, <2>2, <2>3, <2>4 DEF DataType, Push, worker, tables
<1>6. ASSUME NEW c \in Call, PushMemoryOnly(c)  PROVE DataType'
  <2>1. call' \in [Call -> CallState]
    BY <1>6, <1>t DEF PushMemoryOnly, Reply, DataType, CallState
  <2>2. CacheType(adm')
    BY <1>6, <1>t, Remembered DEF PushMemoryOnly
  <2>3. events' \in Seq(Entry)
    BY <1>6, <1>t, Appended DEF PushMemoryOnly, Buffered, DataType, Entry
  <2> QED
    BY <1>6, <1>t, <2>1, <2>2, <2>3
    DEF DataType, PushMemoryOnly, disk, worker, tables
<1>7. ASSUME NEW c \in Call, Acknowledge(c)  PROVE DataType'
  <2>1. call' \in [Call -> CallState]
    BY <1>7, <1>t DEF Acknowledge, Reply, DataType, CallState
  <2>2. CacheType(adm')
    BY <1>7, <1>t, Remembered DEF Acknowledge
  <2> QED
    BY <1>7, <1>t, <2>1, <2>2
    DEF DataType, Acknowledge, disk, memory, worker, tables
<1>8. ASSUME NEW c \in Call, CommitFails(c)  PROVE DataType'
  <2>1. call' \in [Call -> CallState]
    BY <1>8, <1>t DEF CommitFails, Reply, DataType, CallState
  <2> QED BY <1>8, <1>t, <2>1 DEF DataType, CommitFails, disk, memory, worker, tables
<1>9. ASSUME NEW c \in Call, Final(c)  PROVE DataType'
  <2>1. FlightType(flight')
    BY <1>9, <1>t, AtCurrent DEF Final, Target, DataType, FlightType
  <2> QED BY <1>9, <1>t, <2>1, Applied DEF DataType, Final, disk
<1>10. ASSUME NEW c \in Call, Pending(c)  PROVE DataType'
  <2>1. Append(flight.pending, Current) \in Seq(Entry)
    BY <1>10, <1>t, AtCurrent, Appended, Parts DEF Pending
  <2>2. FlightType(flight')
    BY <1>10, <1>t, <2>1, AtCurrent DEF Pending, DataType, FlightType
  <2> QED BY <1>10, <1>t, <2>2, Applied DEF DataType, Pending, disk, memory
<1>11. ASSUME Sync  PROVE DataType'
  BY <1>11, <1>t, Parts DEF DataType, Sync, memory, worker, tables
<1>12. ASSUME Detach  PROVE DataType'
  <2>1. FlightType(flight')
    BY <1>12, <1>t, Parts DEF Detach, FlightType, NoFlight
  <2> QED BY <1>12, <1>t, <2>1, Parts DEF DataType, Detach, disk, tables
<1>13. ASSUME Settle  PROVE DataType'
  <2>1. events' \in Seq(Entry)
    BY <1>13, <1>t, Parts, Concatenated DEF Settle, Requeue
  <2>2. FlightType(flight')
    BY <1>13, <1>t, Parts DEF Settle, FlightType, NoFlight
  <2> QED BY <1>13, <1>t, <2>1, <2>2 DEF DataType, Settle, disk, tables
<1>14. ASSUME Checkpoint  PROVE DataType'
  <2>1. flight.target \in Nat /\ flight.target =< Len(log) /\ Len(log) \in Nat
    BY <1>14, <1>t, Parts DEF Checkpoint, ControlShape, TargetFinal, Tracked
  <2>2. stable' \in Nat /\ cp' \in Nat /\ cp' =< stable' /\ stable' =< Len(log)
    <3>1. CASE stable' = Len(log) /\ cp' = flight.target
      BY <2>1, <3>1
    <3>2. CASE stable' \in {stable, Len(log)} /\ cp' = cp
      BY <1>t, <2>1, <3>2 DEF DataType
    <3> QED BY <1>14, <3>1, <3>2 DEF Checkpoint
  <2> QED BY <1>14, <1>t, <2>2, Parts DEF DataType, Checkpoint, memory, tables
<1>15. ASSUME Panic  PROVE DataType'
  BY <1>15, <1>t, Parts DEF DataType, Panic, disk, memory, tables
<1>16. ASSUME LatchWorkerErr  PROVE DataType'
  BY <1>16, <1>t, Parts DEF DataType, LatchWorkerErr, disk, memory, tables
<1>17. ASSUME Stop  PROVE DataType'
  BY <1>17, <1>t, Parts DEF DataType, Stop, disk, memory, tables
<1>18. ASSUME StopWorker  PROVE DataType'
  BY <1>18, <1>t, Parts DEF DataType, StopWorker, disk, memory, tables
<1>19. ASSUME StopFlush  PROVE DataType'
  BY <1>19, <1>t, Parts DEF DataType, StopFlush, disk, memory, tables
<1>20. ASSUME StopClose  PROVE DataType'
  BY <1>20, <1>t, Parts DEF DataType, StopClose, memory, worker, tables
<1>21. ASSUME Crash  PROVE DataType'
  <2>1. PICK n \in stable..Len(log) : log' = SubSeq(log, 1, n)
    BY <1>21 DEF Crash
  <2>2. log' \in Seq(Call) /\ Len(log') = n /\ stable =< n
    BY <1>t, <2>1, Parts, LenProperties DEF DataType
  <2>3. call' \in [Call -> CallState]
    BY <1>21, <1>t DEF Crash, DataType, CallState
  <2>4. CacheType(adm')
    BY <1>21 DEF Crash, EmptyCache, CacheType
  <2> QED BY <1>21, <1>t, <2>2, <2>3, <2>4, Parts DEF DataType, Crash, tables
<1>22. ASSUME OpenQueue  PROVE DataType'
  <2> DEFINE todo == [j \in 1..(Len(log) - cp) |-> [call |-> log[cp + j], offset |-> cp + j]]
  <2>1. todo \in Seq(Entry)
    <3>1. /\ Len(log) - cp \in Nat
          /\ \A j \in 1..(Len(log) - cp) : [call |-> log[cp + j], offset |-> cp + j] \in Entry
      BY <1>t, Parts DEF DataType, Entry
    <3> QED BY <3>1
  <2>2. flight' = [NoFlight EXCEPT !.todo = todo]
    BY <1>22 DEF OpenQueue
  <2> HIDE DEF todo
  <2>3. FlightType(flight')
    BY <1>t, <2>1, <2>2, Parts DEF FlightType, NoFlight
  <2> QED BY <1>22, <1>t, <2>3 DEF DataType, OpenQueue, disk, memory, tables
<1>23. ASSUME Attach  PROVE DataType'
  <2>1. events' \in Seq(Entry)
    BY <1>23, <1>t, Parts, Concatenated DEF Attach
  <2>2. flight.target \in Nat /\ flight.target =< Len(log) /\ Len(log) \in Nat
    BY <1>23, <1>t, Parts DEF Attach, TargetFinal, Tracked
  <2>3. stable' \in Nat /\ cp' \in Nat /\ cp' =< stable' /\ stable' =< Len(log)
    BY <1>23, <1>t, <2>2 DEF Attach, Earned, DataType
  <2> QED BY <1>23, <1>t, <2>1, <2>3, Parts DEF DataType, Attach, tables
<1>24. ASSUME OpenFails  PROVE DataType'
  BY <1>24, <1>t, Parts DEF DataType, OpenFails, StartDegraded, memory, tables
<1>25. ASSUME ReplayFails  PROVE DataType'
  <2>1. Current.call \in Call
    BY <1>25, <1>t, AtCurrent DEF ReplayFails
  <2> QED
    BY <1>25, <1>t, <2>1, Applied, Parts
    DEF DataType, ReplayFails, StartDegraded, memory
<1>26. ASSUME AttachFails  PROVE DataType'
  <2>1. flight.target \in Nat /\ flight.target =< Len(log) /\ Len(log) \in Nat
    BY <1>26, <1>t, Parts DEF AttachFails, TargetFinal, Tracked
  <2>2. stable' \in Nat /\ cp' \in Nat /\ cp' =< stable' /\ stable' =< Len(log)
    BY <1>26, <1>t, <2>1 DEF AttachFails, DataType
  <2> QED
    BY <1>26, <1>t, <2>2, Parts
    DEF DataType, AttachFails, StartDegraded, memory, tables
<1>27. CASE UNCHANGED vars
  BY <1>27, <1>t, Parts DEF DataType, vars, disk, memory, worker, tables
<1> QED
  BY <1>1, <1>2, <1>3, <1>4, <1>5, <1>6, <1>7, <1>8, <1>9, <1>10, <1>11, <1>12, <1>13,
     <1>14, <1>15, <1>16, <1>17, <1>18, <1>19, <1>20, <1>21, <1>22, <1>23, <1>24,
     <1>25, <1>26, <1>27
  DEF Next

(* The control state.                                                      *)
LEMMA ControlStep == ErrorInv /\ [Next]_vars => ControlShape'
<1> SUFFICES ASSUME ErrorInv, [Next]_vars  PROVE ControlShape'
  OBVIOUS
<1>t. ControlShape /\ flight.gap \in BOOLEAN
  BY DEF ErrorInv, DataType, FlightType
<1>e. <<>> \o <<>> = <<>> /\ FlightType(flight)
  BY ConcatEmptySeq, EmptySeq DEF ErrorInv, DataType
<1>1. ASSUME NEW i \in EventId, Expire(i)  PROVE ControlShape'
  BY <1>1, <1>t, <1>e
  DEF ControlShape, NoFlight, EmptyCache, Applying, Record, Closing, FlightType,
      Expire, disk, memory, worker, tables
<1>2. ASSUME NEW c \in Call, Lookup(c)  PROVE ControlShape'
  BY <1>2, <1>t, <1>e
  DEF ControlShape, NoFlight, EmptyCache, Applying, Record, Closing, FlightType,
      Lookup, Reply, disk, memory, worker, tables
<1>3. ASSUME NEW c \in Call, PushFull(c)  PROVE ControlShape'
  BY <1>3, <1>t, <1>e
  DEF ControlShape, NoFlight, EmptyCache, Applying, Record, Closing, FlightType,
      PushFull, Reply, disk, memory, worker, tables
<1>4. ASSUME NEW c \in Call, PushUnavailable(c)  PROVE ControlShape'
  BY <1>4, <1>t, <1>e
  DEF ControlShape, NoFlight, EmptyCache, Applying, Record, Closing, FlightType,
      PushUnavailable, Reply, disk, memory, worker, tables
<1>5. ASSUME NEW c \in Call, Push(c)  PROVE ControlShape'
  BY <1>5, <1>t, <1>e
  DEF ControlShape, NoFlight, EmptyCache, Applying, Record, Closing, FlightType, Push,
      Reply, Buffered, worker, tables
<1>6. ASSUME NEW c \in Call, PushMemoryOnly(c)  PROVE ControlShape'
  BY <1>6, <1>t, <1>e
  DEF ControlShape, NoFlight, EmptyCache, Applying, Record, Closing, FlightType,
      PushMemoryOnly, Reply, Buffered, disk, worker, tables
<1>7. ASSUME NEW c \in Call, Acknowledge(c)  PROVE ControlShape'
  BY <1>7, <1>t, <1>e
  DEF ControlShape, NoFlight, EmptyCache, Applying, Record, Closing, FlightType,
      Acknowledge, Reply, disk, memory, worker, tables
<1>8. ASSUME NEW c \in Call, CommitFails(c)  PROVE ControlShape'
  BY <1>8, <1>t, <1>e
  DEF ControlShape, NoFlight, EmptyCache, Applying, Record, Closing, FlightType,
      CommitFails, Reply, disk, memory, worker, tables
<1>9. ASSUME NEW c \in Call, Final(c)  PROVE ControlShape'
  <2>1. flight'.pending = flight.pending /\ flight'.gap = flight.gap
    BY <1>9, <1>e DEF Final, FlightType
  <2>2. flusher # "settled"
    BY <1>9, <1>t DEF Final, Applying, ControlShape
  <2> QED
    BY <1>9, <1>t, <1>e, <2>1, <2>2
    DEF ControlShape, Final, Applying, disk, FlightType
<1>10. ASSUME NEW c \in Call, Pending(c)  PROVE ControlShape'
  BY <1>10, <1>t, <1>e
  DEF ControlShape, NoFlight, EmptyCache, Applying, Record, Closing, FlightType,
      Pending, disk, memory
<1>11. ASSUME Sync  PROVE ControlShape'
  BY <1>11, <1>t, <1>e
  DEF ControlShape, NoFlight, EmptyCache, Applying, Record, Closing, FlightType, Sync,
      memory, worker, tables
<1>12. ASSUME Detach  PROVE ControlShape'
  BY <1>12, <1>t, <1>e
  DEF ControlShape, NoFlight, EmptyCache, Applying, Record, Closing, FlightType,
      Detach, disk, tables
<1>13. ASSUME Settle  PROVE ControlShape'
  BY <1>13, <1>t, <1>e
  DEF ControlShape, NoFlight, EmptyCache, Applying, Record, Closing, FlightType,
      Settle, Returned, Requeue, disk, tables
<1>14. ASSUME Checkpoint  PROVE ControlShape'
  BY <1>14, <1>t, <1>e
  DEF ControlShape, NoFlight, EmptyCache, Applying, Record, Closing, FlightType,
      Checkpoint, Returned, memory, tables
<1>15. ASSUME Panic  PROVE ControlShape'
  BY <1>15, <1>t, <1>e
  DEF ControlShape, NoFlight, EmptyCache, Applying, Record, Closing, FlightType,
      Panic, disk, memory, tables
<1>16. ASSUME LatchWorkerErr  PROVE ControlShape'
  BY <1>16, <1>t, <1>e
  DEF ControlShape, NoFlight, EmptyCache, Applying, Record, Closing, FlightType,
      LatchWorkerErr, disk, memory, tables
<1>17. ASSUME Stop  PROVE ControlShape'
  BY <1>17, <1>t, <1>e
  DEF ControlShape, NoFlight, EmptyCache, Applying, Record, Closing, FlightType, Stop,
      disk, memory, tables
<1>18. ASSUME StopWorker  PROVE ControlShape'
  BY <1>18, <1>t, <1>e
  DEF ControlShape, NoFlight, EmptyCache, Applying, Record, Closing, FlightType,
      StopWorker, disk, memory, tables
<1>19. ASSUME StopFlush  PROVE ControlShape'
  BY <1>19, <1>t, <1>e
  DEF ControlShape, NoFlight, EmptyCache, Applying, Record, Closing, FlightType,
      StopFlush, disk, memory, tables
<1>20. ASSUME StopClose  PROVE ControlShape'
  BY <1>20, <1>t, <1>e
  DEF ControlShape, NoFlight, EmptyCache, Applying, Record, Closing, FlightType,
      StopClose, memory, worker, tables
<1>21. ASSUME Crash  PROVE ControlShape'
  BY <1>21, <1>t, <1>e
  DEF ControlShape, NoFlight, EmptyCache, Applying, Record, Closing, FlightType,
      Crash, tables
<1>22. ASSUME OpenQueue  PROVE ControlShape'
  BY <1>22, <1>t, <1>e
  DEF ControlShape, NoFlight, EmptyCache, Applying, Record, Closing, FlightType,
      OpenQueue, disk, memory, tables
<1>23. ASSUME Attach  PROVE ControlShape'
  BY <1>23, <1>t, <1>e
  DEF ControlShape, NoFlight, EmptyCache, Applying, Record, Closing, FlightType,
      Attach, Earned, tables
<1>24. ASSUME OpenFails  PROVE ControlShape'
  BY <1>24, <1>t, <1>e
  DEF ControlShape, NoFlight, EmptyCache, Applying, Record, Closing, FlightType,
      OpenFails, StartDegraded, memory, tables
<1>25. ASSUME ReplayFails  PROVE ControlShape'
  BY <1>25, <1>t, <1>e
  DEF ControlShape, NoFlight, EmptyCache, Applying, Record, Closing, FlightType,
      ReplayFails, StartDegraded, memory
<1>26. ASSUME AttachFails  PROVE ControlShape'
  BY <1>26, <1>t, <1>e
  DEF ControlShape, NoFlight, EmptyCache, Applying, Record, Closing, FlightType,
      AttachFails, StartDegraded, memory, tables
<1>27. CASE UNCHANGED vars
  BY <1>27, <1>t, <1>e
  DEF ControlShape, NoFlight, EmptyCache, Applying, Record, Closing, FlightType, vars,
      disk, memory, worker, tables
<1> QED
  BY <1>1, <1>2, <1>3, <1>4, <1>5, <1>6, <1>7, <1>8, <1>9, <1>10, <1>11, <1>12, <1>13,
     <1>14, <1>15, <1>16, <1>17, <1>18, <1>19, <1>20, <1>21, <1>22, <1>23, <1>24,
     <1>25, <1>26, <1>27
  DEF Next

(* Steps that leave the log, the ledgers and the queue alone.              *)
Quiet == UNCHANGED <<proc, attached, spool, log, stable, cp, events, flight, flusher, workerErr,
                     tables>>

(* Expiry, lookups, refusals, answers and the hand-over of the worker.     *)
LEMMA QuietSteps ==
  /\ \A i \in EventId : Expire(i) => Quiet
  /\ \A c \in Call : Lookup(c) \/ PushFull(c) \/ PushUnavailable(c) \/ Acknowledge(c)
                       \/ CommitFails(c) => Quiet
  /\ Stop \/ StopWorker \/ StopFlush => Quiet
  /\ UNCHANGED vars => Quiet
  BY DEF Quiet, Expire, Lookup, PushFull, PushUnavailable, Acknowledge, CommitFails,
         Stop, StopWorker, StopFlush, vars, disk, memory, worker

(* A disposition is for good.                                              *)
LEMMA DisposedStays ==
  ASSUME DataType, [Next]_vars, NEW d \in Call, Disposed(d)
  PROVE  Disposed(d)'
<1>1. ASSUME /\ \A x \in Call : rows[x] > 0 => rows'[x] > 0
             /\ \A i \in EventId : inbox[i] # Absent => inbox'[i] = inbox[i]
             /\ thinned \subseteq thinned' /\ quarantined \subseteq quarantined'
      PROVE  Disposed(d)'
  BY <1>1, Parts DEF Disposed, Claimed
<1>2. CASE UNCHANGED tables
  BY <1>1, <1>2 DEF tables
<1>3. ASSUME NEW c \in Call, ApplyCommits(c) \/ Quarantine(c) \/ ApplyFails(c)  PROVE Disposed(d)'
  BY <1>1, <1>3, Applied
<1>4. ASSUME NEW c \in Call, Final(c) \/ Pending(c)  PROVE Disposed(d)'
  BY <1>3, <1>4 DEF Final, Pending
<1>5. ASSUME ReplayFails  PROVE Disposed(d)'
  BY <1>3, <1>5, AtCurrent DEF ReplayFails
<1> QED
  BY <1>2, <1>4, <1>5, QuietSteps
  DEF Next, Quiet, Push, PushMemoryOnly, Sync, Detach, Settle, Checkpoint, Panic,
      LatchWorkerErr, StopClose, Crash, OpenQueue, Attach, OpenFails, AttachFails, vars

(* While the log is open there is a spool: a final record has its          *)
(* disposition (buffer.go, Flush and replayInto).                          *)
LEMMA FinalDisposes ==
  ASSUME DataType, ControlShape, Tracked, NEW c \in Call, Final(c)
  PROVE  Disposed(c)'
<1>1. spool
  BY DEF ControlShape, Tracked
<1>2. CASE Quarantine(c)
  BY <1>1, <1>2 DEF Quarantine, Disposed
<1>3. CASE ApplyCommits(c)
  <2>1. CASE Claimed(c) /\ UNCHANGED tables
    BY <2>1 DEF Disposed, Claimed, tables
  <2>2. CASE AddRow(c)
    <3>1. rows'[c] > 0
      BY <2>2 DEF AddRow, DataType
    <3> QED BY <3>1 DEF Disposed
  <2>3. CASE thinned' = thinned \cup {c}
    BY <2>3 DEF Disposed
  <2> QED BY <1>3, <2>1, <2>2, <2>3 DEF ApplyCommits
<1> QED BY <1>2, <1>3 DEF Final

(* The stable log only grows, and its checkpoint only advances.            *)
LEMMA LogGrows ==
  ASSUME ErrorInv, [Next]_vars
  PROVE  /\ cp =< cp' /\ stable =< stable' /\ cp \in Nat /\ cp' \in Nat
         /\ stable \in Nat /\ stable' \in Nat
         /\ \A i \in 1..stable : log'[i] = log[i] /\ log[i] \in Call
<1>t. DataType /\ DataType' /\ Len(log) \in Nat /\ (\A i \in 1..Len(log) : log[i] \in Call)
      /\ \A i \in 1..stable : i \in 1..Len(log)
  BY TypeStep, Parts DEF ErrorInv, DataType
<1>1. ASSUME NEW c \in Call, Push(c)
      PROVE  UNCHANGED <<cp, stable>> /\ \A i \in 1..Len(log) : log'[i] = log[i]
  BY <1>1, <1>t, AppendProperties DEF Push, DataType
<1>2. ASSUME Crash  PROVE UNCHANGED <<cp, stable>> /\ \A i \in 1..stable : log'[i] = log[i]
  <2>1. PICK n \in stable..Len(log) : log' = SubSeq(log, 1, n)
    BY <1>2 DEF Crash
  <2>2. \A i \in 1..n : log'[i] = log[i]
    BY <2>1, <1>t DEF DataType
  <2> QED BY <1>2, <1>t, <2>2 DEF Crash, DataType
<1>3. CASE log' = log /\ stable' \in {stable, Len(log)} /\ (cp' = cp \/ cp' > cp)
  BY <1>3, <1>t DEF DataType
<1>4. CASE Quiet
  BY <1>3, <1>4 DEF Quiet, disk
<1>5. ASSUME NEW c \in Call, PushMemoryOnly(c) \/ Final(c) \/ Pending(c)
      PROVE  log' = log /\ stable' = stable /\ cp' = cp
  BY <1>5 DEF PushMemoryOnly, Final, Pending, disk
<1>6. ASSUME Detach \/ Settle \/ Panic \/ LatchWorkerErr \/ OpenQueue \/ OpenFails \/ ReplayFails
      PROVE  log' = log /\ stable' = stable /\ cp' = cp
  BY <1>6
  DEF Detach, Settle, Panic, LatchWorkerErr, OpenQueue, OpenFails, ReplayFails,
              StartDegraded, disk
<1>7. ASSUME Sync \/ StopClose \/ Checkpoint \/ Attach \/ AttachFails
      PROVE  log' = log /\ stable' \in {stable, Len(log)} /\ (cp' = cp \/ cp' > cp)
  BY <1>7 DEF Sync, StopClose, Checkpoint, Attach, Earned, AttachFails, StartDegraded
<1>8. CASE log' = log /\ stable' = stable /\ cp' = cp
  BY <1>3, <1>8
<1>9. cp \in Nat /\ cp' \in Nat /\ stable \in Nat /\ stable' \in Nat
      /\ \A i \in 1..stable : log[i] \in Call
  BY <1>t DEF DataType
<1>10. ASSUME \A i \in 1..Len(log) : log'[i] = log[i]  PROVE \A i \in 1..stable : log'[i] = log[i]
  BY <1>10, <1>t
<1> QED
  BY <1>1, <1>2, <1>3, <1>4, <1>5, <1>6, <1>7, <1>8, <1>9, <1>10, QuietSteps
  DEF Next

(* The queue is in the order of the log.                                   *)
LEMMA OrderStep == ErrorInv /\ [Next]_vars => QueueOrdered'
<1> SUFFICES ASSUME ErrorInv, [Next]_vars  PROVE QueueOrdered'
  OBVIOUS
<1>t. DataType /\ ControlShape /\ QueueOrdered
  BY DEF ErrorInv
<1>s. /\ ToSet(<<>>) = {} /\ Sorted(<<>>)
      /\ NoFlight.todo = <<>> /\ NoFlight.pending = <<>>
  BY Parts, Elements, <1>t DEF NoFlight
<1>q. ASSUME Quiet  PROVE QueueOrdered'
  BY <1>q, <1>t DEF QueueOrdered, Quiet, Tracked, Queued, Sorted, Before, disk
<1>n. ASSUME ~Tracked'  PROVE QueueOrdered'
  BY <1>n DEF QueueOrdered
<1>1. ASSUME NEW i \in EventId, Expire(i)  PROVE QueueOrdered'
  BY <1>q, <1>1, QuietSteps
<1>2. ASSUME NEW c \in Call, Lookup(c)  PROVE QueueOrdered'
  BY <1>q, <1>2, QuietSteps
<1>3. ASSUME NEW c \in Call, PushFull(c)  PROVE QueueOrdered'
  BY <1>q, <1>3, QuietSteps
<1>4. ASSUME NEW c \in Call, PushUnavailable(c)  PROVE QueueOrdered'
  BY <1>q, <1>4, QuietSteps
<1>5. ASSUME NEW c \in Call, Push(c)  PROVE QueueOrdered'
  <2> DEFINE n == Len(log) + 1
             e == [call |-> c, offset |-> n]
  <2>1. /\ e \in Entry /\ e.offset = n /\ e.call = c /\ n \in Nat
        /\ events' = Append(events, e) /\ log' = Append(log, c)
        /\ UNCHANGED <<attached, proc, flight>>
    BY <1>5, <1>t, Parts DEF Push, Buffered, Entry, worker
  <2>2. /\ Len(log') = n /\ log'[n] = c /\ \A i \in 1..Len(log) : log'[i] = log[i]
        /\ \A i \in 1..Len(log) : i < n /\ i \in 1..n
    BY <1>t, <2>1, Parts, AppendProperties DEF DataType
  <2> HIDE DEF n, e
  <2>3. Tracked
    BY <1>5 DEF Push, Tracked
  <2>4. \A d \in Queued : d.offset < n /\ d.offset \in 1..n /\ log'[d.offset] = d.call
    BY <1>t, <2>2, <2>3 DEF QueueOrdered
  <2>5. Queued' = Queued \cup {e}
    BY <1>t, <2>1, Parts, Appended DEF Queued
  <2>6. Sorted(events')
    BY <1>t, <2>1, <2>3, <2>4, Parts, Appended DEF QueueOrdered, Queued
  <2>7. Before(flight.pending, events') /\ Before(flight.todo, events')
    BY <1>t, <2>1, <2>3, <2>4, Parts, Appended DEF QueueOrdered, Queued, Before
  <2>8. n \in 1..n
    BY <2>1, Parts, <1>t DEF n
  <2> QED BY <1>t, <2>1, <2>2, <2>3, <2>4, <2>5, <2>6, <2>7, <2>8 DEF QueueOrdered
<1>6. ASSUME NEW c \in Call, PushMemoryOnly(c)  PROVE QueueOrdered'
  BY <1>6, <1>n, <1>t DEF PushMemoryOnly, Tracked, ControlShape
<1>7. ASSUME NEW c \in Call, Acknowledge(c)  PROVE QueueOrdered'
  BY <1>q, <1>7, QuietSteps
<1>8. ASSUME NEW c \in Call, CommitFails(c)  PROVE QueueOrdered'
  BY <1>q, <1>8, QuietSteps
<1>9. ASSUME NEW c \in Call, Final(c)  PROVE QueueOrdered'
  <2>1. /\ flight.todo # <<>> /\ flight'.todo = Tail(flight.todo)
        /\ flight'.pending = flight.pending
        /\ UNCHANGED <<attached, proc, log, events>>
    BY <1>9, <1>t DEF Final, disk, DataType, FlightType
  <2>2. CASE ~Tracked
    BY <1>n, <2>1, <2>2 DEF Tracked
  <2>3. CASE Tracked
    <3>1. Queued' \subseteq Queued /\ Sorted(flight'.todo)
      BY <1>t, <2>1, <2>3, AtCurrent DEF QueueOrdered, Queued
    <3>2. Before(flight.pending, flight'.todo) /\ Before(flight'.todo, events)
      BY <1>t, <2>1, <2>3, AtCurrent DEF QueueOrdered, Before
    <3> QED BY <1>t, <2>1, <2>3, <3>1, <3>2 DEF QueueOrdered
  <2> QED BY <2>2, <2>3
<1>10. ASSUME NEW c \in Call, Pending(c)  PROVE QueueOrdered'
  <2>1. /\ flight.todo # <<>> /\ flight'.todo = Tail(flight.todo)
        /\ flight'.pending = Append(flight.pending, Current)
        /\ UNCHANGED <<attached, proc, log, events>>
    BY <1>10, <1>t DEF Pending, disk, memory, DataType, FlightType
  <2>2. CASE ~Tracked
    BY <1>n, <2>1, <2>2 DEF Tracked
  <2>3. CASE Tracked
    <3>1. /\ ToSet(flight'.pending) = ToSet(flight.pending) \cup {Current}
          /\ ToSet(flight.todo) = {Current} \cup ToSet(flight'.todo)
          /\ Sorted(flight.pending) /\ Sorted(flight.todo)
          /\ Before(flight.pending, flight.todo) /\ Before(flight.pending, events)
          /\ Before(flight.todo, events)
      BY <1>t, <2>1, <2>3, AtCurrent, Appended, Parts DEF QueueOrdered
    <3>2. Queued' = Queued
      BY <2>1, <3>1 DEF Queued
    <3>3. Sorted(flight'.pending) /\ Sorted(flight'.todo)
      BY <1>t, <2>1, <3>1, AtCurrent, Appended, Parts DEF Before
    <3>4. /\ Before(flight'.pending, flight'.todo) /\ Before(flight'.pending, events)
          /\ Before(flight'.todo, events)
      BY <1>t, <2>1, <3>1, AtCurrent DEF Before
    <3> QED BY <1>t, <2>1, <2>3, <3>2, <3>3, <3>4 DEF QueueOrdered
  <2> QED BY <2>2, <2>3
<1>11. ASSUME Sync  PROVE QueueOrdered'
  BY <1>11, <1>t
  DEF Sync, QueueOrdered, Tracked, Queued, Sorted, Before, memory, worker
<1>12. ASSUME Detach  PROVE QueueOrdered'
  <2>1. /\ flight'.todo = events /\ flight'.pending = <<>> /\ events' = <<>>
        /\ UNCHANGED <<attached, proc, log>>
    BY <1>12 DEF Detach, NoFlight, disk
  <2>2. Queued' \subseteq Queued
    BY <1>s, <2>1 DEF Queued
  <2> QED BY <1>t, <1>s, <2>1, <2>2 DEF QueueOrdered, Tracked, Before
<1>13. ASSUME Settle  PROVE QueueOrdered'
  <2>1. /\ flight'.todo = <<>> /\ flight'.pending = <<>> /\ events' = flight.pending \o events
        /\ UNCHANGED <<attached, proc, log>>
    BY <1>13 DEF Settle, Requeue, NoFlight, disk
  <2>2. Queued' \subseteq Queued
    BY <1>s, <1>t, <2>1, Parts, Concatenated DEF Queued
  <2>3. Tracked => Sorted(events')
    BY <1>t, <2>1, Parts, Concatenated DEF QueueOrdered
  <2> QED BY <1>t, <1>s, <2>1, <2>2, <2>3 DEF QueueOrdered, Tracked, Before
<1>14. ASSUME Checkpoint  PROVE QueueOrdered'
  <2>1. flight' = NoFlight /\ UNCHANGED <<attached, proc, log, events>>
    BY <1>14 DEF Checkpoint, memory
  <2>2. Queued' \subseteq Queued
    BY <1>s, <2>1 DEF Queued
  <2> QED BY <1>t, <1>s, <2>1, <2>2 DEF QueueOrdered, Tracked, Before
<1>15. ASSUME Panic  PROVE QueueOrdered'
  <2>1. flight' = NoFlight /\ UNCHANGED <<attached, proc, log, events>>
    BY <1>15 DEF Panic, memory, disk
  <2>2. Queued' \subseteq Queued
    BY <1>s, <2>1 DEF Queued
  <2> QED BY <1>t, <1>s, <2>1, <2>2 DEF QueueOrdered, Tracked, Before
<1>16. ASSUME LatchWorkerErr  PROVE QueueOrdered'
  BY <1>16, <1>t
  DEF LatchWorkerErr, QueueOrdered, Tracked, Queued, Sorted, Before, disk, memory
<1>17. ASSUME Stop  PROVE QueueOrdered'
  BY <1>q, <1>17, QuietSteps
<1>18. ASSUME StopWorker  PROVE QueueOrdered'
  BY <1>q, <1>18, QuietSteps
<1>19. ASSUME StopFlush  PROVE QueueOrdered'
  BY <1>q, <1>19, QuietSteps
<1>20. ASSUME StopClose  PROVE QueueOrdered'
  BY <1>20, <1>t
  DEF StopClose, QueueOrdered, Tracked, Queued, Sorted, Before, memory, worker
<1>21. ASSUME Crash  PROVE QueueOrdered'
  BY <1>21, <1>n, <1>t DEF Crash, Tracked, ControlShape
<1>22. ASSUME OpenQueue  PROVE QueueOrdered'
  <2> DEFINE n == Len(log) - cp
             todo == [j \in 1..n |-> [call |-> log[cp + j], offset |-> cp + j]]
  <2>1. /\ flight'.todo = todo /\ flight'.pending = <<>> /\ events' = <<>> /\ log' = log
    BY <1>22, <1>t DEF OpenQueue, NoFlight, ControlShape, memory, disk
  <2>2. /\ n \in Nat /\ \A j \in 1..n : cp + j \in 1..Len(log)
        /\ cp \in Nat
    BY <1>t, Parts DEF DataType
  <2>3. todo \in Seq(Entry) /\ Len(todo) = n
    <3>1. \A j \in 1..n : [call |-> log[cp + j], offset |-> cp + j] \in Entry
      BY <1>t, <2>2, Parts DEF Entry
    <3> QED BY <2>2, <3>1
  <2>4. \A j \in 1..n : todo[j].offset = cp + j /\ todo[j].call = log[cp + j]
    OBVIOUS
  <2> HIDE DEF todo, n
  <2>5. Sorted(todo)
    BY <2>2, <2>3, <2>4 DEF Sorted
  <2>6. \A e \in ToSet(todo) : e.offset \in 1..Len(log) /\ log[e.offset] = e.call
    BY <2>2, <2>3, <2>4, Elements
  <2>7. Queued' = ToSet(todo)
    BY <1>s, <2>1 DEF Queued
  <2> QED BY <1>s, <2>1, <2>5, <2>6, <2>7 DEF QueueOrdered, Before
<1>23. ASSUME Attach  PROVE QueueOrdered'
  <2>1. /\ flight' = NoFlight /\ events' = flight.pending \o events /\ log' = log /\ Tracked
    BY <1>23 DEF Attach, Tracked
  <2>2. Queued' \subseteq Queued
    BY <1>s, <1>t, <2>1, Parts, Concatenated DEF Queued
  <2>3. Sorted(events')
    BY <1>t, <2>1, Parts, Concatenated DEF QueueOrdered
  <2> QED BY <1>t, <1>s, <2>1, <2>2, <2>3 DEF QueueOrdered, Before
<1>24. ASSUME OpenFails  PROVE QueueOrdered'
  BY <1>24, <1>n, <1>t DEF OpenFails, Tracked, ControlShape, StartDegraded
<1>25. ASSUME ReplayFails  PROVE QueueOrdered'
  BY <1>25, <1>n, <1>t DEF ReplayFails, Tracked, ControlShape, StartDegraded
<1>26. ASSUME AttachFails  PROVE QueueOrdered'
  BY <1>26, <1>n, <1>t DEF AttachFails, Tracked, ControlShape, StartDegraded
<1>27. CASE UNCHANGED vars
  BY <1>q, <1>27, QuietSteps
<1> QED
  BY <1>1, <1>2, <1>3, <1>4, <1>5, <1>6, <1>7, <1>8, <1>9, <1>10, <1>11, <1>12, <1>13,
     <1>14, <1>15, <1>16, <1>17, <1>18, <1>19, <1>20, <1>21, <1>22, <1>23, <1>24,
     <1>25, <1>26, <1>27
  DEF Next

(* What is behind a later checkpoint is behind an earlier one.             *)
LEMMA Behind ==
  ASSUME NEW a \in Nat, NEW b \in Nat, NEW n \in Nat, a =< b
  PROVE  \A i \in (b+1)..n : i \in (a+1)..n /\ i \in 1..n
  OBVIOUS

(* A frame behind the checkpoint is final or queued while the worker lives. *)
LEMMA CoverStep == ErrorInv /\ [Next]_vars => QueueCovers'
<1> SUFFICES ASSUME ErrorInv, [Next]_vars  PROVE QueueCovers'
  OBVIOUS
<1>t. /\ DataType /\ DataType' /\ ControlShape /\ QueueOrdered /\ QueueCovers
      /\ cp =< cp' /\ cp \in Nat /\ cp' \in Nat
  BY TypeStep, LogGrows DEF ErrorInv
<1>s. /\ ToSet(<<>>) = {} /\ NoFlight.todo = <<>> /\ NoFlight.pending = <<>>
  BY Parts, Elements, <1>t DEF NoFlight
<1>d. /\ \A i \in 1..Len(log) : log[i] \in Call
      /\ \A d \in Call : Disposed(d) => Disposed(d)'
  BY <1>t, Parts, DisposedStays
<1>r. \A i \in (cp'+1)..Len(log) : i \in (cp+1)..Len(log) /\ i \in 1..Len(log)
  <2>1. Len(log) \in Nat /\ cp \in Nat /\ cp' \in Nat /\ cp =< cp'
    BY <1>t, Parts
  <2> QED BY <2>1, Behind
<1>k. ASSUME log' = log, Queued' = Queued, Tracked, proc # "stopped",
             flusher # "panicking", ~workerErr
      PROVE  QueueCovers'
  BY <1>d, <1>k, <1>r, <1>t DEF QueueCovers
<1>q. ASSUME Quiet  PROVE QueueCovers'
  <2>1. log' = log /\ Queued' = Queued /\ UNCHANGED <<attached, proc, flusher, workerErr, cp>>
    BY <1>q DEF Quiet, Queued, disk
  <2>2. UNCHANGED <<rows, inbox, thinned, quarantined>>
    BY <1>q DEF Quiet, tables
  <2> QED BY <2>1, <2>2, <1>k DEF QueueCovers, Tracked
<1>n. ASSUME ~Tracked' \/ proc' = "stopped" \/ flusher' = "panicking" \/ workerErr'
      PROVE  QueueCovers'
  BY <1>n DEF QueueCovers
<1>1. ASSUME NEW i \in EventId, Expire(i)  PROVE QueueCovers'
  BY <1>q, <1>1, QuietSteps
<1>2. ASSUME NEW c \in Call, Lookup(c)  PROVE QueueCovers'
  BY <1>q, <1>2, QuietSteps
<1>3. ASSUME NEW c \in Call, PushFull(c)  PROVE QueueCovers'
  BY <1>q, <1>3, QuietSteps
<1>4. ASSUME NEW c \in Call, PushUnavailable(c)  PROVE QueueCovers'
  BY <1>q, <1>4, QuietSteps
<1>5. ASSUME NEW c \in Call, Push(c)  PROVE QueueCovers'
  <2> DEFINE n == Len(log) + 1
             e == [call |-> c, offset |-> n]
  <2>1. /\ e \in Entry /\ e.offset = n /\ Len(log') = n /\ Len(log) \in Nat
        /\ \A i \in 1..Len(log) : log'[i] = log[i]
        /\ events' = Append(events, e)
        /\ UNCHANGED <<attached, proc, flight, flusher, workerErr, cp>>
    BY <1>5, <1>t, Parts, AppendProperties DEF Push, Buffered, Entry, worker, DataType
  <2> HIDE DEF e
  <2>2. Queued' = Queued \cup {e}
    BY <1>t, <2>1, Parts, Appended DEF Queued
  <2>3. \A i \in (cp'+1)..n :
          i = n \/ (i \in (cp+1)..Len(log) /\ i \in 1..Len(log) /\ log'[i] = log[i])
    BY <1>t, <2>1
  <2>4. ASSUME Tracked, proc # "stopped", flusher # "panicking", ~workerErr, NEW i \in (cp'+1)..n
        PROVE  Disposed(log[i])' \/ \E d \in Queued' : d.offset = i
    <3>1. CASE i = n
      BY <2>1, <2>2, <3>1
    <3>2. CASE i \in (cp+1)..Len(log) /\ i \in 1..Len(log) /\ log'[i] = log[i]
      <4>1. CASE Disposed(log[i])
        BY <1>d, <3>2, <4>1
      <4>2. CASE ~Disposed(log[i])
        BY <1>t, <2>2, <2>4, <3>2, <4>2 DEF QueueCovers
      <4> QED BY <4>1, <4>2
    <3> QED BY <2>3, <3>1, <3>2
  <2> QED BY <2>1, <2>4 DEF QueueCovers, Tracked
<1>6. ASSUME NEW c \in Call, PushMemoryOnly(c)  PROVE QueueCovers'
  BY <1>6, <1>n, <1>t DEF PushMemoryOnly, Tracked, ControlShape
<1>7. ASSUME NEW c \in Call, Acknowledge(c)  PROVE QueueCovers'
  BY <1>q, <1>7, QuietSteps
<1>8. ASSUME NEW c \in Call, CommitFails(c)  PROVE QueueCovers'
  BY <1>q, <1>8, QuietSteps
<1>9. ASSUME NEW c \in Call, Final(c)  PROVE QueueCovers'
  <2>1. /\ flight.todo # <<>> /\ flight'.todo = Tail(flight.todo)
        /\ flight'.pending = flight.pending
        /\ UNCHANGED <<attached, proc, log, events, flusher, workerErr>> /\ Current.call = c
    BY <1>9, <1>t DEF Final, disk, DataType, FlightType
  <2>2. Queued = Queued' \cup {Current} /\ Current \in Queued
    BY <1>t, <2>1, AtCurrent DEF Queued
  <2>3. CASE Tracked
    <3>1. Current.offset \in 1..Len(log) /\ log[Current.offset] = c /\ Disposed(c)'
      BY <1>9, <1>t, <2>1, <2>2, <2>3, FinalDisposes DEF QueueOrdered
    <3>2. \A i \in 1..Len(log) : i = Current.offset => Disposed(log[i])'
      BY <2>1, <3>1
    <3> QED BY <1>d, <1>r, <1>t, <2>1, <2>2, <2>3, <3>2 DEF QueueCovers, Tracked
  <2> QED BY <2>1, <2>3, <1>n DEF Tracked
<1>10. ASSUME NEW c \in Call, Pending(c)  PROVE QueueCovers'
  <2>1. /\ flight.todo # <<>> /\ flight'.todo = Tail(flight.todo)
        /\ flight'.pending = Append(flight.pending, Current)
        /\ UNCHANGED <<attached, proc, log, events, flusher, workerErr>>
    BY <1>10, <1>t DEF Pending, disk, memory, DataType, FlightType
  <2>2. Queued' = Queued
    BY <1>t, <2>1, AtCurrent, Appended, Parts DEF Queued
  <2> QED
    BY <1>10, <2>1, <2>2, <1>k, <1>n, <1>t
    DEF Tracked, Pending, Applying, ControlShape
<1>11. ASSUME Sync  PROVE QueueCovers'
  <2>1. log' = log /\ Queued' = Queued /\ UNCHANGED <<attached, proc, flusher, workerErr>>
    BY <1>11 DEF Sync, Queued, memory, worker
  <2> QED BY <1>11, <2>1, <1>k, <1>n DEF Sync, Tracked
<1>12. ASSUME Detach  PROVE QueueCovers'
  <2>1. /\ flight = NoFlight /\ flight'.todo = events /\ flight'.pending = <<>> /\ events' = <<>>
        /\ UNCHANGED <<attached, proc, log, workerErr>> /\ proc = "up" /\ flusher = "idle"
    BY <1>12, <1>t DEF Detach, NoFlight, disk, ControlShape
  <2>2. Queued' = Queued
    BY <1>s, <2>1 DEF Queued
  <2> QED BY <2>1, <2>2, <1>k, <1>n DEF Tracked
<1>13. ASSUME Settle  PROVE QueueCovers'
  <2>1. /\ flight.todo = <<>> /\ flight'.todo = <<>> /\ flight'.pending = <<>>
        /\ events' = flight.pending \o events
        /\ UNCHANGED <<attached, proc, log, workerErr>> /\ proc = "up" /\ flusher = "applying"
    BY <1>13 DEF Settle, Requeue, NoFlight, disk
  <2>2. Queued' = Queued
    BY <1>s, <1>t, <2>1, Parts, Concatenated DEF Queued
  <2> QED BY <2>1, <2>2, <1>k, <1>n DEF Tracked
<1>14. ASSUME Checkpoint  PROVE QueueCovers'
  <2>1. /\ flight' = NoFlight /\ UNCHANGED <<attached, proc, log, events, workerErr>>
        /\ proc = "up" /\ flusher = "settled" /\ flight.todo = <<>> /\ flight.pending = <<>>
    BY <1>14, <1>t DEF Checkpoint, memory, ControlShape
  <2>2. Queued' = Queued
    BY <1>s, <2>1 DEF Queued
  <2> QED BY <2>1, <2>2, <1>k, <1>n DEF Tracked
<1>15. ASSUME Panic  PROVE QueueCovers'
  BY <1>15, <1>n, <1>t DEF Panic, Tracked, ControlShape
<1>16. ASSUME LatchWorkerErr  PROVE QueueCovers'
  BY <1>16, <1>n, <1>t DEF LatchWorkerErr, Tracked, ControlShape
<1>17. ASSUME Stop  PROVE QueueCovers'
  BY <1>q, <1>17, QuietSteps
<1>18. ASSUME StopWorker  PROVE QueueCovers'
  BY <1>q, <1>18, QuietSteps
<1>19. ASSUME StopFlush  PROVE QueueCovers'
  BY <1>q, <1>19, QuietSteps
<1>20. ASSUME StopClose  PROVE QueueCovers'
  BY <1>20, <1>n, <1>t DEF StopClose, Tracked, ControlShape
<1>21. ASSUME Crash  PROVE QueueCovers'
  BY <1>21, <1>n, <1>t DEF Crash, Tracked, ControlShape
<1>22. ASSUME OpenQueue  PROVE QueueCovers'
  <2> DEFINE n == Len(log) - cp
             todo == [j \in 1..n |-> [call |-> log[cp + j], offset |-> cp + j]]
  <2>1. flight'.todo = todo /\ UNCHANGED <<log, cp>>
    BY <1>22 DEF OpenQueue, NoFlight, disk
  <2>2. /\ n \in Nat /\ \A j \in 1..n : cp + j \in 1..Len(log)
        /\ \A i \in (cp+1)..Len(log) : i - cp \in 1..n /\ cp + (i - cp) = i
    BY <1>t, Parts DEF DataType
  <2>3. todo \in Seq(Entry) /\ Len(todo) = n
    <3>1. \A j \in 1..n : [call |-> log[cp + j], offset |-> cp + j] \in Entry
      BY <1>t, <2>2, Parts DEF Entry
    <3> QED BY <2>2, <3>1
  <2>4. \A j \in 1..n : todo[j].offset = cp + j
    OBVIOUS
  <2> HIDE DEF todo, n
  <2>5. \A i \in (cp+1)..Len(log) : \E e \in ToSet(todo) : e.offset = i
    BY <2>2, <2>3, <2>4, Elements
  <2> QED BY <2>1, <2>5 DEF QueueCovers, Queued
<1>23. ASSUME Attach  PROVE QueueCovers'
  <2>1. /\ flight.todo = <<>> /\ flight' = NoFlight /\ events' = flight.pending \o events
        /\ log' = log /\ Tracked /\ proc = "recovering" /\ flusher = "idle" /\ ~workerErr
    BY <1>23, <1>t DEF Attach, Tracked, ControlShape
  <2>2. Queued' = Queued
    BY <1>s, <1>t, <2>1, Parts, Concatenated DEF Queued
  <2> QED BY <2>1, <2>2, <1>k
<1>24. ASSUME OpenFails  PROVE QueueCovers'
  BY <1>24, <1>n, <1>t DEF OpenFails, Tracked, ControlShape, StartDegraded
<1>25. ASSUME ReplayFails  PROVE QueueCovers'
  BY <1>25, <1>n, <1>t DEF ReplayFails, Tracked, ControlShape, StartDegraded
<1>26. ASSUME AttachFails  PROVE QueueCovers'
  BY <1>26, <1>n, <1>t DEF AttachFails, Tracked, ControlShape, StartDegraded
<1>27. CASE UNCHANGED vars
  BY <1>q, <1>27, QuietSteps
<1> QED
  BY <1>1, <1>2, <1>3, <1>4, <1>5, <1>6, <1>7, <1>8, <1>9, <1>10, <1>11, <1>12, <1>13,
     <1>14, <1>15, <1>16, <1>17, <1>18, <1>19, <1>20, <1>21, <1>22, <1>23, <1>24,
     <1>25, <1>26, <1>27
  DEF Next

(* What a batch has earned stays final: the record a batch without a gap   *)
(* is at comes after every frame that is neither disposed nor checkpointed. *)
LEMMA TargetStep == ErrorInv /\ [Next]_vars => TargetFinal'
<1> SUFFICES ASSUME ErrorInv, [Next]_vars  PROVE TargetFinal'
  OBVIOUS
<1>t. /\ DataType /\ DataType' /\ ControlShape /\ QueueOrdered /\ QueueCovers /\ TargetFinal
      /\ CheckpointFinal /\ Len(log) \in Nat /\ flight.target \in Nat /\ cp \in Nat
      /\ cp =< Len(log)
  BY TypeStep, Parts DEF ErrorInv, DataType
<1>d. /\ \A i \in 1..Len(log) : log[i] \in Call
      /\ \A d \in Call : Disposed(d) => Disposed(d)'
  BY <1>t, Parts, DisposedStays
<1>r. \A i \in 1..flight.target : flight.target =< Len(log) => i \in 1..Len(log)
  BY <1>t
<1>k. ASSUME log' = log, flight'.target = flight.target, Tracked' => Tracked  PROVE TargetFinal'
  BY <1>d, <1>k, <1>r, <1>t DEF TargetFinal
<1>z. ASSUME flight'.target = 0  PROVE TargetFinal'
  <2>1. Len(log') \in Nat
    BY <1>t, LenProperties DEF DataType
  <2> QED BY <1>z, <2>1 DEF TargetFinal
<1>n. ASSUME ~Tracked'  PROVE TargetFinal'
  BY <1>n DEF TargetFinal
<1>q. ASSUME Quiet  PROVE TargetFinal'
  BY <1>q, <1>k DEF Quiet, Tracked, disk
<1>1. ASSUME NEW i \in EventId, Expire(i)  PROVE TargetFinal'
  BY <1>q, <1>1, QuietSteps
<1>2. ASSUME NEW c \in Call, Lookup(c)  PROVE TargetFinal'
  BY <1>q, <1>2, QuietSteps
<1>3. ASSUME NEW c \in Call, PushFull(c)  PROVE TargetFinal'
  BY <1>q, <1>3, QuietSteps
<1>4. ASSUME NEW c \in Call, PushUnavailable(c)  PROVE TargetFinal'
  BY <1>q, <1>4, QuietSteps
<1>5. ASSUME NEW c \in Call, Push(c)  PROVE TargetFinal'
  <2>1. /\ Len(log') = Len(log) + 1 /\ \A i \in 1..Len(log) : log'[i] = log[i]
        /\ UNCHANGED <<attached, proc, flight, tables>>
    BY <1>5, <1>t, AppendProperties DEF Push, DataType, worker
  <2>2. ASSUME Tracked, NEW i \in 1..flight.target  PROVE Disposed(log[i])'
    BY <1>d, <1>r, <1>t, <2>1, <2>2 DEF TargetFinal
  <2> QED BY <1>t, <2>1, <2>2 DEF TargetFinal, Tracked
<1>6. ASSUME NEW c \in Call, PushMemoryOnly(c)  PROVE TargetFinal'
  BY <1>6, <1>n, <1>t DEF PushMemoryOnly, Tracked, ControlShape
<1>7. ASSUME NEW c \in Call, Acknowledge(c)  PROVE TargetFinal'
  BY <1>q, <1>7, QuietSteps
<1>8. ASSUME NEW c \in Call, CommitFails(c)  PROVE TargetFinal'
  BY <1>q, <1>8, QuietSteps
<1>9. ASSUME NEW c \in Call, Final(c)  PROVE TargetFinal'
  <2>1. /\ flight.todo # <<>> /\ flight'.target = Target /\ UNCHANGED <<attached, proc, log>>
        /\ Current.call = c /\ Applying
    BY <1>9, <1>t DEF Final, disk, DataType, FlightType
  <2>2. CASE ~Tracked
    BY <1>n, <2>1, <2>2 DEF Tracked
  <2>3. CASE flight.gap
    BY <1>k, <2>1, <2>3 DEF Target, Tracked
  <2>4. CASE Tracked /\ ~flight.gap
    <3> DEFINE k == Current.offset
    <3>1. k \in 1..Len(log) /\ log[k] = c /\ log' = log /\ Disposed(c)'
      BY <1>9, <1>t, <2>1, <2>4, AtCurrent, FinalDisposes DEF QueueOrdered, Queued
    <3>2. \A e \in Queued : k =< e.offset
      <4>1. Queued = {Current} \cup ToSet(Tail(flight.todo)) \cup ToSet(events)
        BY <1>t, <2>1, <2>4, AtCurrent, Parts, Elements DEF Queued, ControlShape
      <4>2. \A e \in ToSet(Tail(flight.todo)) \cup ToSet(events) : k < e.offset /\ e.offset \in Nat
        BY <1>t, <2>1, <2>4, AtCurrent, Parts, Elements DEF QueueOrdered, Before
      <4> QED BY <3>1, <4>1, <4>2
    <3>3. proc # "stopped" /\ flusher # "panicking" /\ ~workerErr
      BY <1>t, <2>1 DEF Applying, ControlShape
    <3>4. \A i \in 1..k : Disposed(log[i])'
      <4> TAKE i \in 1..k
      <4>1. i \in 1..Len(log) /\ (i =< cp => i \in 1..cp) /\ (i > cp => i \in (cp+1)..Len(log))
        BY <1>t, <3>1
      <4>2. CASE i =< cp
        BY <1>t, <1>d, <3>1, <4>1, <4>2 DEF CheckpointFinal
      <4>3. CASE i > cp /\ i # k
        <5>1. i < k
          BY <3>1, <4>3
        <5>2. ~\E e \in Queued : e.offset = i
          BY <3>1, <3>2, <5>1
        <5>3. Disposed(log[i])
          BY <1>t, <2>4, <3>3, <4>1, <4>3, <5>2 DEF QueueCovers
        <5> QED BY <1>d, <3>1, <4>1, <5>3
      <4>4. CASE i = k
        BY <3>1, <4>4
      <4> QED BY <3>1, <4>1, <4>2, <4>3, <4>4, <1>t
    <3>5. flight'.target = k
      BY <2>1, <2>4 DEF Target
    <3> QED BY <2>1, <3>1, <3>4, <3>5, <1>t DEF TargetFinal
  <2> QED BY <2>2, <2>3, <2>4
<1>10. ASSUME NEW c \in Call, Pending(c)  PROVE TargetFinal'
  <2>1. flight'.target = flight.target /\ UNCHANGED <<attached, proc, log>>
    BY <1>10, <1>t DEF Pending, disk, DataType, FlightType
  <2> QED BY <2>1, <1>k DEF Tracked
<1>11. ASSUME Sync  PROVE TargetFinal'
  BY <1>11, <1>k DEF Sync, Tracked, memory, worker
<1>12. ASSUME Detach  PROVE TargetFinal'
  BY <1>12, <1>z DEF Detach, NoFlight
<1>13. ASSUME Settle  PROVE TargetFinal'
  <2>1. flight'.target \in {0, flight.target} /\ UNCHANGED <<attached, proc, log>>
    BY <1>13 DEF Settle, NoFlight, disk
  <2> QED BY <2>1, <1>k, <1>z DEF Tracked
<1>14. ASSUME Checkpoint  PROVE TargetFinal'
  BY <1>14, <1>z DEF Checkpoint, NoFlight
<1>15. ASSUME Panic  PROVE TargetFinal'
  BY <1>15, <1>z DEF Panic, NoFlight
<1>16. ASSUME LatchWorkerErr  PROVE TargetFinal'
  BY <1>16, <1>k DEF LatchWorkerErr, Tracked, disk, memory
<1>17. ASSUME Stop  PROVE TargetFinal'
  BY <1>q, <1>17, QuietSteps
<1>18. ASSUME StopWorker  PROVE TargetFinal'
  BY <1>q, <1>18, QuietSteps
<1>19. ASSUME StopFlush  PROVE TargetFinal'
  BY <1>q, <1>19, QuietSteps
<1>20. ASSUME StopClose  PROVE TargetFinal'
  BY <1>20, <1>k DEF StopClose, Tracked, memory, worker
<1>21. ASSUME Crash  PROVE TargetFinal'
  BY <1>21, <1>n, <1>t DEF Crash, Tracked, ControlShape
<1>22. ASSUME OpenQueue  PROVE TargetFinal'
  BY <1>22, <1>z DEF OpenQueue, NoFlight
<1>23. ASSUME Attach  PROVE TargetFinal'
  BY <1>23, <1>z DEF Attach, NoFlight
<1>24. ASSUME OpenFails  PROVE TargetFinal'
  BY <1>24, <1>n, <1>t DEF OpenFails, Tracked, ControlShape, StartDegraded
<1>25. ASSUME ReplayFails  PROVE TargetFinal'
  BY <1>25, <1>n, <1>t DEF ReplayFails, Tracked, ControlShape, StartDegraded
<1>26. ASSUME AttachFails  PROVE TargetFinal'
  BY <1>26, <1>n, <1>t DEF AttachFails, Tracked, ControlShape, StartDegraded
<1>27. CASE UNCHANGED vars
  BY <1>q, <1>27, QuietSteps
<1> QED
  BY <1>1, <1>2, <1>3, <1>4, <1>5, <1>6, <1>7, <1>8, <1>9, <1>10, <1>11, <1>12, <1>13,
     <1>14, <1>15, <1>16, <1>17, <1>18, <1>19, <1>20, <1>21, <1>22, <1>23, <1>24,
     <1>25, <1>26, <1>27
  DEF Next

(* The checkpoint moves only to what a batch has earned.                   *)
LEMMA CheckpointStep == ErrorInv /\ [Next]_vars => CheckpointFinal'
<1> SUFFICES ASSUME ErrorInv, [Next]_vars  PROVE CheckpointFinal'
  OBVIOUS
<1>t. /\ DataType /\ ControlShape /\ TargetFinal /\ CheckpointFinal
      /\ cp \in Nat /\ stable \in Nat /\ cp =< stable /\ stable =< Len(log) /\ Len(log) \in Nat
      /\ flight.target \in Nat
  BY Parts DEF ErrorInv, DataType
<1>d. /\ \A i \in 1..stable : log'[i] = log[i] /\ log[i] \in Call
      /\ \A i \in 1..Len(log) : log[i] \in Call
      /\ \A d \in Call : Disposed(d) => Disposed(d)'
  BY <1>t, Parts, DisposedStays, LogGrows
<1>r. \A i \in 1..cp : i \in 1..stable
  BY <1>t
<1>k. ASSUME cp' = cp  PROVE CheckpointFinal'
  BY <1>d, <1>k, <1>r, <1>t DEF CheckpointFinal
<1>c. ASSUME cp' = flight.target, log' = log, Tracked  PROVE CheckpointFinal'
  <2>1. \A i \in 1..flight.target : i \in 1..Len(log) /\ Disposed(log[i])
    BY <1>c, <1>t DEF TargetFinal
  <2> QED BY <1>c, <1>d, <2>1 DEF CheckpointFinal
<1>1. CASE Quiet
  BY <1>1, <1>k DEF Quiet, disk
<1>2. ASSUME NEW c \in Call, Push(c) \/ PushMemoryOnly(c) \/ Final(c) \/ Pending(c)
      PROVE  CheckpointFinal'
  BY <1>2, <1>k DEF Push, PushMemoryOnly, Final, Pending, disk
<1>3. CASE Sync \/ StopClose \/ Detach \/ Settle \/ Panic \/ LatchWorkerErr
  BY <1>3, <1>k DEF Sync, StopClose, Detach, Settle, Panic, LatchWorkerErr, disk
<1>4. CASE Crash \/ OpenQueue \/ OpenFails \/ ReplayFails
  BY <1>4, <1>k DEF Crash, OpenQueue, OpenFails, ReplayFails, disk
<1>5. CASE Checkpoint
  BY <1>5, <1>c, <1>k, <1>t DEF Checkpoint, ControlShape, Tracked
<1>6. CASE Attach
  BY <1>6, <1>c, <1>k DEF Attach, Earned, Tracked
<1>7. CASE AttachFails
  BY <1>7, <1>c, <1>k DEF AttachFails, StartDegraded, Tracked
<1> QED BY <1>1, <1>2, <1>3, <1>4, <1>5, <1>6, <1>7, QuietSteps DEF Next

(* A stable frame the checkpoint has not reached is behind it.             *)
LEMMA Above ==
  ASSUME NEW a \in Nat, NEW m \in Nat, NEW n \in Nat, m =< n, NEW i \in 1..m, i > a
  PROVE  i \in (a+1)..n
  OBVIOUS

(* A record that is safe stays safe.                                       *)
LEMMA SafeStays ==
  ASSUME ErrorInv, [Next]_vars, NEW d \in Call, Safe(d)
  PROVE  Safe(d)'
<1>1. /\ cp \in Nat /\ cp' \in Nat /\ stable \in Nat /\ stable' \in Nat /\ stable =< stable'
      /\ \A i \in 1..stable : log'[i] = log[i] /\ log[i] \in Call
  BY LogGrows
<1>2. CASE Disposed(d)
  BY <1>2, DisposedStays DEF ErrorInv, Safe
<1>3. CASE Replayable(d)
  <2>1. PICK i \in (cp+1)..stable : log[i] = d
    BY <1>3 DEF Replayable
  <2>2. i \in 1..stable /\ log'[i] = d
    BY <1>1, <2>1
  <2>3. CASE i =< cp'
    <3>1. i \in 1..cp'
      BY <1>1, <2>2, <2>3
    <3>2. Disposed(log[i])'
      BY <3>1, CheckpointStep DEF CheckpointFinal
    <3> QED BY <2>2, <3>2 DEF Safe, Disposed, Claimed
  <2>4. CASE i > cp'
    <3>1. i \in (cp'+1)..stable'
      BY <1>1, <2>2, <2>4, Above
    <3> QED BY <2>2, <3>1 DEF Safe, Replayable
  <2> QED BY <1>1, <2>2, <2>3, <2>4
<1> QED BY <1>2, <1>3 DEF Safe

(* What a stable frame holds is safe.                                      *)
LEMMA CommittedIsSafe ==
  ASSUME ErrorInv, NEW c \in Call, Committed(c)
  PROVE  Safe(c)
<1>1. PICK i \in 1..stable : log[i] = c
  BY DEF Committed
<1>2. cp \in Nat /\ stable \in Nat /\ CheckpointFinal
  BY DEF ErrorInv, DataType
<1>3. CASE i =< cp
  <2>1. i \in 1..cp
    BY <1>1, <1>2, <1>3
  <2> QED BY <1>1, <1>2, <2>1 DEF CheckpointFinal, Safe
<1>4. CASE i > cp
  <2>1. i \in (cp+1)..stable
    BY <1>1, <1>2, <1>4
  <2> QED BY <1>1, <2>1 DEF Safe, Replayable
<1> QED BY <1>1, <1>2, <1>3, <1>4

(* The cache learns of an identity when its record is safe.                *)
LEMMA CacheStep == ErrorInv /\ [Next]_vars => CacheSafe'
<1> SUFFICES ASSUME ErrorInv, [Next]_vars  PROVE CacheSafe'
  OBVIOUS
<1>t. DataType /\ ControlShape /\ CacheSafe /\ CacheType(adm)
  BY DEF ErrorInv, DataType
<1>s. \A d \in Call : Safe(d) => Safe(d)'
  BY SafeStays
<1>k. ASSUME attached' => attached, adm'.fresh \subseteq adm.fresh, adm'.seen = adm.seen
      PROVE  CacheSafe'
  BY <1>k, <1>s, <1>t DEF CacheSafe
<1>n. ASSUME ~attached' \/ adm'.fresh = {}  PROVE CacheSafe'
  BY <1>n DEF CacheSafe
<1>r. ASSUME NEW c \in Call, Record(c), attached' = attached, attached /\ ~Lossy => Safe(c)
      PROVE  CacheSafe'
  <2>1. \A i \in adm'.fresh : \/ i = Identity[c] /\ adm'.seen[i] = Digest[c]
                              \/ i \in adm.fresh /\ adm'.seen[i] = adm.seen[i]
    BY <1>r, <1>t, Remembered
  <2> QED BY <1>r, <1>s, <1>t, <2>1 DEF CacheSafe
<1>1. ASSUME NEW i \in EventId, Expire(i)  PROVE CacheSafe'
  BY <1>1, <1>k, <1>t DEF Expire, CacheType
<1>2. ASSUME NEW c \in Call, Push(c)  PROVE CacheSafe'
  BY <1>2, <1>k, <1>r DEF Push
<1>3. ASSUME NEW c \in Call, PushMemoryOnly(c)  PROVE CacheSafe'
  BY <1>3, <1>n DEF PushMemoryOnly
<1>4. ASSUME NEW c \in Call, Acknowledge(c)  PROVE CacheSafe'
  BY <1>4, <1>r, CommittedIsSafe DEF Acknowledge
<1>5. ASSUME NEW c \in Call,
             \/ Lookup(c) \/ PushFull(c) \/ PushUnavailable(c)
             \/ CommitFails(c) \/ Final(c) \/ Pending(c)
      PROVE  CacheSafe'
  BY <1>5, <1>k DEF Lookup, PushFull, PushUnavailable, CommitFails, Final, Pending
<1>6. CASE \/ Sync \/ Detach \/ Settle \/ Checkpoint \/ Panic \/ LatchWorkerErr
           \/ Stop \/ StopWorker \/ StopFlush \/ StopClose
  <2>1. adm' = adm /\ attached' = attached
    BY <1>6
    DEF Sync, Detach, Settle, Checkpoint, Panic, LatchWorkerErr, Stop, StopWorker,
                StopFlush, StopClose
  <2> QED BY <1>k, <2>1
<1>7. CASE OpenQueue \/ OpenFails \/ ReplayFails \/ AttachFails
  <2>1. adm' = adm /\ attached' = attached
    BY <1>7 DEF OpenQueue, OpenFails, ReplayFails, AttachFails, StartDegraded
  <2> QED BY <1>k, <2>1
<1>8. CASE Crash
  BY <1>8, <1>n DEF Crash
<1>9. CASE Attach
  BY <1>9, <1>n, <1>t DEF Attach, ControlShape
<1>10. CASE UNCHANGED vars
  BY <1>10, <1>k DEF vars
<1> QED BY <1>1, <1>2, <1>3, <1>4, <1>5, <1>6, <1>7, <1>8, <1>9, <1>10 DEF Next

(* A call is told 200 when its record, or one like it, is safe.            *)
LEMMA AckedStep == ErrorInv /\ [Next]_vars => AckedDisposed'
<1> SUFFICES ASSUME ErrorInv, [Next]_vars  PROVE AckedDisposed'
  OBVIOUS
<1> DEFINE Kept(c) == \E d \in SameRecord(c) : Safe(d)
<1>t. DataType /\ CacheSafe /\ CacheType(adm) /\ call \in [Call -> CallState]
      /\ \A c \in Call : call[c] = "acked" => Kept(c)
  BY DEF ErrorInv, DataType, AckedDisposed, Safe
<1>s. \A c \in Call : Kept(c) => Kept(c)'
  BY SafeStays DEF SameRecord
<1>p. SUFFICES \A c \in Call : call'[c] = "acked" => Kept(c)'
  BY DEF AckedDisposed, Safe
<1> HIDE DEF Kept
<1>k. ASSUME \A c \in Call : call'[c] = "acked" => call[c] = "acked"
      PROVE  \A c \in Call : call'[c] = "acked" => Kept(c)'
  BY <1>k, <1>s, <1>t
<1>a. ASSUME NEW c \in Call, NEW r, Reply(c, r), r = "acked" => Kept(c)
      PROVE  \A d \in Call : call'[d] = "acked" => Kept(d)'
  <2>1. \A d \in Call : call'[d] = IF d = c THEN r ELSE call[d]
    BY <1>a, <1>t DEF Reply
  <2> QED BY <1>a, <1>s, <1>t, <2>1
<1>1. ASSUME NEW c \in Call, Lookup(c)
      PROVE  \A d \in Call : call'[d] = "acked" => Kept(d)'
  <2>1. ASSUME Known(c), adm.seen[Identity[c]] = Digest[c], Granted = "acked"
        PROVE  Kept(c)
    <3>1. Identity[c] \in EventId /\ Identity[c] \in adm.fresh /\ Identity[c] # NoId
      BY <1>t, <2>1, ErrorBufferAssumption DEF Known, CacheType
    <3>2. attached /\ ~Lossy
      BY <2>1 DEF Granted
    <3>3. PICK d \in Call : Identity[d] = Identity[c] /\ Digest[d] = Digest[c] /\ Safe(d)
      BY <1>t, <2>1, <3>1, <3>2 DEF CacheSafe
    <3> QED BY <3>1, <3>3 DEF Kept, SameRecord
  <2> DEFINE r == CASE ~Known(c) -> "checked"
                    [] Known(c) /\ adm.seen[Identity[c]] = Digest[c] -> Granted
                    [] OTHER -> "conflict"
  <2>2. Reply(c, r)
    BY <1>1 DEF Lookup
  <2>3. r = "acked" => Kept(c)
    BY <2>1
  <2> QED BY <1>a, <2>2, <2>3
<1>2. ASSUME NEW c \in Call, Acknowledge(c)
      PROVE  \A d \in Call : call'[d] = "acked" => Kept(d)'
  <2>1. Kept(c)
    BY <1>2, CommittedIsSafe DEF Acknowledge, Kept, SameRecord
  <2> QED BY <1>2, <1>a, <2>1 DEF Acknowledge
<1>3. ASSUME NEW c \in Call,
             PushFull(c) \/ PushUnavailable(c) \/ PushMemoryOnly(c) \/ CommitFails(c)
      PROVE  \A d \in Call : call'[d] = "acked" => Kept(d)'
  <2>1. Reply(c, "full") \/ Reply(c, "unavailable") \/ Reply(c, "accepted")
    BY <1>3 DEF PushFull, PushUnavailable, PushMemoryOnly, CommitFails
  <2> QED BY <1>a, <2>1
<1>4. ASSUME NEW c \in Call, Push(c)
      PROVE  \A d \in Call : call'[d] = "acked" => Kept(d)'
  <2>1. Reply(c, "accepted") \/ Reply(c, "waiting")
    BY <1>4 DEF Push
  <2> QED BY <1>a, <2>1
<1>5. CASE Crash
  <2>1. \A c \in Call : call'[c] = "acked" => call[c] = "acked"
    BY <1>5 DEF Crash
  <2> QED BY <1>k, <2>1
<1>6. CASE call' = call
  BY <1>6, <1>k
<1>7. ASSUME NEW c \in Call, Final(c) \/ Pending(c)  PROVE call' = call
  BY <1>7 DEF Final, Pending
<1>8. ASSUME NEW i \in EventId, Expire(i)  PROVE call' = call
  BY <1>8 DEF Expire
<1>9. CASE \/ Sync \/ Detach \/ Settle \/ Checkpoint \/ Panic \/ LatchWorkerErr
           \/ Stop \/ StopWorker \/ StopFlush \/ StopClose
  BY <1>9, <1>6
  DEF Sync, Detach, Settle, Checkpoint, Panic, LatchWorkerErr, Stop, StopWorker,
                    StopFlush, StopClose
<1>10. CASE OpenQueue \/ Attach \/ OpenFails \/ ReplayFails \/ AttachFails \/ UNCHANGED vars
  BY <1>10, <1>6
  DEF OpenQueue, Attach, OpenFails, ReplayFails, AttachFails, StartDegraded, vars
<1> QED
  BY <1>1, <1>2, <1>3, <1>4, <1>5, <1>6, <1>7, <1>8, <1>9, <1>10 DEF Next

(* An empty log and an empty ledger.                                       *)
LEMMA InitInv == Init => ErrorInv
<1> SUFFICES ASSUME Init  PROVE ErrorInv
  OBVIOUS
<1>1. DataType
  <2>1. <<>> \in Seq(Call) /\ <<>> \in Seq(Entry) /\ Len(<<>>) = 0
    BY EmptySeq
  <2>2. FlightType(flight)
    BY <2>1 DEF Init, NoFlight, FlightType
  <2>3. CacheType(adm)
    BY DEF Init, EmptyCache, CacheType
  <2>4. call \in [Call -> CallState]
    BY DEF Init, CallState
  <2> QED BY <2>1, <2>2, <2>3, <2>4 DEF Init, DataType
<1>2. ControlShape
  BY DEF Init, ControlShape, NoFlight, EmptyCache
<1>3. Queued = {} /\ log = <<>> /\ cp = 0 /\ Len(log) = 0 /\ flight.target = 0
      /\ flight.todo = <<>> /\ flight.pending = <<>> /\ events = <<>>
  BY <1>1, Parts, Elements DEF Init, Queued, NoFlight
<1>4. QueueOrdered
  BY <1>1, <1>3, Parts, Elements DEF QueueOrdered, Sorted, Before
<1>5. QueueCovers /\ TargetFinal /\ CheckpointFinal
  BY <1>3 DEF QueueCovers, TargetFinal, CheckpointFinal
<1>6. CacheSafe /\ AckedDisposed
  BY DEF Init, CacheSafe, AckedDisposed, EmptyCache
<1> QED BY <1>1, <1>2, <1>4, <1>5, <1>6 DEF ErrorInv

(* Every reachable state satisfies the inductive invariant, whatever fails *)
(* of the faults of the module (an fsync of the log is none of them).      *)
THEOREM ErrorInvariant == Spec => []ErrorInv
<1>1. ErrorInv /\ [Next]_vars => ErrorInv'
  BY TypeStep, ControlStep, OrderStep, CoverStep, TargetStep, CheckpointStep,
     CacheStep, AckedStep
  DEF ErrorInv
<1> QED BY InitInv, <1>1, PTL DEF Spec

(* The checkpoint of the error log never passes a record that was neither  *)
(* applied, deduplicated, thinned nor quarantined: not in a batch with a   *)
(* gap, nor across requeues, panics, shutdowns, failed attaches and        *)
(* recoveries (Flush, AttachQueue).                                        *)
THEOREM CheckpointIsFinal == Spec => []CheckpointFinal
<1>1. ErrorInv => CheckpointFinal
  BY DEF ErrorInv
<1> QED BY ErrorInvariant, <1>1, PTL

(* A durable 200 keeps its meaning: the record acknowledged, or one of its *)
(* identity and payload, has its disposition or is in a stable frame the   *)
(* next start replays, even when the answer came from the admission cache: *)
(* whatever flush, apply, spool or checkpoint fails, but no fsync.         *)
THEOREM AcknowledgedIsDisposed == Spec => []AckedDisposed
<1>1. ErrorInv => AckedDisposed
  BY DEF ErrorInv
<1> QED BY ErrorInvariant, <1>1, PTL

(* The transaction of ApplyInbox writes a row only with its claim.         *)
LEMMA AppliedStep == ErrorInv /\ AppliedOnce /\ [Next]_vars => AppliedOnce'
<1> SUFFICES ASSUME ErrorInv, AppliedOnce, [Next]_vars  PROVE AppliedOnce'
  OBVIOUS
<1>t. DataType
  BY DEF ErrorInv
<1>k. ASSUME rows' = rows, \A i \in EventId : inbox[i] # Absent => inbox'[i] = inbox[i]
      PROVE  AppliedOnce'
  <2>1. \A c \in Call : Identity[c] # NoId => Identity[c] \in EventId /\ Digest[c] # Absent
    BY <1>t, Parts
  <2> QED BY <1>k, <2>1 DEF AppliedOnce
<1>u. ASSUME UNCHANGED tables  PROVE AppliedOnce'
  BY <1>u, <1>k DEF tables
<1>a. ASSUME NEW c \in Call, ~Claimed(c), AddRow(c), Claim(c)  PROVE AppliedOnce'
  <2>1. CASE Identity[c] = NoId
    <3>1. inbox' = inbox
      BY <1>a, <2>1 DEF Claim
    <3>2. \A d \in Call : Identity[d] # NoId => rows'[d] = rows[d]
      BY <1>a, <1>t, <2>1 DEF AddRow, DataType
    <3>3. \A d, e \in Call : Identity[d] # NoId /\ Identity[e] = Identity[d] => Identity[e] # NoId
      OBVIOUS
    <3> QED BY <3>1, <3>2, <3>3 DEF AppliedOnce
  <2>2. CASE Identity[c] # NoId
    <3> DEFINE id == Identity[c]
    <3>1. id \in EventId /\ inbox[id] = Absent /\ \A d \in Call : Digest[d] # Absent
      BY <1>a, <1>t, <2>2, Parts DEF Claimed
    <3>2. inbox' = [inbox EXCEPT ![id] = Digest[c]]
      BY <1>a, <2>2 DEF Claim
    <3>3. \A d \in Call : Identity[d] = id => rows[d] = 0
      BY <1>t, <2>2, <3>1 DEF AppliedOnce, DataType
    <3>4. rows' = [rows EXCEPT ![c] = 1]
      <4>1. rows[c] = 0
        BY <3>3
      <4>2. (IF rows[c] = 2 THEN 2 ELSE rows[c] + 1) = 1
        BY <4>1
      <4> QED BY <1>a, <4>2 DEF AddRow
    <3>5. /\ inbox'[id] = Digest[c] /\ \A i \in EventId : i # id => inbox'[i] = inbox[i]
          /\ rows'[c] = 1 /\ \A d \in Call : d # c => rows'[d] = rows[d]
      BY <1>t, <3>1, <3>2, <3>4 DEF DataType
    <3>6. ASSUME NEW d \in Call, Identity[d] # NoId, rows'[d] > 0
          PROVE  /\ rows'[d] = 1 /\ inbox'[Identity[d]] = Digest[d]
                 /\ \A e \in Call \ {d} : Identity[e] = Identity[d] => rows'[e] = 0
      <4>1. CASE d = c
        BY <3>3, <3>5, <4>1
      <4>2. CASE d # c
        <5>1. Identity[d] # id /\ Identity[d] \in EventId /\ rows[d] > 0
          BY <1>t, <3>3, <3>5, <3>6, <4>2, Parts DEF DataType
        <5>2. \A e \in Call \ {d} : Identity[e] = Identity[d] => e # c
          BY <5>1
        <5> QED BY <3>5, <3>6, <4>2, <5>1, <5>2 DEF AppliedOnce
      <4> QED BY <4>1, <4>2
    <3> QED BY <3>6 DEF AppliedOnce
  <2> QED BY <2>1, <2>2
<1>c. ASSUME NEW c \in Call, ApplyCommits(c)  PROVE AppliedOnce'
  <2>1. CASE UNCHANGED tables
    BY <2>1, <1>u
  <2>2. CASE ~Claimed(c) /\ AddRow(c) /\ Claim(c)
    BY <2>2, <1>a
  <2>3. CASE rows' = rows
    BY <1>c, <1>k, <1>t, <2>3, Applied
  <2> QED BY <1>c, <2>1, <2>2, <2>3 DEF ApplyCommits
<1>f. ASSUME NEW c \in Call, ApplyCommits(c) \/ Quarantine(c) \/ ApplyFails(c)  PROVE AppliedOnce'
  <2>1. CASE Quarantine(c)
    BY <1>k, <2>1 DEF Quarantine
  <2> QED BY <1>c, <1>f, <1>u, <2>1 DEF ApplyFails
<1>1. ASSUME NEW c \in Call, Final(c) \/ Pending(c)  PROVE AppliedOnce'
  BY <1>1, <1>f DEF Final, Pending
<1>2. CASE ReplayFails
  BY <1>2, <1>f, <1>t, AtCurrent DEF ReplayFails
<1>3. ASSUME NEW c \in Call, Push(c) \/ PushMemoryOnly(c)  PROVE AppliedOnce'
  BY <1>3, <1>u DEF Push, PushMemoryOnly
<1>4. CASE \/ Sync \/ Detach \/ Settle \/ Checkpoint \/ Panic \/ LatchWorkerErr \/ StopClose
           \/ Crash \/ OpenQueue \/ Attach \/ OpenFails \/ AttachFails
  BY <1>4, <1>u
  DEF Sync, Detach, Settle, Checkpoint, Panic, LatchWorkerErr, StopClose, Crash,
                    OpenQueue, Attach, OpenFails, AttachFails
<1>5. CASE Quiet
  BY <1>5, <1>u DEF Quiet
<1> QED BY <1>1, <1>2, <1>3, <1>4, <1>5, QuietSteps DEF Next

(* At most one payload of an identity is in error_events, once, and the    *)
(* ledger names it: however often it is retried, requeued, replayed or     *)
(* committed without an answer (ApplyInbox, inbox.go).                     *)
THEOREM OneIdentityOnce == Spec => []AppliedOnce
<1>1. Init => AppliedOnce
  BY DEF Init, AppliedOnce
<1> QED BY <1>1, ErrorInvariant, AppliedStep, PTL DEF Spec

-----------------------------------------------------------------------------
(* The error path refines DurableLog.                                      *)

(* A frame is of one call, whose answer follows the group commit.          *)
LEMMA LogOnceStep == ErrorInv /\ LogOnce /\ [Next]_vars => LogOnce'
<1> SUFFICES ASSUME ErrorInv, LogOnce, [Next]_vars  PROVE LogOnce'
  OBVIOUS
<1>t. /\ DataType /\ Len(log) \in Nat /\ (\A i \in 1..Len(log) : log[i] \in Call)
      /\ stable \in Nat /\ stable' \in Nat /\ stable =< stable' /\ stable =< Len(log)
      /\ log \in Seq(Call) /\ call \in [Call -> CallState]
  BY LogGrows, Parts DEF ErrorInv, DataType
<1> DEFINE Kept == \A c \in Call :
             /\ call[c] \notin {"idle", "checked"} => call'[c] \notin {"idle", "checked"}
             /\ call'[c] = "acked" => call[c] \in {"acked", "idle"} \/ Committed(c)
<1>k. ASSUME log' = log, Kept  PROVE LogOnce'
  <2>1. ASSUME NEW i \in 1..Len(log), call'[log[i]] = "acked"  PROVE i =< stable'
    <3>1. CASE Committed(log[i])
      <4>1. PICK j \in 1..stable : log[j] = log[i]
        BY <3>1 DEF Committed
      <4>2. j \in 1..Len(log)
        BY <1>t
      <4> QED BY <1>t, <4>1, <4>2 DEF LogOnce
    <3>2. CASE call[log[i]] = "acked"
      BY <1>t, <3>2 DEF LogOnce
    <3> QED BY <1>k, <1>t, <2>1, <3>1, <3>2 DEF LogOnce
  <2> QED BY <1>k, <1>t, <2>1 DEF LogOnce
<1>a. ASSUME NEW c \in Call, NEW r, Reply(c, r), r \notin {"idle"},
             r = "checked" => call[c] = "idle",
             r = "acked" => call[c] = "idle" \/ Committed(c)
      PROVE  Kept
  BY <1>a, <1>t DEF Reply
<1>1. ASSUME NEW c \in Call,
             Lookup(c) \/ PushFull(c) \/ PushUnavailable(c) \/ PushMemoryOnly(c)
                       \/ Acknowledge(c) \/ CommitFails(c)
      PROVE  LogOnce'
  <2>1. log' = log
    BY <1>1
    DEF Lookup, PushFull, PushUnavailable, PushMemoryOnly, Acknowledge, CommitFails,
        disk
  <2>2. CASE Lookup(c)
    <3> DEFINE r == CASE ~Known(c) -> "checked"
                      [] Known(c) /\ adm.seen[Identity[c]] = Digest[c] -> Granted
                      [] OTHER -> "conflict"
    <3>1. Reply(c, r) /\ call[c] = "idle" /\ r # "idle"
      BY <2>2 DEF Lookup, Granted
    <3> HIDE DEF r
    <3> QED BY <1>a, <1>k, <2>1, <3>1
  <2>3. CASE Acknowledge(c)
    BY <1>a, <1>k, <2>1, <2>3 DEF Acknowledge
  <2>4. CASE PushFull(c) \/ PushUnavailable(c) \/ PushMemoryOnly(c) \/ CommitFails(c)
    <3>1. Reply(c, "full") \/ Reply(c, "unavailable") \/ Reply(c, "accepted")
      BY <2>4 DEF PushFull, PushUnavailable, PushMemoryOnly, CommitFails
    <3> QED BY <1>a, <1>k, <2>1, <3>1
  <2> QED BY <1>1, <2>2, <2>3, <2>4
<1>2. ASSUME NEW c \in Call, Push(c)  PROVE LogOnce'
  <2>1. /\ call[c] = "checked" /\ stable' = stable
        /\ \E r \in {"accepted", "waiting"} : Reply(c, r)
        /\ log' = Append(log, c)
    BY <1>2 DEF Push
  <2>2. /\ Len(log') = Len(log) + 1 /\ log'[Len(log) + 1] = c
        /\ \A i \in 1..Len(log) : log'[i] = log[i]
    BY <1>t, <2>1, AppendProperties
  <2>3. /\ call'[c] \in {"accepted", "waiting"}
        /\ \A d \in Call : d # c => call'[d] = call[d]
    BY <1>t, <2>1 DEF Reply
  <2>4. \A i \in 1..Len(log) : log[i] # c /\ log[i] \in Call
    BY <1>t, <2>1 DEF LogOnce
  <2>5. \A i \in 1..(Len(log) + 1) : i \in 1..Len(log) \/ i = Len(log) + 1
    BY <1>t
  <2> QED BY <1>t, <2>1, <2>2, <2>3, <2>4, <2>5 DEF LogOnce
<1>3. CASE Crash
  <2>1. PICK n \in stable..Len(log) : log' = SubSeq(log, 1, n)
    BY <1>3 DEF Crash
  <2>2. Len(log') = n /\ n =< Len(log) /\ n \in Nat /\ \A i \in 1..n : log'[i] = log[i]
    BY <1>t, <2>1
  <2>3. \A i \in 1..n : i \in 1..Len(log)
    BY <1>t, <2>2
  <2>4. /\ \A c \in Call : call[c] \notin {"idle", "checked"} => call'[c] \notin {"idle", "checked"}
        /\ \A c \in Call : call'[c] = "acked" => call[c] = "acked"
        /\ stable' = stable
    BY <1>3 DEF Crash
  <2> QED BY <1>t, <2>2, <2>3, <2>4 DEF LogOnce
<1>4. ASSUME log' = log, call' = call  PROVE LogOnce'
  BY <1>4, <1>k
<1>5. ASSUME NEW c \in Call, Final(c) \/ Pending(c)  PROVE LogOnce'
  <2>1. log' = log /\ call' = call
    BY <1>5 DEF Final, Pending, disk
  <2> QED BY <1>4, <2>1
<1>6. ASSUME NEW i \in EventId, Expire(i)  PROVE LogOnce'
  BY <1>4, <1>6 DEF Expire, disk
<1>7. CASE \/ Sync \/ Detach \/ Settle \/ Checkpoint \/ Panic \/ LatchWorkerErr
           \/ Stop \/ StopWorker \/ StopFlush \/ StopClose
  <2>1. log' = log /\ call' = call
    BY <1>7
    DEF Sync, Detach, Settle, Checkpoint, Panic, LatchWorkerErr, Stop, StopWorker,
                StopFlush, StopClose, disk
  <2> QED BY <1>4, <2>1
<1>8. CASE OpenQueue \/ Attach \/ OpenFails \/ ReplayFails \/ AttachFails \/ UNCHANGED vars
  <2>1. log' = log /\ call' = call
    BY <1>8
    DEF OpenQueue, Attach, OpenFails, ReplayFails, AttachFails, StartDegraded, vars,
        disk
  <2> QED BY <1>4, <2>1
<1> QED BY <1>1, <1>2, <1>3, <1>5, <1>6, <1>7, <1>8 DEF Next

(* The refinement mapping.                                                 *)
Place == [c \in Call |-> IF \E i \in (cp+1)..Len(log) : log[i] = c
                         THEN CHOOSE i \in (cp+1)..Len(log) : log[i] = c ELSE 0]
Acked == {c \in Call : call[c] = "acked" /\ \E i \in 1..Len(log) : log[i] = c}
Stored == {log[i] : i \in 1..cp}

LogInv == ErrorInv /\ LogOnce

(* The place of a call is its frame behind the checkpoint.                 *)
LEMMA PlaceIs ==
  LogInv => /\ Place \in [Call -> Nat] /\ cp \in Nat /\ Len(log) \in Nat /\ cp =< Len(log)
            /\ \A c \in Call : Place[c] # 0 =>
                  Place[c] \in (cp+1)..Len(log) /\ log[Place[c]] = c
            /\ \A i \in (cp+1)..Len(log) : log[i] \in Call /\ Place[log[i]] = i
<1> SUFFICES ASSUME LogInv
             PROVE  /\ Place \in [Call -> Nat] /\ cp \in Nat /\ Len(log) \in Nat /\ cp =< Len(log)
                    /\ \A c \in Call : Place[c] # 0 =>
                          Place[c] \in (cp+1)..Len(log) /\ log[Place[c]] = c
                    /\ \A i \in (cp+1)..Len(log) : log[i] \in Call /\ Place[log[i]] = i
  OBVIOUS
<1>1. /\ DataType /\ Len(log) \in Nat /\ cp \in Nat /\ cp =< Len(log) /\ LogOnce
      /\ \A i \in 1..Len(log) : log[i] \in Call
  BY Parts DEF LogInv, ErrorInv, DataType
<1>2. \A i \in (cp+1)..Len(log) : i \in 1..Len(log) /\ i \in Nat /\ i # 0
  BY <1>1
<1>3. ASSUME NEW c \in Call, \E i \in (cp+1)..Len(log) : log[i] = c
      PROVE  Place[c] \in (cp+1)..Len(log) /\ log[Place[c]] = c
  BY <1>3 DEF Place
<1>4. \A c \in Call : ~(\E i \in (cp+1)..Len(log) : log[i] = c) => Place[c] = 0
  BY DEF Place
<1>5. \A c \in Call : Place[c] \in Nat
  BY <1>2, <1>3, <1>4
<1>6. Place \in [Call -> Nat]
  BY <1>5 DEF Place
<1>7. ASSUME NEW i \in (cp+1)..Len(log)  PROVE log[i] \in Call /\ Place[log[i]] = i
  BY <1>1, <1>2, <1>3 DEF LogOnce
<1> QED BY <1>1, <1>3, <1>4, <1>6, <1>7

(* The same of the next state.                                             *)
LEMMA PlaceNext ==
  LogInv' => /\ Place' \in [Call -> Nat] /\ cp' \in Nat /\ Len(log') \in Nat /\ cp' =< Len(log')
             /\ \A c \in Call : Place'[c] # 0 =>
                   Place'[c] \in (cp'+1)..Len(log') /\ log'[Place'[c]] = c
             /\ \A i \in (cp'+1)..Len(log') : log'[i] \in Call /\ Place'[log'[i]] = i
<1>1. (LogInv => /\ Place \in [Call -> Nat] /\ cp \in Nat /\ Len(log) \in Nat /\ cp =< Len(log)
                 /\ \A c \in Call : Place[c] # 0 =>
                       Place[c] \in (cp+1)..Len(log) /\ log[Place[c]] = c
                 /\ \A i \in (cp+1)..Len(log) : log[i] \in Call /\ Place[log[i]] = i)'
  BY PlaceIs, PTL
<1> QED BY <1>1

(* The variables of the mapped specification.                              *)
LEMMA FramesVars == Frames!vars = <<Place, Acked, Stored>>
  BY Zenon DEF Frames!vars, Place, Acked, Stored

(* A step that changes none of them is a stutter of DurableLog.            *)
LEMMA FramesStutter ==
  ASSUME UNCHANGED <<Place, Acked, Stored>>
  PROVE  [Frames!Next]_(Frames!vars)
  BY Zenon DEF Frames!vars, Place, Acked, Stored

(* A cut is the place of a frame, or 0.                                    *)
LEMMA FramesCut ==
  ASSUME NEW CONSTANT cut, cut = 0 \/ \E d \in Call : cut = Place[d],
         Frames!Store(cut)
  PROVE  Frames!Next
<1>1. cut \in {0} \cup {Place[d] : d \in Call}
  OBVIOUS
<1> QED BY <1>1, Zenon DEF Frames!Next, Place

(* Steps that leave the log and the answers of its frames alone.           *)
LEMMA StutterRefines ==
  ASSUME LogInv, log' = log, cp' = cp,
         \A i \in 1..Len(log) : call'[log[i]] = "acked" <=> call[log[i]] = "acked"
  PROVE  [Frames!Next]_(Frames!vars)
<1>1. Place' = Place /\ Stored' = Stored
  BY DEF Place, Stored
<1>2. Acked' = Acked
  BY DEF Acked
<1> QED BY <1>1, <1>2, FramesStutter

(* A push appends one frame.                                               *)
LEMMA PushRefines ==
  ASSUME LogInv, LogInv', NEW c \in Call, Push(c)
  PROVE  [Frames!Next]_(Frames!vars)
<1> DEFINE n == Len(log) + 1
<1>1. /\ DataType /\ LogOnce /\ Len(log) \in Nat /\ (\A i \in 1..Len(log) : log[i] \in Call)
      /\ log \in Seq(Call) /\ call \in [Call -> CallState] /\ cp \in Nat /\ cp =< Len(log)
  BY Parts DEF LogInv, ErrorInv, DataType
<1>2. /\ call[c] = "checked" /\ cp' = cp /\ log' = Append(log, c)
      /\ \E r \in {"accepted", "waiting"} : Reply(c, r)
  BY DEF Push
<1>3. /\ Len(log') = n /\ log'[n] = c /\ n \in Nat
      /\ \A i \in 1..Len(log) : log'[i] = log[i]
  BY <1>1, <1>2, AppendProperties
<1>4. /\ call'[c] # "acked" /\ \A d \in Call : d # c => call'[d] = call[d]
  BY <1>1, <1>2 DEF Reply
<1>5. \A i \in 1..Len(log) : log[i] # c
  BY <1>1, <1>2 DEF LogOnce
<1>6. /\ \A i \in 1..n : i \in 1..Len(log) \/ i = n
      /\ \A i \in 1..Len(log) : i \in 1..n /\ i < n
      /\ \A i \in (cp+1)..n : i \in (cp+1)..Len(log) \/ i = n
      /\ \A i \in (cp+1)..Len(log) : i \in (cp+1)..n /\ i \in 1..Len(log)
      /\ n \in (cp+1)..n /\ \A i \in 1..cp : i \in 1..Len(log)
  BY <1>1
<1>7. Place[c] = 0 /\ Place'[c] = n
  BY <1>2, <1>3, <1>5, <1>6, PlaceIs, PlaceNext
<1>8. ASSUME NEW d \in Call, d # c  PROVE Place'[d] = Place[d]
  <2>1. CASE Place[d] # 0
    <3>1. Place[d] \in (cp+1)..Len(log) /\ log[Place[d]] = d
      BY <2>1, PlaceIs
    <3>2. Place[d] \in (cp'+1)..Len(log') /\ log'[Place[d]] = d
      BY <1>2, <1>3, <1>6, <3>1
    <3> QED BY <3>2, PlaceNext
  <2>2. CASE Place'[d] # 0
    <3>1. Place'[d] \in (cp+1)..n /\ log'[Place'[d]] = d
      BY <1>2, <1>3, <2>2, PlaceNext
    <3>2. Place'[d] \in (cp+1)..Len(log) /\ log[Place'[d]] = d
      BY <1>3, <1>6, <1>8, <3>1
    <3> QED BY <3>2, PlaceIs
  <2> QED BY <2>1, <2>2
<1>9. /\ \A d \in Call : Place[d] < n /\ Place[d] \in Nat
      /\ Place \in [Call -> Nat] /\ Place' \in [Call -> Nat]
  BY <1>1, <1>3, PlaceIs, PlaceNext, SMTT(20)
<1> HIDE DEF n
<1>10. Place' = [Place EXCEPT ![c] = Place'[c]]
  BY <1>8, <1>9
<1>11. Stored' = Stored
  BY <1>2, <1>3, <1>6 DEF Stored
<1>12. Acked' = Acked
  <2>1. \A d \in Call : d # c =>
          ((\E i \in 1..n : log'[i] = d) <=> (\E i \in 1..Len(log) : log[i] = d))
    BY <1>3, <1>6
  <2> QED BY <1>2, <1>3, <1>4, <2>1 DEF Acked
<1>13. c \notin Stored \cup Acked
  BY <1>2, <1>5, <1>6 DEF Stored, Acked
<1>14. Place[c] = 0 /\ Place'[c] \in Nat /\ \A d \in Call : Place[d] < Place'[c]
  BY <1>3, <1>7, <1>9
<1>15. Frames!Append(c)
  BY <1>10, <1>11, <1>12, <1>13, <1>14, Zenon DEF Frames!Append, Place, Acked, Stored
<1> QED BY <1>15, Zenon DEF Frames!Next

(* A 200 acknowledges one frame.                                           *)
LEMMA AcknowledgeRefines ==
  ASSUME LogInv, LogInv', NEW c \in Call, Acknowledge(c)
  PROVE  [Frames!Next]_(Frames!vars)
<1>1. /\ log' = log /\ cp' = cp /\ Reply(c, "acked") /\ Committed(c)
      /\ call \in [Call -> CallState] /\ Len(log) \in Nat /\ cp \in Nat /\ stable =< Len(log)
      /\ stable \in Nat
  BY Parts DEF Acknowledge, disk, LogInv, ErrorInv, DataType
<1>2. Place' = Place /\ Stored' = Stored
  BY <1>1 DEF Place, Stored
<1>3. PICK i \in 1..Len(log) : log[i] = c
  BY <1>1 DEF Committed
<1>4. Acked' = Acked \cup {c}
  BY <1>1, <1>3 DEF Acked, Reply
<1>5. Place[c] > 0 \/ c \in Stored
  <2>1. CASE i =< cp
    <3>1. i \in 1..cp
      BY <1>1, <2>1
    <3> QED BY <1>3, <3>1 DEF Stored
  <2>2. CASE i > cp
    <3>1. i \in (cp+1)..Len(log) /\ i > 0
      BY <1>1, <2>2
    <3> QED BY <1>3, <3>1, PlaceIs
  <2> QED BY <1>1, <2>1, <2>2
<1>6. PICK I \in SUBSET Call : I = {c}
  OBVIOUS
<1>7. \A d \in I : Place[d] > 0 \/ d \in Stored
  BY <1>5, <1>6
<1>8. Frames!Ack(I)
  BY <1>2, <1>4, <1>6, <1>7, Zenon DEF Frames!Ack, Place, Acked, Stored
<1> QED BY <1>8, Zenon DEF Frames!Next

(* The positions a checkpoint splits.                                      *)
LEMMA Between ==
  ASSUME NEW a \in Nat, NEW b \in Nat, NEW n \in Nat, b > a, b =< n
  PROVE  /\ \A i \in 1..b : i \in 1..a \/ (i \in (a+1)..n /\ i > 0)
         /\ \A i \in 1..a : i \in 1..b
         /\ \A i \in (a+1)..n : i =< b => i \in 1..b
         /\ \A i \in (a+1)..n : i > b => i \in (b+1)..n
         /\ \A i \in (b+1)..n : i \in (a+1)..n /\ i > b
  OBVIOUS

(* A checkpoint stores a prefix.                                           *)
LEMMA StoreRefines ==
  ASSUME LogInv, LogInv', log' = log, call' = call, cp' > cp
  PROVE  [Frames!Next]_(Frames!vars)
<1>1. cp \in Nat /\ cp' \in Nat /\ Len(log) \in Nat /\ cp' =< Len(log)
  BY PlaceIs, PlaceNext
<1>2. cp' \in (cp+1)..Len(log)
  BY <1>1
<1>3. PICK cut \in Nat : cut = cp'
  BY <1>1
<1>4. log[cut] \in Call /\ Place[log[cut]] = cut
  BY <1>2, <1>3, PlaceIs
<1> DEFINE taken == {d \in Call : 0 < Place[d] /\ Place[d] =< cut}
<1>c. cut > cp /\ cut =< Len(log)
  BY <1>1, <1>3
<1>5. /\ \A i \in 1..cut : i \in 1..cp \/ (i \in (cp+1)..Len(log) /\ i > 0)
      /\ \A i \in 1..cp : i \in 1..cut
      /\ \A i \in (cp+1)..Len(log) : i =< cut => i \in 1..cut
      /\ \A i \in (cp+1)..Len(log) : i > cut => i \in (cut+1)..Len(log)
      /\ \A i \in (cut+1)..Len(log) : i \in (cp+1)..Len(log) /\ i > cut
  BY <1>1, <1>c, Between
<1>6. Stored' = Stored \cup taken
  <2>1. ASSUME NEW d \in Stored'  PROVE d \in Stored \cup taken
    <3>1. PICK i \in 1..cut : d = log[i]
      BY <1>3, <2>1 DEF Stored
    <3>2. CASE i \in 1..cp
      BY <3>1, <3>2 DEF Stored
    <3>3. CASE i \in (cp+1)..Len(log) /\ i > 0
      <4>1. d \in Call /\ Place[d] = i /\ i =< cut
        BY <3>1, <3>3, PlaceIs
      <4> QED BY <3>3, <4>1
    <3> QED BY <1>5, <3>1, <3>2, <3>3
  <2>2. ASSUME NEW d \in taken  PROVE d \in Stored'
    <3>1. Place[d] \in (cp+1)..Len(log) /\ log[Place[d]] = d /\ Place[d] =< cut
      BY PlaceIs
    <3>2. Place[d] \in 1..cut
      BY <1>5, <3>1
    <3> QED BY <1>3, <3>1, <3>2 DEF Stored
  <2>3. \A d \in Stored : d \in Stored'
    BY <1>3, <1>5 DEF Stored
  <2> QED BY <2>1, <2>2, <2>3
<1>7. ASSUME NEW d \in Call  PROVE Place'[d] = IF d \in taken THEN 0 ELSE Place[d]
  <2>1. Place[d] \in Nat /\ Place'[d] \in Nat
    BY PlaceIs, PlaceNext
  <2>2. CASE Place'[d] # 0
    <3>1. Place'[d] \in (cut+1)..Len(log) /\ log[Place'[d]] = d
      BY <1>3, <2>2, PlaceNext
    <3>2. Place'[d] \in (cp+1)..Len(log) /\ Place'[d] > cut
      BY <1>5, <3>1
    <3>3. Place[d] = Place'[d]
      BY <3>1, <3>2, PlaceIs
    <3> QED BY <2>1, <3>2, <3>3
  <2>3. CASE Place'[d] = 0 /\ Place[d] # 0
    <3>1. Place[d] \in (cp+1)..Len(log) /\ log[Place[d]] = d
      BY <2>3, PlaceIs
    <3>2. Place[d] > cut => Place[d] \in (cp'+1)..Len(log')
      BY <1>3, <1>5, <3>1
    <3>3. Place[d] > cut => Place'[d] = Place[d]
      BY <3>1, <3>2, PlaceNext
    <3> QED BY <2>1, <2>3, <3>3
  <2>4. CASE Place'[d] = 0 /\ Place[d] = 0
    BY <2>4
  <2> QED BY <2>2, <2>3, <2>4
<1>8. Place' = [d \in Call |-> IF d \in taken THEN 0 ELSE Place[d]]
  BY <1>7, PlaceNext
<1>9. Acked' = Acked
  BY DEF Acked
<1>10. Frames!Store(cut)
  BY <1>6, <1>8, <1>9, Zenon DEF Frames!Store, Place, Acked, Stored
<1> QED BY <1>4, <1>10, FramesCut, Zenon

(* A crash cuts what is behind the stable log, and no acknowledged frame.  *)
LEMMA CrashRefines ==
  ASSUME LogInv, LogInv', Crash
  PROVE  [Frames!Next]_(Frames!vars)
<1>1. /\ Len(log) \in Nat /\ cp \in Nat /\ stable \in Nat /\ cp =< stable /\ stable =< Len(log)
      /\ log \in Seq(Call) /\ LogOnce /\ cp' = cp /\ call \in [Call -> CallState]
  BY Parts DEF LogInv, ErrorInv, DataType, Crash
<1>2. PICK n \in stable..Len(log) : log' = SubSeq(log, 1, n)
  BY DEF Crash
<1>3. n \in Nat /\ Len(log') = n /\ n =< Len(log) /\ stable =< n /\ \A i \in 1..n : log'[i] = log[i]
  BY <1>1, <1>2
<1>4. /\ \A i \in (cp+1)..n : i \in (cp+1)..Len(log) /\ i \in 1..n /\ i =< n
      /\ \A i \in (cp+1)..Len(log) : i =< n => i \in (cp+1)..n
      /\ \A i \in 1..cp : i \in 1..n
      /\ \A i \in 1..n : i \in 1..Len(log)
      /\ \A i \in 1..Len(log) : i =< stable => i \in 1..n
  BY <1>1, <1>3
<1>5. Stored' = Stored
  BY <1>1, <1>3, <1>4 DEF Stored
<1>6. Acked' = Acked
  <2>1. \A c \in Call : call'[c] = "acked" <=> call[c] = "acked"
    BY <1>1 DEF Crash
  <2>2. \A c \in Call : (\E i \in 1..n : log'[i] = c) => \E i \in 1..Len(log) : log[i] = c
    BY <1>3, <1>4
  <2>3. \A c \in Call : call[c] = "acked" /\ (\E i \in 1..Len(log) : log[i] = c)
                        => \E i \in 1..n : log'[i] = c
    BY <1>1, <1>3, <1>4 DEF LogOnce
  <2> QED BY <1>3, <2>1, <2>2, <2>3 DEF Acked
<1>7. ASSUME NEW d \in Call  PROVE Place'[d] = IF Place[d] > n THEN 0 ELSE Place[d]
  <2>1. Place[d] \in Nat /\ Place'[d] \in Nat
    BY PlaceIs, PlaceNext
  <2>2. CASE Place'[d] # 0
    <3>1. Place'[d] \in (cp+1)..n /\ log'[Place'[d]] = d
      BY <1>1, <1>3, <2>2, PlaceNext
    <3>2. Place'[d] \in (cp+1)..Len(log) /\ log[Place'[d]] = d /\ Place'[d] =< n
      BY <1>3, <1>4, <3>1
    <3>3. Place[d] = Place'[d]
      BY <3>2, PlaceIs
    <3> QED BY <1>3, <2>1, <3>2, <3>3
  <2>3. CASE Place'[d] = 0 /\ Place[d] # 0
    <3>1. Place[d] \in (cp+1)..Len(log) /\ log[Place[d]] = d
      BY <2>3, PlaceIs
    <3>2. Place[d] =< n => Place[d] \in (cp'+1)..Len(log') /\ log'[Place[d]] = d
      BY <1>1, <1>3, <1>4, <3>1
    <3>3. Place[d] =< n => Place'[d] = Place[d]
      BY <3>2, PlaceNext
    <3> QED BY <1>3, <2>1, <2>3, <3>3
  <2>4. CASE Place'[d] = 0 /\ Place[d] = 0
    BY <2>4
  <2> QED BY <2>2, <2>3, <2>4
<1>8. ASSUME NEW d \in Acked  PROVE d \in Call /\ Place[d] =< n
  <2>1. d \in Call /\ call[d] = "acked"
    BY <1>8 DEF Acked
  <2>2. CASE Place[d] = 0
    BY <1>3, <2>1, <2>2
  <2>3. CASE Place[d] # 0
    <3>1. Place[d] \in (cp+1)..Len(log) /\ log[Place[d]] = d
      BY <2>1, <2>3, PlaceIs
    <3>2. Place[d] \in 1..Len(log)
      BY <1>1, <3>1
    <3>3. Place[d] =< stable
      BY <1>1, <2>1, <3>1, <3>2 DEF LogOnce
    <3> QED BY <1>1, <1>3, <2>1, <3>2, <3>3
  <2> QED BY <2>2, <2>3
<1>9. Place' \in [Call -> Nat]
  BY PlaceNext
<1>10. \A d \in Call : Place[d] \in Nat
  BY PlaceIs
<1>11. \A d \in Call : Place'[d] > 0 => Place[d] > 0
  BY <1>3, <1>7, <1>10
<1>12. \A d \in Acked : Place[d] > 0 => Place'[d] > 0
  BY <1>3, <1>7, <1>8, <1>10
<1>13. \A d, e \in Call : Place'[d] > 0 /\ Place'[d] < Place'[e] => Place[d] < Place[e]
  BY <1>3, <1>7, <1>10
<1>14. Frames!Crash
  BY <1>5, <1>6, <1>9, <1>11, <1>12, <1>13, Zenon DEF Frames!Crash, Place, Acked, Stored
<1> QED BY <1>14, Zenon DEF Frames!Next

LEMMA StepRefines ==
  ASSUME LogInv, LogInv', [Next]_vars
  PROVE  [Frames!Next]_(Frames!vars)
<1>1. ASSUME log' = log, cp' = cp, call' = call  PROVE [Frames!Next]_(Frames!vars)
  BY <1>1, StutterRefines
<1>2. cp \in Nat /\ Len(log) \in Nat /\ LogOnce /\ (\A i \in 1..Len(log) : log[i] \in Call)
      /\ call \in [Call -> CallState]
  BY PlaceIs, Parts DEF LogInv, ErrorInv, DataType
<1>a. ASSUME NEW c \in Call, NEW r, Reply(c, r), log' = log, cp' = cp,
             call[c] # "acked", call[c] \in {"idle", "checked"} \/ r # "acked"
      PROVE  [Frames!Next]_(Frames!vars)
  <2>1. \A i \in 1..Len(log) : call'[log[i]] = "acked" <=> call[log[i]] = "acked"
    BY <1>2, <1>a DEF LogOnce, Reply
  <2> QED BY <1>a, <2>1, StutterRefines
<1>3. ASSUME NEW c \in Call,
             Lookup(c) \/ PushFull(c) \/ PushUnavailable(c) \/ PushMemoryOnly(c) \/ CommitFails(c)
      PROVE  [Frames!Next]_(Frames!vars)
  <2>1. log' = log /\ cp' = cp
    BY <1>3 DEF Lookup, PushFull, PushUnavailable, PushMemoryOnly, CommitFails, disk
  <2>2. PICK r : Reply(c, r)
    BY <1>3 DEF Lookup, PushFull, PushUnavailable, PushMemoryOnly, CommitFails
  <2>3. CASE call[c] \in {"idle", "checked"}
    BY <1>a, <2>1, <2>2, <2>3
  <2>4. CASE CommitFails(c)
    BY <1>a, <2>1, <2>4 DEF CommitFails
  <2> QED BY <1>3, <2>3, <2>4 DEF Lookup, PushFull, PushUnavailable, PushMemoryOnly
<1>4. ASSUME NEW c \in Call, Push(c) \/ Acknowledge(c)  PROVE [Frames!Next]_(Frames!vars)
  BY <1>4, PushRefines, AcknowledgeRefines
<1>5. ASSUME NEW c \in Call, Final(c) \/ Pending(c)  PROVE [Frames!Next]_(Frames!vars)
  <2>1. log' = log /\ cp' = cp /\ call' = call
    BY <1>5 DEF Final, Pending, disk
  <2> QED BY <1>1, <2>1
<1>6. ASSUME NEW i \in EventId, Expire(i)  PROVE [Frames!Next]_(Frames!vars)
  BY <1>1, <1>6 DEF Expire, disk
<1>7. CASE \/ Sync \/ Detach \/ Settle \/ Panic \/ LatchWorkerErr
           \/ Stop \/ StopWorker \/ StopFlush \/ StopClose
  <2>1. log' = log /\ cp' = cp /\ call' = call
    BY <1>7 DEF Sync, Detach, Settle, Panic, LatchWorkerErr, Stop, StopWorker,
                StopFlush, StopClose, disk
  <2> QED BY <1>1, <2>1
<1>8. CASE OpenQueue \/ OpenFails \/ ReplayFails \/ UNCHANGED vars
  <2>1. log' = log /\ cp' = cp /\ call' = call
    BY <1>8 DEF OpenQueue, OpenFails, ReplayFails, StartDegraded, vars, disk
  <2> QED BY <1>1, <2>1
<1>9. CASE Checkpoint \/ Attach \/ AttachFails
  <2>1. log' = log /\ call' = call /\ (cp' = cp \/ cp' > cp)
    BY <1>9 DEF Checkpoint, Attach, Earned, AttachFails, StartDegraded
  <2> QED BY <1>1, <2>1, StoreRefines
<1>10. CASE Crash
  BY <1>10, CrashRefines
<1> QED BY <1>3, <1>4, <1>5, <1>6, <1>7, <1>8, <1>9, <1>10 DEF Next

(* The empty log.                                                          *)
LEMMA InitRefines == Init => Frames!Init
<1> SUFFICES ASSUME Init  PROVE Frames!Init
  OBVIOUS
<1>1. log = <<>> /\ cp = 0 /\ Len(log) = 0 /\ \A c \in Call : call[c] = "idle"
  BY EmptySeq DEF Init
<1>2. Place = [c \in Call |-> 0]
  BY <1>1 DEF Place
<1>3. Acked = {} /\ Stored = {}
  BY <1>1 DEF Acked, Stored
<1> QED BY <1>2, <1>3, Zenon DEF Frames!Init, Place, Acked, Stored

(* The error path uses its write-ahead log as the durable FIFO that        *)
(* DurableLog specifies: frames are appended at the end, acknowledged in   *)
(* the log, taken by checkpoints in order, and a crash loses none that was *)
(* acknowledged - as long as no fsync of the log fails.                    *)
THEOREM ErrorsUseDurableLog == Spec => UsesDurableLog
<1>1. Init => LogOnce
  <2>1. ASSUME Init  PROVE log = <<>> /\ Len(log) = 0
    BY <2>1, EmptySeq DEF Init
  <2> QED BY <2>1 DEF LogOnce
<1>2. LogInv /\ LogInv' /\ [Next]_vars => [Frames!Next]_(Frames!vars)
  BY StepRefines
<1>3. LogInv = (ErrorInv /\ LogOnce)
  BY DEF LogInv
<1>4. LogInv /\ [Next]_vars /\ ErrorInv' => LogInv'
  BY LogOnceStep DEF LogInv
<1>5. Init => LogInv
  BY <1>1, InitInv, Zenon DEF LogInv
<1>6. Spec => []LogInv
  BY <1>4, <1>5, ErrorInvariant, PTL DEF Spec
<1> QED BY <1>2, <1>6, InitRefines, PTL DEF Spec, UsesDurableLog, Frames!Spec
-----------------------------------------------------------------------------
(* What a sequence of entries costs.  The fold walks the sets of positions, *)
(* taking the last one first.                                              *)

IsCosts(s, P, costs) ==
  costs = [p \in P |-> IF p = {} THEN 0 ELSE costs[p \ {Max(p)}] + Size[s[Max(p)].call]]

\* The numbers up to the first that has something have not.
LEMMA LeastNumber ==
  ASSUME NEW B \in SUBSET Nat, B # {}
  PROVE  \E m \in B : m = 0 \/ (m - 1 \in Nat /\ m - 1 \notin B)
<1>1. PICK m \in B : \A other \in B : ~(<<other, m>> \in OpToRel(<, Nat))
  BY WFMin, NatLessThanWellFounded
<1>2. m = 0 \/ (m - 1 \in Nat /\ m - 1 < m)
  OBVIOUS
<1> QED BY <1>1, <1>2 DEF OpToRel

LEMMA LastIs ==
  ASSUME NEW n \in Nat, NEW p \in SUBSET (1..n), p # {}
  PROVE  Max(p) \in p /\ \A j \in p : Max(p) >= j
<1> DEFINE B == {m \in Nat : \A j \in p : j =< m}
<1>1. B \in SUBSET Nat /\ n \in B
  OBVIOUS
<1>2. PICK m \in B : m = 0 \/ (m - 1 \in Nat /\ m - 1 \notin B)
  BY <1>1, LeastNumber
<1>3. m # 0
  <2>1. PICK j \in p : TRUE
    OBVIOUS
  <2>2. j >= 1 /\ j =< m
    BY <1>2
  <2> QED BY <2>2
<1>4. PICK j \in p : j > m - 1
  BY <1>2, <1>3
<1>5. j = m
  BY <1>2, <1>4
<1> QED BY <1>2, <1>4, <1>5 DEF Max

LEMMA CostsExist ==
  ASSUME NEW n \in Nat, NEW s
  PROVE  \E costs : IsCosts(s, SUBSET (1..n), costs)
<1> DEFINE Has(m) == \E costs : IsCosts(s, SUBSET (1..m), costs)
           B == {m \in Nat : ~Has(m)}
<1> SUFFICES ASSUME B # {} PROVE FALSE
  OBVIOUS
<1>1. PICK m \in B : m = 0 \/ (m - 1 \in Nat /\ m - 1 \notin B)
  <2> HIDE DEF Has
  <2> QED BY LeastNumber
<1>2. Has(0)
  <2> DEFINE costs == [p \in SUBSET (1..0) |-> 0]
  <2>1. \A p \in SUBSET (1..0) : p = {}
    OBVIOUS
  <2>2. costs = [p \in SUBSET (1..0) |-> IF p = {} THEN 0 ELSE costs[p \ {Max(p)}] + Size[s[Max(p)].call]]
    BY <2>1
  <2> HIDE DEF costs
  <2> QED BY <2>2 DEF IsCosts
<1>3. m - 1 \in Nat /\ m \in Nat /\ Has(m - 1)
  <2> HIDE DEF Has
  <2> QED BY <1>1, <1>2
<1>4. PICK costs : IsCosts(s, SUBSET (1..(m - 1)), costs)
  BY <1>3
<1> DEFINE more == [p \in SUBSET (1..m) |-> IF m \in p THEN costs[p \ {m}] + Size[s[m].call] ELSE costs[p]]
<1>5. ASSUME NEW p \in SUBSET (1..m)
      PROVE  more[p] = IF p = {} THEN 0 ELSE more[p \ {Max(p)}] + Size[s[Max(p)].call]
  <2>1. \A q \in SUBSET (1..m) : m \notin q => q \in SUBSET (1..(m - 1))
    BY <1>3
  <2>2. CASE m \in p
    <3>1. Max(p) = m
      <4>1. Max(p) \in 1..m /\ Max(p) >= m
        BY <1>3, <2>2, LastIs
      <4> QED BY <1>3, <4>1
    <3>2. p \ {m} \in SUBSET (1..m) /\ m \notin p \ {m}
      OBVIOUS
    <3>3. more[p \ {m}] = costs[p \ {m}]
      BY <3>2
    <3> QED BY <2>2, <3>1, <3>3
  <2>3. CASE p = {}
    <3>1. p \in SUBSET (1..(m - 1)) /\ costs[p] = 0
      BY <1>4, <2>1, <2>3 DEF IsCosts
    <3> QED BY <2>3, <3>1
  <2>4. CASE m \notin p /\ p # {}
    <3> DEFINE l == Max(p)
    <3>1. l \in p
      BY <1>3, <2>4, LastIs
    <3>2. costs[p] = costs[p \ {l}] + Size[s[l].call]
      BY <1>4, <2>1, <2>4 DEF IsCosts
    <3>3. p \ {l} \in SUBSET (1..m) /\ m \notin p \ {l}
      BY <2>4
    <3> HIDE DEF l
    <3>4. more[p \ {l}] = costs[p \ {l}] /\ more[p] = costs[p]
      BY <2>4, <3>3
    <3> QED BY <2>4, <3>2, <3>4 DEF l
  <2> QED BY <2>2, <2>3, <2>4
<1>6. IsCosts(s, SUBSET (1..m), more)
  <2>1. more = [p \in SUBSET (1..m) |-> more[p]]
    OBVIOUS
  <2> HIDE DEF more
  <2> QED BY <1>5, <2>1 DEF IsCosts
<1> HIDE DEF more
<1>7. Has(m)
  BY <1>6
<1> HIDE DEF Has
<1> QED BY <1>1, <1>7

LEMMA SizeIs ==
  ASSUME NEW e \in Entry
  PROVE  e.call \in Call /\ Size[e.call] \in Nat
<1>1. e.call \in Call
  BY DEF Entry
<1>2. Size \in [Call -> Nat \ {0}]
  BY ErrorBufferAssumption
<1> QED BY <1>1, <1>2

(* What the first of a sequence cost, and then one more.                   *)
CostsUpTo(s, c) ==
  /\ c \in [0..Len(s) -> Nat] /\ c[0] = 0 /\ Cost(s) = c[Len(s)]
  /\ \A i \in 1..Len(s) : c[i] = c[i - 1] + Size[s[i].call]

LEMMA CostGoes ==
  ASSUME NEW s \in Seq(Entry)
  PROVE  \E c : CostsUpTo(s, c)
<1> DEFINE n == Len(s)
           iter[p \in SUBSET DOMAIN s] ==
             IF p = {} THEN 0 ELSE LET x == Max(p) IN iter[p \ {x}] + Size[s[x].call]
<1>1. n \in Nat /\ DOMAIN s = 1..n /\ \A i \in 1..n : Size[s[i].call] \in Nat
  <2> HIDE DEF iter
  <2>1. n \in Nat /\ DOMAIN s = 1..n /\ \A i \in 1..n : s[i] \in Entry
    BY LenProperties
  <2>2. \A e \in Entry : Size[e.call] \in Nat
    BY SizeIs
  <2> QED BY <2>1, <2>2
<1>3. Cost(s) = iter[DOMAIN s]
  BY DEF Cost, FoldLeft, MapThenFoldSet
<1>4. iter = [p \in SUBSET DOMAIN s |-> IF p = {} THEN 0 ELSE LET x == Max(p) IN iter[p \ {x}] + Size[s[x].call]]
  <2>1. \E costs : costs = [p \in SUBSET DOMAIN s |->
                   IF p = {} THEN 0 ELSE LET x == Max(p) IN costs[p \ {x}] + Size[s[x].call]]
    <3> HIDE DEF iter, n
    <3>1. PICK costs : IsCosts(s, SUBSET (1..n), costs)
      BY <1>1, CostsExist
    <3>2. IsCosts(s, SUBSET DOMAIN s, costs)
      BY <1>1, <3>1
    <3> QED BY <3>2, Zenon DEF IsCosts
  <2> QED BY <2>1
<1> HIDE DEF iter, n
<1>5. IsCosts(s, SUBSET (1..n), iter)
  BY <1>1, <1>4, Zenon DEF IsCosts
<1> DEFINE c == [k \in 0..n |-> iter[1..k]]
<1>6. c[0] = 0 /\ Cost(s) = c[n]
  <2>1. 1..0 = {} /\ {} \in SUBSET (1..n)
    OBVIOUS
  <2>2. iter[{}] = 0
    BY <1>5, <2>1 DEF IsCosts
  <2> QED BY <1>1, <1>3, <2>1, <2>2
<1>7. ASSUME NEW i \in 1..n PROVE c[i] = c[i - 1] + Size[s[i].call]
  <2>1. /\ i \in 0..n /\ i - 1 \in 0..n /\ 1..i \in SUBSET (1..n) /\ i \in 1..i
        /\ (1..i) \ {i} = 1..(i - 1) /\ i \in Nat
    BY <1>1
  <2>2. Max(1..i) = i
    <3>1. 1..i # {} /\ 1..i \in SUBSET (1..i)
      BY <2>1
    <3>2. Max(1..i) \in 1..i /\ Max(1..i) >= i
      BY <2>1, <3>1, LastIs
    <3> QED BY <2>1, <3>2
  <2>3. iter[1..i] = iter[(1..i) \ {i}] + Size[s[i].call]
    BY <1>5, <2>1, <2>2 DEF IsCosts
  <2> QED BY <2>1, <2>3
<1> HIDE DEF c
<1>8. ASSUME NEW k \in 0..n PROVE c[k] \in Nat
  <2> DEFINE B == {m \in 0..n : c[m] \notin Nat}
  <2> SUFFICES ASSUME B # {} PROVE FALSE
    OBVIOUS
  <2>1. PICK m \in B : m = 0 \/ (m - 1 \in Nat /\ m - 1 \notin B)
    <3>1. B \in SUBSET Nat
      BY <1>1
    <3> QED BY <3>1, LeastNumber
  <2>2. m \in 1..n /\ m - 1 \in 0..n /\ c[m - 1] \in Nat
    BY <1>1, <1>6, <2>1
  <2>3. c[m] \in Nat
    <3>1. c[m] = c[m - 1] + Size[s[m].call] /\ Size[s[m].call] \in Nat
      BY <1>1, <1>7, <2>2
    <3> HIDE DEF B
    <3> QED BY <2>2, <3>1
  <2> QED BY <2>1, <2>3
<1>9. c \in [0..n -> Nat]
  <2>1. c = [k \in 0..n |-> c[k]]
    BY DEF c
  <2> QED BY <1>8, <2>1
<1> QED BY <1>6, <1>7, <1>9 DEF CostsUpTo, n

(* The cost of one sequence behind another is the sum.                     *)
LEMMA CostConcat ==
  ASSUME NEW s \in Seq(Entry), NEW t \in Seq(Entry)
  PROVE  Cost(s \o t) = Cost(s) + Cost(t) /\ Cost(s) \in Nat /\ Cost(t) \in Nat
<1> DEFINE u == s \o t
           m == Len(s)
           n == Len(t)
<1>1. /\ u \in Seq(Entry) /\ m \in Nat /\ n \in Nat /\ Len(u) = m + n
      /\ \A i \in 1..(m + n) : u[i] = IF i =< m THEN s[i] ELSE t[i - m]
  BY ConcatProperties, LenProperties
<1> HIDE DEF u, m, n
<1>2. PICK a : CostsUpTo(s, a)
  BY CostGoes
<1>3. PICK b : CostsUpTo(t, b)
  BY CostGoes
<1>4. PICK c : CostsUpTo(u, c)
  BY <1>1, CostGoes
<1>5. /\ a \in [0..m -> Nat] /\ a[0] = 0 /\ Cost(s) = a[m]
      /\ \A i \in 1..m : a[i] = a[i - 1] + Size[s[i].call]
      /\ b \in [0..n -> Nat] /\ b[0] = 0 /\ Cost(t) = b[n]
      /\ \A i \in 1..n : b[i] = b[i - 1] + Size[t[i].call]
  BY <1>2, <1>3 DEF CostsUpTo, m, n
<1>6. /\ c \in [0..(m + n) -> Nat] /\ c[0] = 0 /\ Cost(u) = c[m + n]
      /\ \A i \in 1..(m + n) : c[i] = c[i - 1] + Size[u[i].call]
  BY <1>1, <1>4 DEF CostsUpTo
<1>7. ASSUME NEW k \in 0..m PROVE c[k] = a[k]
  <2> DEFINE B == {i \in 0..m : c[i] # a[i]}
  <2> SUFFICES ASSUME B # {} PROVE FALSE
    OBVIOUS
  <2>1. PICK i \in B : i = 0 \/ (i - 1 \in Nat /\ i - 1 \notin B)
    <3>1. B \in SUBSET Nat
      BY <1>1
    <3> QED BY <3>1, LeastNumber
  <2>2. i \in 1..m /\ i - 1 \in 0..m /\ i \in 1..(m + n) /\ c[i - 1] = a[i - 1]
    BY <1>1, <1>5, <1>6, <2>1
  <2>3. u[i] = s[i]
    BY <1>1, <2>2
  <2>4. c[i] = a[i]
    BY <1>5, <1>6, <2>2, <2>3
  <2> QED BY <2>1, <2>4
<1>8. ASSUME NEW k \in 0..n PROVE c[m + k] = a[m] + b[k]
  <2> DEFINE B == {i \in 0..n : c[m + i] # a[m] + b[i]}
  <2> SUFFICES ASSUME B # {} PROVE FALSE
    OBVIOUS
  <2>0. a[m] \in Nat /\ c[m] = a[m] /\ m + 0 = m
    BY <1>1, <1>5, <1>7
  <2>1. PICK i \in B : i = 0 \/ (i - 1 \in Nat /\ i - 1 \notin B)
    <3>1. B \in SUBSET Nat
      BY <1>1
    <3> QED BY <3>1, LeastNumber
  <2>2. i # 0
    BY <1>5, <2>0, <2>1
  <2> DEFINE l == m + i
  <2>3. i \in 1..n /\ i - 1 \in 0..n /\ l \in 1..(m + n) /\ l - 1 = m + (i - 1) /\ ~(l =< m) /\ l - m = i
    <3>1. i \in 0..n
      BY <2>1
    <3>2. m \in Nat /\ n \in Nat
      BY <1>1
    <3>3. \A x, y \in Nat : \A z \in 0..y : z # 0 =>
            /\ z \in 1..y /\ z - 1 \in 0..y /\ x + z \in 1..(x + y)
            /\ x + z - 1 = x + (z - 1) /\ ~(x + z =< x) /\ x + z - x = z
      OBVIOUS
    <3> HIDE DEF B
    <3> QED BY ONLY <2>2, <3>1, <3>2, <3>3 DEF l
  <2> HIDE DEF l
  <2>4. c[m + (i - 1)] = a[m] + b[i - 1]
    BY <2>1, <2>3
  <2>5. u[l] = t[i]
    BY <1>1, <2>3
  <2>6. c[l] = a[m] + b[i - 1] + Size[t[i].call] /\ b[i] = b[i - 1] + Size[t[i].call]
    BY <1>5, <1>6, <2>3, <2>4, <2>5
  <2>7. Size[t[i].call] \in Nat /\ b[i - 1] \in Nat
    <3>1. t[i] \in Entry
      BY <2>3, ElementOfSeq DEF n
    <3> QED BY <1>5, <2>3, <3>1, ErrorBufferAssumption DEF Entry
  <2>8. c[l] = a[m] + b[i]
    BY <2>0, <2>6, <2>7
  <2> QED BY <2>1, <2>8 DEF l
<1>9. n \in 0..n /\ m \in 0..m
  BY <1>1
<1>10. Cost(u) = Cost(s) + Cost(t)
  BY <1>5, <1>6, <1>8, <1>9
<1>11. Cost(s) \in Nat /\ Cost(t) \in Nat
  BY <1>5, <1>9
<1> QED BY <1>10, <1>11 DEF u

LEMMA CostOfNone == Cost(<<>>) = 0
<1>1. <<>> \in Seq(Entry) /\ Len(<<>>) = 0
  BY EmptySeq
<1>2. PICK c : CostsUpTo(<<>>, c)
  BY <1>1, CostGoes
<1> QED BY <1>1, <1>2 DEF CostsUpTo

LEMMA CostOfOne ==
  ASSUME NEW e \in Entry
  PROVE  <<e>> \in Seq(Entry) /\ Cost(<<e>>) = Size[e.call] /\ Size[e.call] \in Nat
<1>1. PICK s \in Seq(Entry) : s = <<e>> /\ Len(s) = 1 /\ s[1] = e
  <2>1. <<e>> \in Seq(Entry) /\ Len(<<e>>) = 1 /\ <<e>>[1] = e
    OBVIOUS
  <2> QED BY <2>1, Zenon
<1>2. PICK c : CostsUpTo(s, c)
  BY CostGoes
<1>3. c[0] = 0 /\ Cost(s) = c[1] /\ c[1] = c[0] + Size[e.call]
  <2>1. 1 \in 1..1 /\ 1 - 1 = 0
    OBVIOUS
  <2> QED BY <1>1, <1>2, <2>1 DEF CostsUpTo
<1>4. Size[e.call] \in Nat
  BY ErrorBufferAssumption DEF Entry
<1> QED BY <1>1, <1>3, <1>4

(* Taken off the front, or put at the end, an entry costs what it costs.   *)
LEMMA CostMoves ==
  ASSUME NEW s \in Seq(Entry)
  PROVE  /\ Cost(s) \in Nat
         /\ s # <<>> => Cost(s) = Size[Head(s).call] + Cost(Tail(s))
         /\ \A e \in Entry : Cost(Append(s, e)) = Cost(s) + Size[e.call]
<1>1. Cost(s) \in Nat
  <2>1. <<>> \in Seq(Entry)
    BY EmptySeq
  <2> QED BY <2>1, CostConcat
<1>2. ASSUME s # <<>> PROVE Cost(s) = Size[Head(s).call] + Cost(Tail(s))
  <2>1. Head(s) \in Entry /\ Tail(s) \in Seq(Entry) /\ s = <<Head(s)>> \o Tail(s)
    BY <1>2, HeadTailProperties
  <2>2. <<Head(s)>> \in Seq(Entry) /\ Cost(<<Head(s)>>) = Size[Head(s).call]
    BY <2>1, CostOfOne
  <2>3. PICK h \in Seq(Entry), t \in Seq(Entry) : h = <<Head(s)>> /\ t = Tail(s)
    BY <2>1, <2>2
  <2>4. Cost(h \o t) = Cost(h) + Cost(t)
    BY CostConcat
  <2> QED BY <2>1, <2>2, <2>3, <2>4, Zenon
<1>3. ASSUME NEW e \in Entry PROVE Cost(Append(s, e)) = Cost(s) + Size[e.call]
  <2>1. Append(s, e) = s \o <<e>>
    OBVIOUS
  <2>2. PICK t \in Seq(Entry) : t = <<e>> /\ Cost(t) = Size[e.call]
    BY CostOfOne
  <2>3. Cost(s \o t) = Cost(s) + Cost(t)
    BY CostConcat
  <2> QED BY <2>1, <2>2, <2>3, Zenon
<1> QED BY <1>1, <1>2, <1>3

(* What is reserved is what is queued, in work or pending; and a replay,   *)
(* which reserves at its end only, never holds more than the budget.       *)
ReservedKept ==
  /\ used \in Nat /\ used =< MaxBytes
  /\ proc = "up" /\ flusher # "panicking" /\ ~workerErr =>
       used = Cost(events) + Cost(flight.todo) + Cost(flight.pending)
  /\ proc \in {"down", "recovering"} => used = 0
  /\ proc = "recovering" => Cost(flight.pending) =< MaxBytes

LEMMA ReservedStep ==
  ASSUME ErrorInv, ReservedKept, [Next]_vars
  PROVE  ReservedKept'
<1>t. DataType /\ ControlShape
  BY DEF ErrorInv
<1>s. /\ events \in Seq(Entry) /\ flight.todo \in Seq(Entry) /\ flight.pending \in Seq(Entry)
      /\ <<>> \in Seq(Entry)
  BY <1>t, EmptySeq DEF DataType, FlightType
<1>n. /\ Cost(events) \in Nat /\ Cost(flight.todo) \in Nat /\ Cost(flight.pending) \in Nat
      /\ Cost(<<>>) = 0 /\ MaxBytes \in Nat /\ used \in Nat /\ used =< MaxBytes
  BY <1>s, CostMoves, CostOfNone, ErrorBufferAssumption DEF ReservedKept
<1>0. NoFlight.todo = <<>> /\ NoFlight.pending = <<>>
  BY DEF NoFlight
<1>k. ASSUME UNCHANGED <<events, used, flight>>, proc' = proc \/ proc' = "stopped",
             workerErr' = workerErr, flusher' = flusher
      PROVE  ReservedKept'
  BY <1>k DEF ReservedKept
<1>1. ASSUME \/ \E i \in EventId : Expire(i)
             \/ \E c \in Call : \/ Lookup(c) \/ PushFull(c) \/ PushUnavailable(c) \/ Acknowledge(c)
                                \/ CommitFails(c)
             \/ Sync \/ Stop \/ StopWorker \/ StopFlush \/ StopClose \/ UNCHANGED vars
      PROVE  ReservedKept'
  BY <1>k, <1>1 DEF Expire, Lookup, PushFull, PushUnavailable, Acknowledge, CommitFails, Sync, Stop,
                    StopWorker, StopFlush, StopClose, vars, memory, worker
<1>2. ASSUME NEW c \in Call, Push(c) \/ PushMemoryOnly(c) PROVE ReservedKept'
  <2>1. PICK offset \in Nat : Buffered(c, offset)
    <3>1. Len(log) + 1 \in Nat /\ 0 \in Nat
      BY <1>t, LenProperties DEF DataType
    <3> QED BY <1>2, <3>1 DEF Push, PushMemoryOnly
  <2> DEFINE e == [call |-> c, offset |-> offset]
  <2>2. e \in Entry /\ e.call = c
    BY DEF Entry
  <2>3. events' = Append(events, e) /\ used' = used + Size[c]
    BY <2>1 DEF Buffered
  <2> HIDE DEF e
  <2>4. proc = "up" /\ Size[c] =< MaxBytes - used /\ UNCHANGED <<proc, flight, flusher, workerErr>>
    BY <1>2 DEF Push, PushMemoryOnly, Fits, worker
  <2>5. Cost(events') = Cost(events) + Size[c] /\ Size[c] \in Nat
    BY <1>s, <2>2, <2>3, CostMoves, SizeIs
  <2>6. used' \in Nat /\ used' =< MaxBytes
    BY <1>n, <2>3, <2>4, <2>5
  <2>7. flusher # "panicking" /\ ~workerErr =>
          used' = Cost(events') + Cost(flight.todo) + Cost(flight.pending)
    BY <1>n, <2>3, <2>4, <2>5 DEF ReservedKept
  <2> QED BY <2>4, <2>6, <2>7 DEF ReservedKept
<1>3. ASSUME Detach PROVE ReservedKept'
  <2>1. /\ proc = "up" /\ flusher = "idle" /\ events' = <<>> /\ UNCHANGED <<proc, used, workerErr>>
        /\ flight'.todo = events /\ flight'.pending = <<>> /\ flusher' = "applying"
    BY <1>3 DEF Detach, NoFlight
  <2>2. flight = NoFlight
    BY <1>t, <2>1 DEF ControlShape
  <2> QED BY <1>0, <1>n, <2>1, <2>2 DEF ReservedKept
<1>4. ASSUME NEW c \in Call, Final(c) PROVE ReservedKept'
  <2>1. /\ flight.todo # <<>> /\ Head(flight.todo).call = c /\ Retired(c)
        /\ flight'.todo = Tail(flight.todo) /\ flight'.pending = flight.pending
        /\ UNCHANGED <<proc, events, flusher, workerErr>>
        /\ proc = "recovering" \/ (proc = "up" /\ flusher = "applying")
    BY <1>4, <1>t DEF Final, Current, Applying, DataType, FlightType
  <2>2. /\ Cost(flight.todo) = Size[c] + Cost(flight'.todo)
        /\ Size[c] \in Nat /\ Cost(flight'.todo) \in Nat
    <3>1. Head(flight.todo) \in Entry /\ Tail(flight.todo) \in Seq(Entry)
      BY <1>s, <2>1, HeadTailProperties
    <3> QED BY <1>s, <2>1, <3>1, CostMoves, SizeIs
  <2>3. CASE proc = "recovering"
    BY <2>1, <2>3 DEF Retired, ReservedKept
  <2>4. CASE proc = "up" /\ flusher = "applying"
    <3>1. ~workerErr
      BY <1>t, <2>4 DEF ControlShape
    <3>2. used = Cost(events) + Cost(flight.todo) + Cost(flight.pending) /\ used' = used - Size[c]
      BY <2>1, <2>4, <3>1 DEF Retired, ReservedKept
    <3>3. /\ used' = Cost(events) + Cost(flight'.todo) + Cost(flight.pending)
          /\ used' \in Nat /\ used' =< MaxBytes
      <4> DEFINE kept == Cost(events)
                 left == Cost(flight'.todo)
                 held == Cost(flight.pending)
                 size == Size[c]
      <4>1. used = Cost(events) + (Size[c] + Cost(flight'.todo)) + Cost(flight.pending)
        BY ONLY <2>2, <3>2
      <4>2. /\ kept \in Nat /\ left \in Nat /\ held \in Nat /\ size \in Nat
            /\ used \in Nat /\ MaxBytes \in Nat /\ used =< MaxBytes
            /\ used = kept + (size + left) + held /\ used' = used - size
        BY ONLY <1>n, <2>2, <3>2, <4>1
      <4> HIDE DEF kept, left, held, size
      <4>3. used' = kept + left + held /\ used' \in Nat /\ used' =< MaxBytes
        BY ONLY <4>2
      <4> QED BY ONLY <4>3 DEF kept, left, held
    <3>4. events' = events /\ flight'.pending = flight.pending /\ proc' = "up"
      BY <2>1, <2>4
    <3>5. used' = Cost(events') + Cost(flight'.todo) + Cost(flight'.pending)
      BY <3>3, <3>4
    <3> QED BY <3>3, <3>4, <3>5 DEF ReservedKept
  <2> QED BY <2>1, <2>3, <2>4
<1>5. ASSUME NEW c \in Call, Pending(c) PROVE ReservedKept'
  <2>1. /\ flight.todo # <<>> /\ Head(flight.todo).call = c /\ Holds(c)
        /\ flight'.todo = Tail(flight.todo) /\ flight'.pending = Append(flight.pending, Head(flight.todo))
        /\ UNCHANGED <<proc, used, events, flusher, workerErr>>
    BY <1>5, <1>t DEF Pending, Current, memory, DataType, FlightType
  <2>2. /\ Cost(flight.todo) = Size[c] + Cost(flight'.todo)
        /\ Cost(flight'.pending) = Cost(flight.pending) + Size[c]
        /\ Size[c] \in Nat /\ Cost(flight'.todo) \in Nat
    <3>1. Head(flight.todo) \in Entry /\ Tail(flight.todo) \in Seq(Entry)
      BY <1>s, <2>1, HeadTailProperties
    <3> QED BY <1>s, <2>1, <3>1, CostMoves, SizeIs
  <2>3. proc = "recovering" => Cost(flight'.pending) =< MaxBytes
    BY <2>1, <2>2 DEF Holds
  <2>4. Cost(flight'.todo) + Cost(flight'.pending) = Cost(flight.todo) + Cost(flight.pending)
    BY <1>n, <2>2
  <2>5. /\ Cost(flight'.pending) \in Nat
        /\ Cost(events) + Cost(flight'.todo) + Cost(flight'.pending)
             = Cost(events) + Cost(flight.todo) + Cost(flight.pending)
    BY <1>n, <2>2, <2>4
  <2> QED BY <2>1, <2>3, <2>5 DEF ReservedKept
<1>6. ASSUME Settle PROVE ReservedKept'
  <2>1. /\ proc = "up" /\ flusher = "applying" /\ flight.todo = <<>> /\ events' = flight.pending \o events
        /\ UNCHANGED <<proc, used, workerErr>> /\ flight'.todo = <<>> /\ flight'.pending = <<>>
        /\ flusher' \in {"settled", "idle"}
    BY <1>6, <1>0 DEF Settle, Requeue, Returned, NoFlight
  <2>2. Cost(events') = Cost(flight.pending) + Cost(events)
    BY <1>s, <2>1, CostConcat
  <2> QED BY <1>n, <2>1, <2>2 DEF ReservedKept
<1>7. ASSUME Checkpoint PROVE ReservedKept'
  <2>1. /\ proc = "up" /\ flusher = "settled" /\ flight' = NoFlight /\ flusher' = "idle"
        /\ UNCHANGED <<proc, events, used, workerErr>>
    BY <1>7 DEF Checkpoint, Returned, memory
  <2>2. flight.todo = <<>> /\ flight.pending = <<>>
    BY <1>t, <2>1 DEF ControlShape
  <2> QED BY <1>0, <2>1, <2>2 DEF ReservedKept
<1>8. ASSUME Panic \/ LatchWorkerErr PROVE ReservedKept'
  <2>1. /\ proc = "up" /\ UNCHANGED <<proc, events, used>>
        /\ flusher' = "panicking" \/ workerErr'
    BY <1>8 DEF Panic, LatchWorkerErr, memory
  <2> QED BY <2>1 DEF ReservedKept
<1>9. ASSUME Crash PROVE ReservedKept'
  <2>1. proc' = "down" /\ used' = 0
    BY <1>9 DEF Crash
  <2> QED BY <1>n, <2>1 DEF ReservedKept
<1>10. ASSUME OpenQueue PROVE ReservedKept'
  <2>1. proc = "down" /\ proc' = "recovering" /\ used' = used /\ flight'.pending = <<>>
    BY <1>10 DEF OpenQueue, memory, NoFlight
  <2> QED BY <1>n, <2>1 DEF ReservedKept
<1>11. ASSUME Attach PROVE ReservedKept'
  <2>1. /\ proc = "recovering" /\ proc' = "up" /\ events' = flight.pending \o events
        /\ used' = used + Cost(flight.pending) /\ flight' = NoFlight
    BY <1>11 DEF Attach, Reserved
  <2>2. events = <<>> /\ used = 0 /\ Cost(flight.pending) =< MaxBytes
    BY <1>t, <2>1 DEF ControlShape, ReservedKept
  <2>3. Cost(events') = Cost(flight.pending) + 0
    BY <1>n, <1>s, <2>1, <2>2, CostConcat
  <2> QED BY <1>0, <1>n, <2>1, <2>2, <2>3 DEF ReservedKept
<1>12. ASSUME OpenFails \/ ReplayFails \/ AttachFails PROVE ReservedKept'
  <2>1. /\ proc \in {"down", "recovering"} /\ proc' \in {"down", "up"} /\ UNCHANGED <<events, used>>
        /\ flight' = NoFlight
    BY <1>12 DEF OpenFails, ReplayFails, AttachFails, StartDegraded, memory
  <2>2. events = <<>> /\ used = 0
    BY <1>t, <2>1 DEF ControlShape, ReservedKept
  <2> QED BY <1>0, <1>n, <2>1, <2>2 DEF ReservedKept
<1> QED BY <1>1, <1>2, <1>3, <1>4, <1>5, <1>6, <1>7, <1>8, <1>9, <1>10, <1>11, <1>12 DEF Next

LEMMA InitReserved == Init => ReservedKept
<1>1. Cost(<<>>) = 0 /\ MaxBytes \in Nat
  BY CostOfNone, ErrorBufferAssumption
<1> QED BY <1>1 DEF Init, ReservedKept, NoFlight

(* The reservations of errors/buffer.go are exact: each byte is held for   *)
(* one record that is queued, being applied or pending, across requeues,   *)
(* replays and failed starts, for any sizes; only a panic leaks.           *)
THEOREM ErrorReservationsExact == Spec => []ReservationsExact
<1>1. ErrorInv /\ ReservedKept /\ [Next]_vars => ReservedKept'
  BY ReservedStep
<1>2. ReservedKept => ReservationsExact
  BY DEF ReservedKept, ReservationsExact
<1> QED BY <1>1, <1>2, InitReserved, ErrorInvariant, PTL DEF Spec

(* Without its log a record has no position, and a batch earns nothing.    *)
Unplaced ==
  ~Tracked => flight.target = 0 /\ \A e \in Queued : e.offset = 0

LEMMA UnplacedStep ==
  ASSUME ErrorInv, Unplaced, [Next]_vars
  PROVE  Unplaced'
<1>t. DataType /\ ControlShape
  BY DEF ErrorInv
<1>s. /\ ToSet(<<>>) = {} /\ NoFlight.todo = <<>> /\ NoFlight.pending = <<>> /\ NoFlight.target = 0
  BY Parts, Elements, <1>t DEF NoFlight
<1>y. ASSUME Tracked' PROVE Unplaced'
  BY <1>y DEF Unplaced
<1>k. ASSUME UNCHANGED <<attached, flight, events>>, proc = "recovering" => proc' = "recovering"
      PROVE  Unplaced'
  BY <1>k DEF Unplaced, Tracked, Queued
<1>e. ASSUME flight' = NoFlight, events' = <<>> PROVE Unplaced'
  BY <1>s, <1>e DEF Unplaced, Queued
<1>1. ASSUME \/ \E i \in EventId : Expire(i)
             \/ \E c \in Call : \/ Lookup(c) \/ PushFull(c) \/ PushUnavailable(c) \/ Acknowledge(c)
                                \/ CommitFails(c)
             \/ Sync \/ Stop \/ StopWorker \/ StopFlush \/ StopClose \/ LatchWorkerErr \/ UNCHANGED vars
      PROVE  Unplaced'
  BY <1>k, <1>1 DEF Expire, Lookup, PushFull, PushUnavailable, Acknowledge, CommitFails, Sync, Stop,
                    StopWorker, StopFlush, StopClose, LatchWorkerErr, vars, memory, worker
<1>2. ASSUME NEW c \in Call, Push(c) PROVE Unplaced'
  BY <1>2, <1>y DEF Push, Tracked
<1>3. ASSUME NEW c \in Call, PushMemoryOnly(c) PROVE Unplaced'
  <2> DEFINE e == [call |-> c, offset |-> 0]
  <2>1. e \in Entry /\ e.offset = 0
    BY DEF Entry
  <2>2. events' = Append(events, e) /\ flight' = flight /\ ~Tracked
    BY <1>3 DEF PushMemoryOnly, Buffered, Tracked, worker
  <2> HIDE DEF e
  <2>3. Queued' = Queued \cup {e}
    BY <1>t, <2>1, <2>2, Parts, Appended DEF Queued
  <2> QED BY <2>1, <2>2, <2>3 DEF Unplaced
<1>4. ASSUME Detach PROVE Unplaced'
  <2>1. /\ flight'.todo = events /\ flight'.pending = <<>> /\ flight'.target = 0 /\ events' = <<>>
        /\ UNCHANGED <<attached, proc>>
    BY <1>4 DEF Detach, NoFlight
  <2>2. Queued' \subseteq Queued
    BY <1>s, <2>1 DEF Queued
  <2> QED BY <2>1, <2>2 DEF Unplaced, Tracked
<1>5. ASSUME NEW c \in Call, Final(c) PROVE Unplaced'
  <2>1. /\ flight.todo # <<>> /\ flight'.todo = Tail(flight.todo) /\ flight'.pending = flight.pending
        /\ flight'.target = Target /\ UNCHANGED <<attached, proc, events>>
    BY <1>5, <1>t DEF Final, DataType, FlightType
  <2>2. Queued' \subseteq Queued /\ Current \in Queued
    BY <1>t, <2>1, AtCurrent DEF Queued
  <2>3. ~Tracked => Target = 0
    BY <2>2 DEF Unplaced, Target
  <2> QED BY <2>1, <2>2, <2>3 DEF Unplaced, Tracked
<1>6. ASSUME NEW c \in Call, Pending(c) PROVE Unplaced'
  <2>1. /\ flight.todo # <<>> /\ flight'.todo = Tail(flight.todo)
        /\ flight'.pending = Append(flight.pending, Current) /\ flight'.target = flight.target
        /\ UNCHANGED <<attached, proc, events>>
    BY <1>6, <1>t DEF Pending, memory, DataType, FlightType
  <2>2. Queued' \subseteq Queued
    BY <1>t, <2>1, AtCurrent, Appended, Parts DEF Queued
  <2> QED BY <2>1, <2>2 DEF Unplaced, Tracked
<1>7. ASSUME Settle PROVE Unplaced'
  <2>1. /\ flight'.todo = <<>> /\ flight'.pending = <<>> /\ events' = flight.pending \o events
        /\ flight'.target = flight.target \/ flight'.target = 0
        /\ UNCHANGED <<attached, proc>>
    BY <1>7 DEF Settle, Requeue, NoFlight
  <2>2. Queued' \subseteq Queued
    BY <1>s, <1>t, <2>1, Parts, Concatenated DEF Queued
  <2> QED BY <2>1, <2>2 DEF Unplaced, Tracked
<1>8. ASSUME Checkpoint \/ Panic PROVE Unplaced'
  <2>1. flight' = NoFlight /\ UNCHANGED <<attached, proc, events>>
    BY <1>8 DEF Checkpoint, Panic, memory
  <2>2. Queued' \subseteq Queued
    BY <1>s, <2>1 DEF Queued
  <2> QED BY <1>s, <2>1, <2>2 DEF Unplaced, Tracked
<1>9. ASSUME Crash PROVE Unplaced'
  BY <1>9, <1>e DEF Crash
<1>10. ASSUME OpenQueue \/ Attach PROVE Unplaced'
  BY <1>10, <1>y DEF OpenQueue, Attach, Tracked
<1>11. ASSUME OpenFails \/ ReplayFails \/ AttachFails PROVE Unplaced'
  <2>1. proc \in {"down", "recovering"} /\ flight' = NoFlight /\ events' = events
    BY <1>11 DEF OpenFails, ReplayFails, AttachFails, StartDegraded, memory
  <2>2. events = <<>>
    BY <1>t, <2>1 DEF ControlShape
  <2> QED BY <1>e, <2>1, <2>2
<1> QED BY <1>1, <1>2, <1>3, <1>4, <1>5, <1>6, <1>7, <1>8, <1>9, <1>10, <1>11 DEF Next

(* The types, beside those the invariant has.                              *)
LatchType == latched \in BOOLEAN /\ bufErr \in BOOLEAN

LEMMA LatchTypeStep ==
  ASSUME LatchType, [Next]_vars
  PROVE  LatchType'
<1>1. CASE UNCHANGED <<latched, bufErr>>
  BY <1>1, Zenon DEF LatchType
<1>2. ASSUME FlushFails \/ (latched' = FALSE /\ bufErr' = FALSE)  PROVE LatchType'
  BY <1>2, Zenon DEF FlushFails, LatchType
<1>3. ASSUME NEW c \in Call, PushUnavailable(c)  PROVE LatchType'
  BY <1>1, <1>3, Zenon DEF PushUnavailable, LatchType
<1>4. CASE Sync \/ Crash
  BY <1>1, <1>2, <1>4, Zenon DEF Sync, Crash
<1>5. CASE Checkpoint
  <2>1. \/ UNCHANGED <<latched, bufErr>>
        \/ FlushFails
        \/ latched' \in {latched} \cup (IF "checkpoint" \in FaultKind THEN {TRUE} ELSE {}) /\ bufErr' = bufErr
        \/ latched' = TRUE /\ bufErr' = bufErr
    BY <1>5, Zenon DEF Checkpoint
  <2>2. latched' \in {latched} \cup (IF "checkpoint" \in FaultKind THEN {TRUE} ELSE {})
          => latched' = latched \/ latched' = TRUE
    BY Zenon
  <2> QED BY <1>1, <1>2, <2>1, <2>2, Zenon DEF LatchType
<1>6. ASSUME NEW c \in Call,
             Lookup(c) \/ PushFull(c) \/ Push(c) \/ PushMemoryOnly(c) \/ Acknowledge(c) \/ CommitFails(c)
      PROVE  LatchType'
  BY <1>1, <1>6, Zenon DEF Lookup, PushFull, Push, PushMemoryOnly, Acknowledge, CommitFails, disk
<1>7. ASSUME NEW c \in Call, Final(c) \/ Pending(c)  PROVE LatchType'
  BY <1>1, <1>7, Zenon DEF Final, Pending, disk
<1>8. ASSUME NEW i, Expire(i)  PROVE LatchType'
  BY <1>1, <1>8, Zenon DEF Expire, disk
<1>9. CASE Detach \/ Settle \/ Panic \/ LatchWorkerErr
  BY <1>1, <1>9, Zenon DEF Detach, Settle, Panic, LatchWorkerErr, disk
<1>10. CASE Stop \/ StopWorker \/ StopFlush \/ StopClose
  BY <1>1, <1>10, Zenon DEF Stop, StopWorker, StopFlush, StopClose, disk
<1>11. CASE OpenQueue \/ Attach \/ OpenFails \/ AttachFails \/ ReplayFails
  BY <1>1, <1>11, Zenon DEF OpenQueue, Attach, OpenFails, AttachFails, ReplayFails, StartDegraded, disk
<1>12. CASE UNCHANGED vars
  BY <1>1, <1>12, Zenon DEF vars, disk
<1> QED BY <1>3, <1>4, <1>5, <1>6, <1>7, <1>8, <1>9, <1>10, <1>11, <1>12, Zenon DEF Next

ShapeType ==
  /\ proc \in {"down", "recovering", "up", "stopped"}
  /\ attached \in BOOLEAN /\ spool \in BOOLEAN
  /\ workerErr \in BOOLEAN /\ stopped \in BOOLEAN
  /\ flusher \in {"idle", "applying", "settled", "panicking"}
  /\ owner \in {"worker", "final", "exited", "stopper", "closing"}

LEMMA ShapeTypeStep ==
  ASSUME ShapeType, [Next]_vars
  PROVE  ShapeType'
<1>1. ASSUME NEW i \in EventId, Expire(i) PROVE ShapeType'
  BY <1>1 DEF Expire, ShapeType, worker
<1>2. ASSUME NEW c \in Call, Lookup(c) \/ PushFull(c) \/ PushUnavailable(c) \/ Push(c) \/ PushMemoryOnly(c)
                             \/ Acknowledge(c) \/ CommitFails(c)
      PROVE  ShapeType'
  BY <1>2 DEF Lookup, PushFull, PushUnavailable, Push, PushMemoryOnly, Acknowledge, CommitFails, ShapeType, worker
<1>3. ASSUME NEW c \in Call, Final(c) \/ Pending(c) PROVE ShapeType'
  BY <1>3 DEF Final, Pending, ShapeType
<1>4. CASE Sync \/ Detach
  BY <1>4 DEF Sync, Detach, ShapeType, worker
<1>5. CASE Settle
  BY <1>5 DEF Settle, Returned, ShapeType
<1>6. CASE Checkpoint
  BY <1>6 DEF Checkpoint, Returned, ShapeType
<1>7. CASE Panic \/ LatchWorkerErr
  BY <1>7 DEF Panic, LatchWorkerErr, ShapeType
<1>8. CASE Stop \/ StopWorker \/ StopFlush \/ StopClose
  BY <1>8, Zenon DEF Stop, StopWorker, StopFlush, StopClose, ShapeType, worker
<1>9. CASE Crash
  BY <1>9 DEF Crash, ShapeType
<1>10. CASE OpenQueue \/ Attach
  BY <1>10, Zenon DEF OpenQueue, Attach, ShapeType
<1>11. CASE OpenFails \/ ReplayFails \/ AttachFails
  <2>1. CASE OpenFails
    BY <2>1, Zenon DEF OpenFails, StartDegraded, ShapeType
  <2>2. CASE ReplayFails
    BY <2>2, Zenon DEF ReplayFails, StartDegraded, ShapeType
  <2>3. CASE AttachFails
    BY <2>3, Zenon DEF AttachFails, StartDegraded, ShapeType
  <2> QED BY <1>11, <2>1, <2>2, <2>3
<1>12. CASE UNCHANGED vars
  BY <1>12 DEF vars, ShapeType, worker
<1> QED BY <1>1, <1>2, <1>3, <1>4, <1>5, <1>6, <1>7, <1>8, <1>9, <1>10, <1>11, <1>12 DEF Next

(* The checkpoint and what a batch has earned stay within the log, the     *)
(* reservations within the budget, and all else has its type.              *)
THEOREM ErrorBufferTyped == Spec => []TypeOK
<1>1. Init => ShapeType /\ Unplaced /\ LatchType
  <2>1. Init => ShapeType
    BY DEF Init, ShapeType
  <2>2. Init => Tracked
    BY DEF Init, Tracked
  <2>3. Init => LatchType
    BY Zenon DEF Init, LatchType
  <2> QED BY <2>1, <2>2, <2>3 DEF Unplaced
<1>2. ErrorInv /\ ReservedKept /\ ShapeType /\ Unplaced /\ LatchType /\ [Next]_vars
        => (ReservedKept /\ ShapeType /\ Unplaced /\ LatchType)'
  BY ReservedStep, ShapeTypeStep, UnplacedStep, LatchTypeStep
<1>3. ErrorInv /\ ReservedKept /\ ShapeType /\ Unplaced /\ LatchType => TypeOK
  <2> SUFFICES ASSUME ErrorInv, ReservedKept, ShapeType, Unplaced, LatchType PROVE TypeOK
    OBVIOUS
  <2>1. DataType /\ Len(log) \in Nat
    BY Parts DEF ErrorInv
  <2>2. stable \in 0..Len(log) /\ cp \in 0..stable
    BY <2>1 DEF DataType
  <2>3. used \in 0..MaxBytes
    BY ErrorBufferAssumption DEF ReservedKept
  <2>4. flight.target \in 0..Len(log)
    BY <2>1, Parts DEF ErrorInv, TargetFinal, Unplaced
  <2>5. flight \in [todo : Seq(Entry), pending : Seq(Entry), target : 0..Len(log), gap : BOOLEAN]
    BY <2>1, <2>4 DEF DataType, FlightType
  <2> QED BY <2>1, <2>2, <2>3, <2>5 DEF TypeOK, ShapeType, LatchType, DataType, CacheType
<1> QED BY <1>1, <1>2, <1>3, InitReserved, ErrorInvariant, PTL DEF Spec
-----------------------------------------------------------------------------
(***************************************************************************)
(* The two buffers of MCBuffers.  A behaviour of it is one of both: the    *)
(* buffer it is not about never moves.  So what is proved of each holds,   *)
(* of the error buffer as above, and of the event buffer by the theorems   *)
(* of BufferProofs for the calls, events and sizes of MCBuffers.           *)
(***************************************************************************)

IngestProofs == INSTANCE BufferProofs WITH
  Call <- {d1, d2, d3}, Event <- {e1, e2, e3}, CacheKey <- {k1},
  Batch <- [c \in {d1, d2, d3} |-> IF c = d3 THEN <<e2, e3>> ELSE <<e1, e2>>],
  Key <- [c \in {d1, d2, d3} |-> k1],
  Size <- [e \in {e1, e2, e3} |-> IF e = e1 THEN 2 ELSE 1],
  MaxSize <- 4, MaxBufferedBytes <- 5, ChunkSize <- 1, CacheMax <- 1, MaxDigestsPerKey <- 1,
  FaultKind <- {"flush", "insert", "ambiguous", "panic", "checkpoint", "open"},
  proc <- bproc, attached <- battached, log <- blog, stable <- bstable, cp <- bcp,
  latched <- blatched, bufErr <- bbufErr, events <- bevents, queuedBytes <- bqueuedBytes,
  flightBytes <- bflightBytes, lastOffset <- blastOffset, flight <- bflight,
  flusher <- bflusher, owner <- bowner, workerErr <- bworkerErr, stopped <- bstopped,
  call <- bcall, cache <- bcache, db <- bdb, crashes <- bcrashes

LEMMA IngestAssumed == IngestProofs!BufferAssumption
<1> DEFINE C == {d1, d2, d3}
           E == {e1, e2, e3}
           batch == [c \in C |-> IF c = d3 THEN <<e2, e3>> ELSE <<e1, e2>>]
<1>1. batch \in [C -> Seq(E)]
  <2>1. <<e2, e3>> \in Seq(E) /\ <<e1, e2>> \in Seq(E)
    OBVIOUS
  <2>2. \A c \in C : (IF c = d3 THEN <<e2, e3>> ELSE <<e1, e2>>) \in Seq(E)
    BY <2>1, Zenon
  <2> QED BY <2>2, Zenon
<1>2. \A c \in C : batch[c] # <<>>
  <2>1. <<e2, e3>> # <<>> /\ <<e1, e2>> # <<>>
    OBVIOUS
  <2>2. \A c \in C : batch[c] = <<e2, e3>> \/ batch[c] = <<e1, e2>>
    OBVIOUS
  <2> QED BY <2>1, <2>2, Zenon
<1>3. NoKey \notin {k1}
  BY BuffersAssumption
<1>4. [c \in C |-> k1] \in [C -> {k1} \cup {NoKey}]
  OBVIOUS
<1>5. [e \in E |-> IF e = e1 THEN 2 ELSE 1] \in [E -> Nat \ {0}]
  OBVIOUS
<1>6. Lossy \in BOOLEAN /\ RequireWAL \in BOOLEAN /\ MaxCrashes \in Nat
  BY ErrorBufferAssumption
<1> QED BY <1>1, <1>2, <1>3, <1>4, <1>5, <1>6 DEF IngestProofs!BufferAssumption, IngestProofs!Faults

(* The two instances of Buffer are one.                                    *)
LEMMA IngestSteps ==
  /\ Ingest!Init => IngestProofs!Init
  /\ Ingest!Next => IngestProofs!Next
<1>1. Ingest!Init => IngestProofs!Init
  BY Zenon DEF Ingest!Init, IngestProofs!Init, Ingest!NoFlight, IngestProofs!NoFlight,
         Ingest!EmptyCache, IngestProofs!EmptyCache
<1>2. Ingest!Next => IngestProofs!Next
  BY ZenonT(30) DEF
  Ingest!FlushFails, IngestProofs!FlushFails,
  Ingest!disk, IngestProofs!disk, Ingest!memory, IngestProofs!memory, Ingest!worker,
  IngestProofs!worker, Ingest!vars, IngestProofs!vars, Ingest!NoFlight,
  IngestProofs!NoFlight, Ingest!EmptyCache, IngestProofs!EmptyCache, Ingest!Cost,
  IngestProofs!Cost, Ingest!Duplicate, IngestProofs!Duplicate, Ingest!Evicted,
  IngestProofs!Evicted, Ingest!Ring, IngestProofs!Ring, Ingest!Digests,
  IngestProofs!Digests, Ingest!Record, IngestProofs!Record, Ingest!Expire,
  IngestProofs!Expire, Ingest!Reply, IngestProofs!Reply, Ingest!Granted,
  IngestProofs!Granted, Ingest!Check, IngestProofs!Check, Ingest!Fits, IngestProofs!Fits,
  Ingest!Admitting, IngestProofs!Admitting, Ingest!PushFull, IngestProofs!PushFull,
  Ingest!PushUnavailable, IngestProofs!PushUnavailable, Ingest!Buffered,
  IngestProofs!Buffered, Ingest!Push, IngestProofs!Push, Ingest!PushMemoryOnly,
  IngestProofs!PushMemoryOnly, Ingest!Committed, IngestProofs!Committed,
  Ingest!Acknowledge, IngestProofs!Acknowledge, Ingest!CommitFails,
  IngestProofs!CommitFails, Ingest!Sync, IngestProofs!Sync, Ingest!Returned,
  IngestProofs!Returned, Ingest!Detach, IngestProofs!Detach, Ingest!Rest,
  IngestProofs!Rest, Ingest!ChunkEnd, IngestProofs!ChunkEnd, Ingest!Chunk,
  IngestProofs!Chunk, Ingest!Inserted, IngestProofs!Inserted, Ingest!Found,
  IngestProofs!Found, Ingest!Inserting, IngestProofs!Inserting, Ingest!InsertChunk,
  IngestProofs!InsertChunk, Ingest!TxFails, IngestProofs!TxFails, Ingest!Requeue,
  IngestProofs!Requeue, Ingest!NotNegative, IngestProofs!NotNegative, Ingest!InsertFails,
  IngestProofs!InsertFails, Ingest!Release, IngestProofs!Release,
  Ingest!CheckpointTarget, IngestProofs!CheckpointTarget, Ingest!Checkpoint,
  IngestProofs!Checkpoint, Ingest!Panic, IngestProofs!Panic, Ingest!LatchWorkerErr,
  IngestProofs!LatchWorkerErr, Ingest!Stop, IngestProofs!Stop, Ingest!StopWorker,
  IngestProofs!StopWorker, Ingest!SkipLastFlush, IngestProofs!SkipLastFlush,
  Ingest!StopFlush, IngestProofs!StopFlush, Ingest!StopClose, IngestProofs!StopClose,
  Ingest!Crash, IngestProofs!Crash, Ingest!Replay, IngestProofs!Replay, Ingest!OpenQueue,
  IngestProofs!OpenQueue, Ingest!ReplayNext, IngestProofs!ReplayNext, Ingest!Attach,
  IngestProofs!Attach, Ingest!StartDegraded, IngestProofs!StartDegraded,
  Ingest!OpenFails, IngestProofs!OpenFails, Ingest!ReplayFails, IngestProofs!ReplayFails,
  Ingest!AttachFails, IngestProofs!AttachFails, Ingest!Next, IngestProofs!Next,
  Ingest!FoldLeft, IngestProofs!FoldLeft, Ingest!MapThenFoldSet,
  IngestProofs!MapThenFoldSet, Ingest!Max, IngestProofs!Max, Ingest!Contains,
  IngestProofs!Contains, Ingest!ToSet, IngestProofs!ToSet
<1> QED BY <1>1, <1>2

LEMMA IngestProperties ==
  /\ IngestProofs!TypeOK => Ingest!TypeOK
  /\ IngestProofs!CheckpointCovered => Ingest!CheckpointCovered
  /\ IngestProofs!AckedRecoverable => Ingest!AckedRecoverable
  /\ IngestProofs!BudgetExact => Ingest!BudgetExact
  /\ IngestProofs!StoredOnce => Ingest!StoredOnce
  BY DEF
  Ingest!CallState, IngestProofs!CallState, Ingest!EventsOf, IngestProofs!EventsOf,
  Ingest!Stored, IngestProofs!Stored, Ingest!Flight, IngestProofs!Flight, Ingest!Cache,
  IngestProofs!Cache, Ingest!TypeOK, IngestProofs!TypeOK, Ingest!CheckpointCovered,
  IngestProofs!CheckpointCovered, Ingest!Recoverable, IngestProofs!Recoverable,
  Ingest!AckedRecoverable, IngestProofs!AckedRecoverable, Ingest!StoredOnce,
  IngestProofs!StoredOnce, Ingest!BudgetExact, IngestProofs!BudgetExact, Ingest!Cost,
  IngestProofs!Cost, Ingest!FoldLeft, IngestProofs!FoldLeft, Ingest!MapThenFoldSet,
  IngestProofs!MapThenFoldSet, Ingest!Max, IngestProofs!Max, Ingest!ToSet,
  IngestProofs!ToSet

LEMMA BothBuffers == MCSpec => Spec /\ IngestProofs!Spec
<1>1. MCInit => Init /\ IngestProofs!Init
  BY IngestSteps DEF MCInit
<1>2. [MCNext]_<<vars, bvars, ofErrors>> => [Next]_vars
  BY DEF MCNext
<1>3. bvars' = bvars => IngestProofs!vars' = IngestProofs!vars
  BY DEF bvars, IngestProofs!vars, IngestProofs!disk, IngestProofs!memory, IngestProofs!worker
<1>4. [MCNext]_<<vars, bvars, ofErrors>> => [IngestProofs!Next]_(IngestProofs!vars)
  BY IngestSteps, <1>3 DEF MCNext
<1> QED BY <1>1, <1>2, <1>4, PTL DEF MCSpec, Spec, IngestProofs!Spec

(* Whichever buffer a behaviour is about keeps its types: each checkpoint  *)
(* within its log, each count within its budget.                           *)
THEOREM BuffersTyped == MCSpec => []BuffersTypeOK
<1>1. Spec /\ IngestProofs!Spec => []TypeOK /\ []IngestProofs!TypeOK
  BY ErrorBufferTyped, IngestAssumed, IngestProofs!BufferTyped, PTL
<1>2. TypeOK /\ IngestProofs!TypeOK => BuffersTypeOK
  BY IngestProperties DEF BuffersTypeOK
<1> QED BY <1>1, <1>2, BothBuffers, PTL

(* Neither checkpoint passes what is not stored or has no disposition, and *)
(* what either buffer acknowledged is stored, disposed of, or where the    *)
(* next start replays it (Flush and AttachQueue of both buffer.go), as     *)
(* long as no fsync of their logs fails.                                   *)
THEOREM LogsKept == MCSpec => []LogKept
<1>1. Spec /\ IngestProofs!Spec =>
        /\ []CheckpointFinal /\ []AckedDisposed
        /\ []IngestProofs!CheckpointCovered /\ []IngestProofs!AckedRecoverable
  BY CheckpointIsFinal, AcknowledgedIsDisposed, IngestAssumed, IngestProofs!CheckpointNeverPasses,
     IngestProofs!DurableAckNeverLost, PTL
<1>2. CheckpointFinal /\ AckedDisposed /\ IngestProofs!CheckpointCovered
        /\ IngestProofs!AckedRecoverable => LogKept
  BY IngestProperties DEF LogKept
<1> QED BY <1>1, <1>2, BothBuffers, PTL

(* The byte counters of both buffers are exact: what is counted is what is *)
(* queued, in flight or pending, whatever failed on the way there.         *)
THEOREM BothBudgetsExact == MCSpec => []BudgetsExact
<1>1. Spec /\ IngestProofs!Spec => []ReservationsExact /\ []IngestProofs!BudgetExact
  BY ErrorReservationsExact, IngestAssumed, IngestProofs!BufferBudgetExact, PTL
<1>2. ReservationsExact /\ IngestProofs!BudgetExact => BudgetsExact
  BY IngestProperties DEF BudgetsExact
<1> QED BY <1>1, <1>2, BothBuffers, PTL

(* No event and no identified record has two rows, however often it is     *)
(* sent, queued again and replayed.                                        *)
THEOREM RowsAreOnce == MCSpec => []RowsOnce
<1>1. Spec /\ IngestProofs!Spec => []AppliedOnce /\ []IngestProofs!StoredOnce
  BY OneIdentityOnce, IngestAssumed, IngestProofs!BufferStoresOnce, PTL
<1>2. AppliedOnce /\ IngestProofs!StoredOnce => RowsOnce
  BY IngestProperties DEF RowsOnce
<1> QED BY <1>1, <1>2, BothBuffers, PTL
=============================================================================
