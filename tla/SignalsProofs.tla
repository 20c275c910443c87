--------------------------- MODULE SignalsProofs ----------------------------
(***************************************************************************)
(* What the Go, the Python and the browser client keep of what they queue, *)
(* and what MCSignals says of them and of issues, for every value of the   *)
(* constants.  Each client has a section of its own: a strengthening of    *)
(* what it promises to an inductive invariant, one lemma for each of its   *)
(* actions, and its theorem.  The last section puts the parts together as  *)
(* the run does, those of the issues by the theorems of AlertProofs.       *)
(***************************************************************************)
EXTENDS MCSignals, AlertProofs, FiniteSetTheorems, SequenceTheorems,
        WellFoundedInduction, TLAPS
-----------------------------------------------------------------------------
(***************************************************************************)
(* The queues of the Go client.                                            *)
(***************************************************************************)

SqSender == [at : {"off", "loop", "sending", "remove", "count"}, left : 0..QueueLimit,
             chunk : Seq(1..MaxEntries), why : {"none", "taken", "exhausted", "refused"}]

\* What a Shutdown that returned has counted.
SqWritten == UNION Range(writtenOff)

SqTyped ==
  /\ signal \in {"logs", "spans"} /\ queue \in Seq(1..MaxEntries) /\ Len(queue) =< QueueLimit
  /\ offered \in 0..MaxEntries /\ attempts \in 0..SendAttempts /\ gated \in BOOLEAN
  /\ pinned \in 0..ChunkLimit /\ late \in BOOLEAN
  /\ sdk \in {"open", "closing", "drained", "flushed", "finalized"}
  /\ received \subseteq 1..MaxEntries /\ delivered \subseteq received /\ lost \subseteq 1..MaxEntries
  /\ writtenOff = <<>> \/ \E set \in SUBSET (1..MaxEntries) : writtenOff = <<set>>
  /\ spent \in [1..MaxEntries -> Nat]

\* Entries wait in the order they were admitted in.
SqOrder ==
  /\ \A i \in 1..Len(queue) : queue[i] =< offered
  /\ \A i, j \in 1..Len(queue) : i < j => queue[i] < queue[j]

SqEnd ==
  /\ late \/ writtenOff # <<>> => sdk # "open"
  /\ writtenOff # <<>> => Range(queue) \subseteq SqWritten

\* Where the sender is that has the mutex.
SqAt(r) ==
  /\ r \in SqSender
  /\ r.at = "off" => r = Idle
  /\ r.at = "loop" => r.left =< Len(queue) /\ pinned =< r.left
  /\ r.at \in {"sending", "remove"} =>
       /\ Len(r.chunk) \in 1..r.left /\ r.left =< Len(queue)
       /\ r.chunk = SubSeq(queue, 1, Len(r.chunk))
  /\ r.at = "sending" /\ signal = "spans" => pinned = Len(r.chunk)
  /\ r.at = "remove" => signal = "logs"

\* A chunk that has left the queue and is yet to be counted.
SqInHand(r) ==
  r.at = "count" =>
    /\ Len(r.chunk) =< r.left /\ r.left =< Len(queue) + Len(r.chunk)
    /\ Range(r.chunk) \subseteq 1..offered /\ Range(r.chunk) \cap Range(queue) = {}
    /\ Range(r.chunk) \cap delivered = {} /\ Range(r.chunk) \cap lost \subseteq SqWritten
    /\ r.why = "taken" => Range(r.chunk) \subseteq received
    /\ r.why = "exhausted" /\ signal = "spans" => \A e \in Range(r.chunk) : spent[e] = SendAttempts

\* The attempts of the head are those its spans were part of.
SqBudget(r) ==
  /\ signal = "logs" => pinned = 0
  /\ r.at # "count" => /\ pinned =< Len(queue) /\ attempts < SendAttempts
                       /\ signal = "spans" /\ pinned = 0 => attempts = 0
  /\ signal = "spans" =>
       \A i \in 1..Len(queue) : spent[queue[i]] = IF r.at # "count" /\ i =< pinned THEN attempts ELSE 0
  /\ \A e \in 1..MaxEntries : e > offered => spent[e] = 0

\* Every entry is in one place.
SqBooks(r) ==
  /\ Range(queue) \cup delivered \cup lost \subseteq 1..offered
  /\ 1..offered \subseteq Range(queue) \cup delivered \cup lost
                            \cup (IF r.at = "count" THEN Range(r.chunk) ELSE {})
  /\ delivered \cap lost \subseteq SqWritten
  /\ Range(queue) \cap delivered \subseteq (IF r.at = "remove" THEN Range(r.chunk) ELSE {})
  /\ Range(queue) \cap lost \subseteq SqWritten \cup (IF r.at = "remove" THEN Range(r.chunk) ELSE {})
  /\ r.at = "remove" => Range(r.chunk) \subseteq delivered \cup lost

SqHolds(r) == SqTyped /\ SqOrder /\ SqEnd /\ SqAt(r) /\ SqInHand(r) /\ SqBudget(r) /\ SqBooks(r)

SqInv ==
  \E r : SqHolds(r) /\ \E s \in Sender : sender = [o \in Sender |-> IF o = s THEN r ELSE Idle]

LEMMA SqConstants ==
  /\ MaxEntries \in Nat /\ QueueLimit \in Nat \ {0}
  /\ ChunkLimit \in Nat \ {0} /\ SendAttempts \in Nat \ {0}
BY SdkAssumption

(* What a sequence shows are its entries.                                  *)
LEMMA RangeShows ==
  ASSUME NEW S, NEW q \in Seq(S)
  PROVE  /\ Range(q) = {q[i] : i \in 1..Len(q)} /\ Range(q) \subseteq S
         /\ \A e \in Range(q) : \E i \in 1..Len(q) : e = q[i]
         /\ \A i \in 1..Len(q) : q[i] \in Range(q)
<1>1. DOMAIN q = 1..Len(q)
  OBVIOUS
<1>2. Range(q) = {q[i] : i \in 1..Len(q)}
  BY <1>1 DEF Range
<1>3. \A i \in 1..Len(q) : q[i] \in S
  BY ElementOfSeq
<1> QED BY <1>2, <1>3

LEMMA RangeOfNone == Range(<<>>) = {}
BY DEF Range

(* A queue is cut into its first entries and the rest.                     *)
LEMMA QueueIsCut ==
  ASSUME NEW N \in Nat, NEW q \in Seq(1..N), NEW k \in 0..Len(q),
         \A i, j \in 1..Len(q) : i < j => q[i] < q[j]
  PROVE  LET head == SubSeq(q, 1, k)
             rest == SubSeq(q, k + 1, Len(q))
         IN  /\ head \in Seq(1..N) /\ Len(head) = k /\ \A i \in 1..k : head[i] = q[i]
             /\ rest \in Seq(1..N) /\ Len(rest) = Len(q) - k /\ \A i \in 1..Len(rest) : rest[i] = q[i + k]
             /\ Range(q) = Range(head) \cup Range(rest) /\ Range(head) \cap Range(rest) = {}
<1> DEFINE head == SubSeq(q, 1, k)
           rest == SubSeq(q, k + 1, Len(q))
<1>0. Len(q) \in Nat /\ k \in Nat /\ k =< Len(q) /\ k \in Int /\ k + 1 \in Int /\ Len(q) \in Int
  OBVIOUS
<1>1. \A i \in 1..Len(q) : q[i] \in 1..N
  BY ElementOfSeq
<1>2. head \in Seq(1..N) /\ Len(head) = k /\ \A i \in 1..k : head[i] = q[i]
  <2>1. \A i \in 1..k : q[i] \in 1..N
    BY <1>0, <1>1
  <2>2. /\ head \in Seq(1..N) /\ Len(head) = (IF 1 =< k THEN k - 1 + 1 ELSE 0)
        /\ \A i \in 1..(k - 1 + 1) : head[i] = q[1 + i - 1]
    BY <1>0, <2>1, SubSeqProperties
  <2> QED BY <1>0, <2>2
<1>3. rest \in Seq(1..N) /\ Len(rest) = Len(q) - k /\ \A i \in 1..Len(rest) : rest[i] = q[i + k]
  <2>1. \A i \in (k + 1)..Len(q) : q[i] \in 1..N
    BY <1>0, <1>1
  <2>2. /\ rest \in Seq(1..N) /\ Len(rest) = (IF k + 1 =< Len(q) THEN Len(q) - (k + 1) + 1 ELSE 0)
        /\ \A i \in 1..(Len(q) - (k + 1) + 1) : rest[i] = q[(k + 1) + i - 1]
    BY <1>0, <2>1, SubSeqProperties
  <2>3. Len(rest) = Len(q) - k
    BY <1>0, <2>2
  <2>4. \A i \in 1..Len(rest) : i \in 1..(Len(q) - (k + 1) + 1) /\ (k + 1) + i - 1 = i + k
    BY <1>0, <2>3
  <2> QED BY <2>2, <2>3, <2>4
<1> HIDE DEF head, rest
<1>4. Range(head) = {head[i] : i \in 1..k} /\ Range(rest) = {rest[i] : i \in 1..(Len(q) - k)}
      /\ Range(q) = {q[i] : i \in 1..Len(q)}
  <2>1. Range(head) = {head[i] : i \in 1..Len(head)}
    BY <1>2, RangeShows
  <2>2. Range(rest) = {rest[i] : i \in 1..Len(rest)}
    BY <1>3, RangeShows
  <2>3. Range(q) = {q[i] : i \in 1..Len(q)}
    BY RangeShows
  <2> QED BY <1>2, <1>3, <2>1, <2>2, <2>3
<1>5. Range(head) \subseteq Range(q) /\ Range(rest) \subseteq Range(q)
  BY <1>0, <1>2, <1>3, <1>4
<1>6. ASSUME NEW e \in Range(q) PROVE e \in Range(head) \cup Range(rest)
  <2>1. PICK i \in 1..Len(q) : e = q[i]
    BY <1>4
  <2>2. CASE i =< k
    BY <1>0, <1>2, <1>4, <2>1, <2>2
  <2>3. CASE ~(i =< k)
    <3>1. i - k \in 1..(Len(q) - k) /\ (i - k) + k = i
      BY <1>0, <2>3
    <3>2. rest[i - k] = q[i]
      BY <1>3, <3>1
    <3> QED BY <1>4, <2>1, <3>1, <3>2
  <2> QED BY <2>2, <2>3
<1>7. ASSUME NEW e \in Range(head), e \in Range(rest) PROVE FALSE
  <2>1. PICK i \in 1..k : e = head[i]
    BY <1>4
  <2>2. PICK j \in 1..(Len(q) - k) : e = rest[j]
    BY <1>4, <1>7
  <2>3. i \in 1..Len(q) /\ j + k \in 1..Len(q) /\ i < j + k
    BY <1>0
  <2>4. q[i] < q[j + k] /\ e = q[i] /\ e = q[j + k] /\ e \in 1..N
    BY <1>1, <1>2, <1>3, <2>1, <2>2, <2>3
  <2> QED BY <2>4
<1> QED BY <1>2, <1>3, <1>5, <1>6, <1>7 DEF head, rest

(* An entry that joins changes nothing before it.                          *)
LEMMA QueueGrows ==
  ASSUME NEW N \in Nat, NEW q \in Seq(1..N), NEW x \in 1..N
  PROVE  /\ Append(q, x) \in Seq(1..N) /\ Len(Append(q, x)) = Len(q) + 1
         /\ \A i \in 1..Len(q) : Append(q, x)[i] = q[i]
         /\ Append(q, x)[Len(q) + 1] = x
         /\ Range(Append(q, x)) = Range(q) \cup {x}
         /\ \A k \in 0..Len(q) : SubSeq(Append(q, x), 1, k) = SubSeq(q, 1, k)
<1> DEFINE p == Append(q, x)
<1>0. Len(q) \in Nat
  OBVIOUS
<1>1. p \in Seq(1..N) /\ Len(p) = Len(q) + 1 /\ (\A i \in 1..Len(q) : p[i] = q[i]) /\ p[Len(q) + 1] = x
  BY AppendProperties
<1> HIDE DEF p
<1>2. Range(p) = Range(q) \cup {x}
  <2>1. Range(q) = {q[i] : i \in 1..Len(q)}
    BY RangeShows
  <2>2. Range(p) = {p[i] : i \in 1..Len(p)}
    BY <1>1, RangeShows
  <2>3. \A i \in 1..Len(p) : i \in 1..Len(q) \/ i = Len(q) + 1
    BY <1>0, <1>1
  <2>4. \A i \in 1..Len(q) : i \in 1..Len(p)
    BY <1>0, <1>1
  <2>5. Len(q) + 1 \in 1..Len(p)
    BY <1>0, <1>1
  <2> QED BY <1>1, <2>1, <2>2, <2>3, <2>4, <2>5
<1>3. ASSUME NEW k \in 0..Len(q) PROVE SubSeq(p, 1, k) = SubSeq(q, 1, k)
  <2>1. k \in Int /\ 1 \in Int /\ k =< Len(q)
    BY <1>0
  <2>2. \A i \in 1..k : q[i] \in 1..N /\ p[i] \in 1..N /\ p[i] = q[i]
    <3>1. \A i \in 1..k : i \in 1..Len(q)
      BY <1>0
    <3> QED BY <1>1, <3>1, ElementOfSeq
  <2>3. /\ SubSeq(p, 1, k) \in Seq(1..N) /\ Len(SubSeq(p, 1, k)) = (IF 1 =< k THEN k - 1 + 1 ELSE 0)
        /\ \A i \in 1..(k - 1 + 1) : SubSeq(p, 1, k)[i] = p[1 + i - 1]
    BY <2>1, <2>2, SubSeqProperties
  <2>4. /\ SubSeq(q, 1, k) \in Seq(1..N) /\ Len(SubSeq(q, 1, k)) = (IF 1 =< k THEN k - 1 + 1 ELSE 0)
        /\ \A i \in 1..(k - 1 + 1) : SubSeq(q, 1, k)[i] = q[1 + i - 1]
    BY <2>1, <2>2, SubSeqProperties
  <2>5. Len(SubSeq(p, 1, k)) = k /\ Len(SubSeq(q, 1, k)) = k
    BY <2>1, <2>3, <2>4
  <2>6. \A i \in 1..k : SubSeq(p, 1, k)[i] = SubSeq(q, 1, k)[i]
    <3> TAKE i \in 1..k
    <3>1. i \in 1..(k - 1 + 1) /\ 1 + i - 1 = i
      OBVIOUS
    <3> QED BY <2>2, <2>3, <2>4, <3>1
  <2> DEFINE a == SubSeq(p, 1, k)
             b == SubSeq(q, 1, k)
  <2>7. a \in Seq(1..N) /\ b \in Seq(1..N) /\ Len(a) = Len(b) /\ \A i \in 1..Len(a) : a[i] = b[i]
    BY <2>3, <2>4, <2>5, <2>6
  <2> HIDE DEF a, b
  <2>8. a = b
    BY <2>7, SeqEqual
  <2> QED BY <2>8 DEF a, b
<1> QED BY <1>1, <1>2, <1>3 DEF p

LEMMA SqIdleFits == Idle \in SqSender
BY SqConstants DEF Idle, SqSender

LEMMA SdkStarts == SdkInit => SqInv
<1> SUFFICES ASSUME SdkInit PROVE SqInv
  OBVIOUS
<1>1. sender = [o \in Sender |-> IF o = "worker" THEN Idle ELSE Idle] /\ "worker" \in Sender
  BY DEF SdkInit, Sender
<1>2. Len(queue) = 0 /\ Range(queue) = {}
  BY RangeOfNone DEF SdkInit
<1>3. SqTyped /\ SqOrder /\ SqEnd
  <2>1. queue \in Seq(1..MaxEntries) /\ spent \in [1..MaxEntries -> Nat]
    BY DEF SdkInit
  <2>2. SqTyped
    <3>1. /\ signal \in {"logs", "spans"} /\ offered = 0 /\ attempts = 0 /\ gated = FALSE /\ pinned = 0
          /\ late = FALSE /\ sdk = "open" /\ received = {} /\ delivered = {} /\ lost = {} /\ writtenOff = <<>>
      BY DEF SdkInit
    <3>2. /\ 0 \in 0..MaxEntries /\ 0 \in 0..SendAttempts /\ 0 \in 0..ChunkLimit /\ Len(queue) =< QueueLimit
      BY <1>2, SqConstants
    <3> QED BY <2>1, <3>1, <3>2 DEF SqTyped
  <2>3. SqOrder
    BY <1>2 DEF SqOrder
  <2>4. SqEnd
    BY DEF SdkInit, SqEnd
  <2> QED BY <2>2, <2>3, <2>4
<1>4. SqAt(Idle) /\ SqInHand(Idle)
  BY SqIdleFits DEF SqAt, SqInHand, Idle
<1>5. SqBudget(Idle) /\ SqBooks(Idle)
  BY <1>2, SqConstants DEF SdkInit, SqBudget, SqBooks, Idle
<1>6. SqHolds(Idle)
  BY <1>3, <1>4, <1>5 DEF SqHolds
<1> QED BY <1>1, <1>6 DEF SqInv

LEMMA SqNumbers ==
  ASSUME SqTyped
  PROVE  /\ MaxEntries \in Nat /\ QueueLimit \in Nat /\ ChunkLimit \in Nat /\ SendAttempts \in Nat /\ SendAttempts >= 1
         /\ offered \in Nat /\ attempts \in Nat /\ pinned \in Nat /\ Len(queue) \in Nat
         /\ offered =< MaxEntries /\ Len(queue) =< QueueLimit /\ queue \in Seq(1..MaxEntries)
         /\ SqWritten \subseteq 1..MaxEntries
         /\ Range(queue) \subseteq 1..MaxEntries /\ \A i \in 1..Len(queue) : queue[i] \in 1..MaxEntries /\ queue[i] \in Range(queue)
<1>1. queue \in Seq(1..MaxEntries)
  BY DEF SqTyped
<1>2. Range(queue) \subseteq 1..MaxEntries /\ \A i \in 1..Len(queue) : queue[i] \in 1..MaxEntries /\ queue[i] \in Range(queue)
  BY <1>1, RangeShows, ElementOfSeq
<1>3. SqWritten \subseteq 1..MaxEntries
  <2>1. CASE writtenOff = <<>>
    BY <2>1, RangeOfNone DEF SqWritten
  <2>2. CASE \E set \in SUBSET (1..MaxEntries) : writtenOff = <<set>>
    <3>1. PICK set \in SUBSET (1..MaxEntries) : writtenOff = <<set>>
      BY <2>2
    <3>2. Range(<<set>>) = {set}
      BY DEF Range
    <3> QED BY <3>1, <3>2 DEF SqWritten
  <2> QED BY <2>1, <2>2 DEF SqTyped
<1>4. Len(queue) \in Nat
  BY <1>1
<1>5. /\ offered \in 0..MaxEntries /\ attempts \in 0..SendAttempts /\ pinned \in 0..ChunkLimit
      /\ Len(queue) =< QueueLimit
  BY DEF SqTyped
<1> QED BY <1>1, <1>2, <1>3, <1>4, <1>5, SqConstants

LEMMA SqAdmit ==
  ASSUME NEW r, SqHolds(r), AdmitEntry
  PROVE  SqHolds(r)'
<1> DEFINE x == offered + 1
<1>0. SqTyped /\ SqOrder /\ SqEnd /\ SqAt(r) /\ SqInHand(r) /\ SqBudget(r) /\ SqBooks(r)
  BY DEF SqHolds
<1>1. /\ MaxEntries \in Nat /\ QueueLimit \in Nat /\ offered \in Nat /\ pinned \in Nat /\ Len(queue) \in Nat
      /\ queue \in Seq(1..MaxEntries) /\ Range(queue) \subseteq 1..MaxEntries
      /\ \A i \in 1..Len(queue) : queue[i] \in 1..MaxEntries
  BY <1>0, SqNumbers
<1>2. /\ sdk = "open" /\ offered < MaxEntries /\ offered' = x /\ x \in 1..MaxEntries /\ x > offered
      /\ UNCHANGED <<signal, attempts, gated, pinned, sender, sdk, late, received, delivered, writtenOff, spent>>
  BY <1>1 DEF AdmitEntry, Admits, Closing
<1>3. r \in SqSender /\ r.left \in Nat
  BY <1>0, SqConstants DEF SqAt, SqSender
<1>4. /\ \A e \in 1..offered : e \in 1..x /\ e # x
      /\ \A e \in 1..x : e \in 1..offered \/ e = x
  BY <1>1
<1>5. SqEnd' /\ SqWritten' = SqWritten
  BY <1>0, <1>2 DEF SqEnd, SqWritten
<1>6. CASE Len(queue) < QueueLimit /\ queue' = Append(queue, x) /\ lost' = lost
  <2> HIDE DEF x
  <2>1. /\ queue' \in Seq(1..MaxEntries) /\ Len(queue') = Len(queue) + 1
        /\ (\A i \in 1..Len(queue) : queue'[i] = queue[i]) /\ queue'[Len(queue) + 1] = x
        /\ Range(queue') = Range(queue) \cup {x}
        /\ \A k \in 0..Len(queue) : SubSeq(queue', 1, k) = SubSeq(queue, 1, k)
    BY <1>1, <1>2, <1>6, QueueGrows
  <2>2. SqTyped'
    <3>1. Len(queue') =< QueueLimit
      BY <1>1, <1>6, <2>1
    <3>2. offered' \in 0..MaxEntries
      BY <1>1, <1>2
    <3> QED BY <1>0, <1>2, <1>6, <2>1, <3>1, <3>2 DEF SqTyped
  <2>3. \A i \in 1..Len(queue') : i \in 1..Len(queue) \/ i = Len(queue) + 1
    BY <1>1, <2>1
  <2>4. SqOrder'
    <3>1. \A i \in 1..Len(queue) : queue[i] =< offered /\ queue[i] < x /\ queue[i] \in Nat
      BY <1>0, <1>1, <1>2 DEF SqOrder
    <3>2. ASSUME NEW i \in 1..Len(queue') PROVE queue'[i] =< offered'
      <4>1. CASE i \in 1..Len(queue)
        <5>1. queue'[i] = queue[i] /\ queue[i] =< offered /\ queue[i] \in Nat
          BY <2>1, <3>1, <4>1
        <5> QED BY <1>1, <1>2, <5>1 DEF x
      <4>2. CASE i = Len(queue) + 1
        <5>1. queue'[i] = offered' /\ offered' \in Nat
          BY <1>1, <1>2, <2>1, <4>2
        <5> QED BY <5>1
      <4> QED BY <2>3, <4>1, <4>2
    <3>3. ASSUME NEW i \in 1..Len(queue'), NEW j \in 1..Len(queue'), i < j
          PROVE  queue'[i] < queue'[j]
      <4>1. i \in 1..Len(queue)
        BY <1>1, <2>1, <3>3
      <4>2. CASE j \in 1..Len(queue)
        BY <1>0, <2>1, <3>3, <4>1, <4>2 DEF SqOrder
      <4>3. CASE j = Len(queue) + 1
        BY <2>1, <3>1, <4>1, <4>3
      <4> QED BY <2>3, <4>2, <4>3
    <3> QED BY <3>2, <3>3 DEF SqOrder
  <2>5. SqAt(r)'
    <3>1. r.at = "loop" => r.left =< Len(queue')
      BY <1>0, <1>1, <1>3, <2>1 DEF SqAt
    <3>2. r.at \in {"sending", "remove"} =>
            /\ Len(r.chunk) \in 1..r.left /\ r.left =< Len(queue')
            /\ r.chunk = SubSeq(queue', 1, Len(r.chunk))
      <4> SUFFICES ASSUME r.at \in {"sending", "remove"}
                   PROVE  /\ Len(r.chunk) \in 1..r.left /\ r.left =< Len(queue')
                          /\ r.chunk = SubSeq(queue', 1, Len(r.chunk))
        OBVIOUS
      <4>1. /\ Len(r.chunk) \in 1..r.left /\ r.left =< Len(queue)
            /\ r.chunk = SubSeq(queue, 1, Len(r.chunk))
        BY <1>0 DEF SqAt
      <4>2. Len(r.chunk) \in 0..Len(queue)
        BY <1>1, <1>3, <4>1
      <4>3. r.left =< Len(queue')
        BY <1>1, <1>3, <2>1, <4>1
      <4> QED BY <2>1, <4>1, <4>2, <4>3
    <3> QED BY <1>0, <1>2, <3>1, <3>2 DEF SqAt
  <2>6. SqInHand(r)'
    <3> SUFFICES ASSUME r.at = "count" PROVE SqInHand(r)'
      BY DEF SqInHand
    <3>1. Range(r.chunk) \subseteq 1..offered /\ Range(r.chunk) \cap Range(queue) = {}
          /\ Len(r.chunk) =< r.left /\ r.left =< Len(queue) + Len(r.chunk)
      BY <1>0 DEF SqInHand
    <3>2. x \notin Range(r.chunk)
      BY <1>4, <3>1
    <3>3. Range(r.chunk) \subseteq 1..offered' /\ Range(r.chunk) \cap Range(queue') = {}
      BY <1>2, <1>4, <2>1, <3>1, <3>2
    <3>4. r.left =< Len(queue') + Len(r.chunk)
      <4>1. Len(r.chunk) \in Nat
        BY <1>3 DEF SqSender
      <4>2. Len(queue') = Len(queue) + 1
        BY <2>1
      <4>3. r.left =< Len(queue) + Len(r.chunk)
        BY <3>1
      <4>4. \A a, b, c \in Nat : a =< b + c => a =< (b + 1) + c
        OBVIOUS
      <4>5. Len(queue) \in Nat /\ r.left \in Nat
        BY <1>1, <1>3
      <4>6. r.left =< (Len(queue) + 1) + Len(r.chunk)
        BY <4>1, <4>3, <4>4, <4>5, Zenon
      <4> QED BY <4>2, <4>6, Zenon
    <3> QED BY <1>0, <1>2, <1>5, <1>6, <3>1, <3>3, <3>4 DEF SqInHand
  <2>7. SqBudget(r)'
    <3>1. r.at # "count" => pinned =< Len(queue) /\ pinned =< Len(queue')
      BY <1>0, <1>1, <2>1 DEF SqBudget
    <3>2. spent[x] = 0
      BY <1>0, <1>2 DEF SqBudget
    <3>3. ASSUME signal = "spans", NEW i \in 1..Len(queue')
          PROVE  spent[queue'[i]] = IF r.at # "count" /\ i =< pinned THEN attempts ELSE 0
      <4>1. CASE i \in 1..Len(queue)
        BY <1>0, <2>1, <3>3, <4>1 DEF SqBudget
      <4>2. CASE i = Len(queue) + 1
        <5>1. ~(r.at # "count" /\ i =< pinned)
          BY <1>1, <3>1, <4>2
        <5> QED BY <2>1, <3>2, <4>2, <5>1
      <4> QED BY <2>3, <4>1, <4>2
    <3>4. \A e \in 1..MaxEntries : e > offered' => spent[e] = 0
      BY <1>0, <1>1, <1>2 DEF SqBudget
    <3> QED BY <1>0, <1>2, <3>1, <3>3, <3>4 DEF SqBudget
  <2>8. SqBooks(r)'
    <3>1. x \notin delivered /\ x \notin lost
      BY <1>0, <1>4 DEF SqBooks
    <3>2. Range(queue') \cup delivered \cup lost \subseteq 1..x
      BY <1>0, <1>2, <1>4, <2>1 DEF SqBooks
    <3>3. 1..x \subseteq Range(queue') \cup delivered \cup lost
                           \cup (IF r.at = "count" THEN Range(r.chunk) ELSE {})
      BY <1>0, <1>4, <2>1 DEF SqBooks
    <3>4. Range(queue') \cap delivered \subseteq (IF r.at = "remove" THEN Range(r.chunk) ELSE {})
      BY <1>0, <2>1, <3>1 DEF SqBooks
    <3>5. Range(queue') \cap lost \subseteq SqWritten \cup (IF r.at = "remove" THEN Range(r.chunk) ELSE {})
      BY <1>0, <2>1, <3>1 DEF SqBooks
    <3>6. delivered \cap lost \subseteq SqWritten
      BY <1>0 DEF SqBooks
    <3>7. r.at = "remove" => Range(r.chunk) \subseteq delivered \cup lost
      BY <1>0 DEF SqBooks
    <3> QED BY <1>2, <1>5, <1>6, <3>2, <3>3, <3>4, <3>5, <3>6, <3>7 DEF SqBooks
  <2> QED BY <1>5, <2>2, <2>4, <2>5, <2>6, <2>7, <2>8 DEF SqHolds
<1>7. CASE queue' = queue /\ lost' = lost \cup {x}
  <2> HIDE DEF x
  <2>1. SqTyped'
    <3>1. offered' \in 0..MaxEntries
      BY <1>1, <1>2
    <3>2. lost' \subseteq 1..MaxEntries
      BY <1>0, <1>2, <1>7 DEF SqTyped
    <3> QED BY <1>0, <1>2, <1>7, <3>1, <3>2 DEF SqTyped
  <2>2. SqOrder'
    <3>1. \A i \in 1..Len(queue) : queue[i] =< offered'
      BY <1>0, <1>1, <1>2 DEF SqOrder
    <3> QED BY <1>0, <1>7, <3>1 DEF SqOrder
  <2>3. SqAt(r)'
    BY <1>0, <1>2, <1>7 DEF SqAt
  <2>4. x \notin Range(queue) /\ x \notin delivered
    BY <1>0, <1>4 DEF SqBooks
  <2>5. SqInHand(r)'
    <3> SUFFICES ASSUME r.at = "count" PROVE SqInHand(r)'
      BY DEF SqInHand
    <3>1. Range(r.chunk) \subseteq 1..offered
      BY <1>0 DEF SqInHand
    <3>2. x \notin Range(r.chunk)
      BY <1>4, <3>1
    <3>3. Range(r.chunk) \cap lost' \subseteq SqWritten /\ Range(r.chunk) \subseteq 1..offered'
      BY <1>0, <1>2, <1>4, <1>7, <3>1, <3>2 DEF SqInHand
    <3> QED BY <1>0, <1>2, <1>5, <1>7, <3>3 DEF SqInHand
  <2>6. SqBudget(r)'
    <3>1. \A e \in 1..MaxEntries : e > offered' => spent[e] = 0
      BY <1>0, <1>1, <1>2 DEF SqBudget
    <3> QED BY <1>0, <1>2, <1>7, <3>1 DEF SqBudget
  <2>7. SqBooks(r)'
    <3>1. Range(queue) \cup delivered \cup lost' \subseteq 1..x
      BY <1>0, <1>2, <1>4, <1>7 DEF SqBooks
    <3>2. 1..x \subseteq Range(queue) \cup delivered \cup lost'
                           \cup (IF r.at = "count" THEN Range(r.chunk) ELSE {})
      BY <1>0, <1>4, <1>7 DEF SqBooks
    <3>3. delivered \cap lost' \subseteq SqWritten
          /\ Range(queue) \cap lost' \subseteq SqWritten \cup (IF r.at = "remove" THEN Range(r.chunk) ELSE {})
      BY <1>0, <1>7, <2>4 DEF SqBooks
    <3>4. Range(queue) \cap delivered \subseteq (IF r.at = "remove" THEN Range(r.chunk) ELSE {})
      BY <1>0 DEF SqBooks
    <3>5. r.at = "remove" => Range(r.chunk) \subseteq delivered \cup lost'
      BY <1>0, <1>7 DEF SqBooks
    <3> QED BY <1>2, <1>5, <1>7, <3>1, <3>2, <3>3, <3>4, <3>5 DEF SqBooks
  <2> QED BY <1>5, <2>1, <2>2, <2>3, <2>5, <2>6, <2>7 DEF SqHolds
<1> QED BY <1>6, <1>7 DEF AdmitEntry

LEMMA SqRecords ==
  ASSUME NEW r \in SqSender
  PROVE  /\ r.at \in {"off", "loop", "sending", "remove", "count"} /\ r.left \in Nat /\ r.left =< QueueLimit
         /\ r.chunk \in Seq(1..MaxEntries) /\ Len(r.chunk) \in Nat /\ Range(r.chunk) \subseteq 1..MaxEntries
<1>1. r.chunk \in Seq(1..MaxEntries) /\ r.left \in 0..QueueLimit /\ r.at \in {"off", "loop", "sending", "remove", "count"}
  BY DEF SqSender
<1>2. Range(r.chunk) \subseteq 1..MaxEntries
  BY <1>1, RangeShows
<1>3. Len(r.chunk) \in Nat
  BY <1>1
<1> QED BY <1>1, <1>2, <1>3, SqConstants

\* The queue is a sender's chunk, of k entries, and the rest.
SqCut(r, k, rest) ==
  /\ k \in 1..Len(queue) /\ k \in Nat /\ k =< r.left /\ r.left =< Len(queue)
  /\ \A i \in 1..k : r.chunk[i] = queue[i]
  /\ rest \in Seq(1..MaxEntries) /\ Len(rest) = Len(queue) - k /\ Len(rest) \in Nat
  /\ \A i \in 1..Len(rest) : rest[i] = queue[i + k] /\ i + k \in 1..Len(queue)
  /\ Range(queue) = Range(r.chunk) \cup Range(rest) /\ Range(r.chunk) \cap Range(rest) = {}

(* The chunk that is being sent is the head of the queue.                  *)
LEMMA SqPrefix ==
  ASSUME NEW r, SqHolds(r), r.at \in {"sending", "remove"}, NEW k, k = Len(r.chunk),
         NEW rest, rest = SubSeq(queue, Len(r.chunk) + 1, Len(queue))
  PROVE  SqCut(r, k, rest)
<1>1. /\ SqTyped /\ SqOrder /\ r \in SqSender /\ k \in 1..r.left /\ r.left =< Len(queue)
      /\ r.chunk = SubSeq(queue, 1, k)
  BY DEF SqHolds, SqAt
<1>2. Len(queue) \in Nat /\ MaxEntries \in Nat /\ queue \in Seq(1..MaxEntries) /\ r.left \in Nat
  BY <1>1, SqNumbers, SqRecords
<1>3. k \in 0..Len(queue) /\ k \in 1..Len(queue) /\ k \in Nat /\ k =< r.left
  BY <1>1, <1>2
<1>4. \A i, j \in 1..Len(queue) : i < j => queue[i] < queue[j]
  BY <1>1 DEF SqOrder
<1> DEFINE CutAt(m, h, t) ==
             /\ \A i \in 1..m : h[i] = queue[i]
             /\ t \in Seq(1..MaxEntries) /\ Len(t) = Len(queue) - m
             /\ \A i \in 1..Len(t) : t[i] = queue[i + m]
             /\ Range(queue) = Range(h) \cup Range(t) /\ Range(h) \cap Range(t) = {}
<1>5. \A m \in 0..Len(queue) : CutAt(m, SubSeq(queue, 1, m), SubSeq(queue, m + 1, Len(queue)))
  BY <1>2, <1>4, QueueIsCut
<1> HIDE DEF CutAt
<1>6. CutAt(k, r.chunk, rest)
  <2>1. CutAt(k, SubSeq(queue, 1, k), SubSeq(queue, k + 1, Len(queue)))
    BY <1>3, <1>5, Zenon
  <2> QED BY <1>1, <2>1, Zenon
<1>7. /\ \A i \in 1..k : r.chunk[i] = queue[i]
      /\ rest \in Seq(1..MaxEntries) /\ Len(rest) = Len(queue) - k /\ \A i \in 1..Len(rest) : rest[i] = queue[i + k]
      /\ Range(queue) = Range(r.chunk) \cup Range(rest) /\ Range(r.chunk) \cap Range(rest) = {}
  BY <1>6, Zenon DEF CutAt
<1>8. Len(rest) \in Nat /\ \A i \in 1..Len(rest) : i + k \in 1..Len(queue)
  BY <1>2, <1>3, <1>7
<1> QED BY <1>1, <1>3, <1>7, <1>8 DEF SqCut

(* A chunk leaves the queue, and is then counted.                          *)
LEMMA SqLeaves ==
  ASSUME NEW r, SqHolds(r), r.at = "sending", NEW w \in {"taken", "exhausted", "refused"},
         NEW n \in SqSender, n.at = "count", n.why = w, n.chunk = r.chunk, n.left = r.left,
         queue' = SubSeq(queue, Len(r.chunk) + 1, Len(queue)),
         UNCHANGED <<signal, offered, pinned, sdk, late, delivered, lost, writtenOff>>,
         received \subseteq received', received' \subseteq 1..MaxEntries,
         attempts' \in 0..SendAttempts, gated' \in BOOLEAN, spent' \in [1..MaxEntries -> Nat],
         \A e \in 1..MaxEntries : e \notin Range(r.chunk) => spent'[e] = spent[e],
         w = "taken" => Range(r.chunk) \subseteq received',
         w = "exhausted" /\ signal = "spans" => \A e \in Range(r.chunk) : spent'[e] = SendAttempts
  PROVE  SqHolds(n)'
<1>1. PICK k : k = Len(r.chunk)
  OBVIOUS
<1>0. SqTyped /\ SqOrder /\ SqEnd /\ SqAt(r) /\ SqBudget(r) /\ SqBooks(r) /\ r \in SqSender
  BY DEF SqHolds, SqAt
<1>2. PICK rest : rest = SubSeq(queue, Len(r.chunk) + 1, Len(queue))
  OBVIOUS
<1>3. /\ k \in 1..Len(queue) /\ k \in Nat /\ k =< r.left /\ r.left =< Len(queue)
      /\ rest \in Seq(1..MaxEntries) /\ Len(rest) = Len(queue) - k /\ Len(rest) \in Nat
      /\ \A i \in 1..Len(rest) : rest[i] = queue[i + k] /\ i + k \in 1..Len(queue)
      /\ Range(queue) = Range(r.chunk) \cup Range(rest) /\ Range(r.chunk) \cap Range(rest) = {}
  <2>1. r.at \in {"sending", "remove"}
    OBVIOUS
  <2>2. SqCut(r, k, rest)
    BY <1>1, <1>2, <2>1, SqPrefix
  <2> QED BY <2>2 DEF SqCut
<1>4. queue' = rest
  BY <1>2
<1>5. /\ Len(queue) \in Nat /\ Len(queue) =< QueueLimit /\ QueueLimit \in Nat /\ r.left \in Nat /\ pinned \in Nat
      /\ MaxEntries \in Nat /\ \A i \in 1..Len(queue) : queue[i] \in 1..MaxEntries /\ queue[i] \in Range(queue)
  BY <1>0, SqNumbers, SqRecords
<1>6. SqWritten' = SqWritten
  BY DEF SqWritten
<1>7. SqTyped'
  <2>1. Len(queue') =< QueueLimit /\ queue' \in Seq(1..MaxEntries)
    <3>1. Len(rest) =< Len(queue)
      <4>1. \A a, b, c \in Nat : a = b - c => a =< b
        OBVIOUS
      <4> QED BY <1>3, <1>5, <4>1, Zenon
    <3> QED BY <1>3, <1>4, <1>5, <3>1
  <2> QED BY <1>0, <2>1 DEF SqTyped
<1>8. SqOrder'
  <2>1. \A i \in 1..Len(rest) : rest[i] =< offered
    BY <1>0, <1>3 DEF SqOrder
  <2>2. ASSUME NEW i \in 1..Len(rest), NEW j \in 1..Len(rest), i < j
        PROVE  rest[i] < rest[j]
    <3>1. i + k \in 1..Len(queue) /\ j + k \in 1..Len(queue) /\ i + k < j + k
      BY <1>3, <2>2
    <3>2. queue[i + k] < queue[j + k]
      BY <1>0, <3>1 DEF SqOrder
    <3> QED BY <1>3, <3>2
  <2> QED BY <1>4, <2>1, <2>2 DEF SqOrder
<1>9. SqEnd'
  BY <1>0, <1>3, <1>4, <1>6 DEF SqEnd
<1>10. SqAt(n)'
  BY DEF SqAt
<1>11. SqInHand(n)'
  <2>1. Range(r.chunk) \subseteq 1..offered /\ Range(r.chunk) \cap delivered = {} /\ Range(r.chunk) \cap lost \subseteq SqWritten
    BY <1>0, <1>3 DEF SqBooks
  <2>2. r.left =< Len(rest) + k
    BY <1>3, <1>5
  <2> QED BY <1>1, <1>3, <1>4, <1>6, <2>1, <2>2 DEF SqInHand
<1>12. SqBudget(n)'
  <2>1. signal = "spans" => pinned = k
    BY <1>0, <1>1 DEF SqAt
  <2>2. ASSUME signal = "spans", NEW i \in 1..Len(rest)
        PROVE  spent'[rest[i]] = 0
    <3>1. i + k \in 1..Len(queue) /\ ~(i + k =< pinned) /\ rest[i] = queue[i + k]
      <4>1. i + k \in 1..Len(queue) /\ rest[i] = queue[i + k]
        BY <1>3
      <4>2. pinned = k /\ k \in Nat /\ i \in Nat /\ i >= 1
        BY <1>3, <2>1, <2>2
          <4>3. ~(i + k =< pinned)
        BY <4>2
      <4> QED BY <4>1, <4>3
    <3>2. spent[queue[i + k]] = 0
      BY <1>0, <2>2, <3>1 DEF SqBudget
    <3>3. rest[i] \in Range(rest) /\ rest[i] \in 1..MaxEntries
      BY <1>3, <1>5, RangeShows
    <3>4. rest[i] \notin Range(r.chunk)
      BY <1>3, <3>3
    <3> QED BY <3>1, <3>2, <3>3, <3>4
  <2>3. \A e \in 1..MaxEntries : e > offered => spent'[e] = 0
    <3> SUFFICES ASSUME NEW e \in 1..MaxEntries, e > offered PROVE spent'[e] = 0
      OBVIOUS
    <3>1. Range(r.chunk) \subseteq 1..offered /\ offered \in Nat
      BY <1>0, <1>3, SqNumbers DEF SqBooks
    <3>2. e \notin Range(r.chunk) /\ spent[e] = 0
      BY <1>0, <3>1 DEF SqBudget
    <3> QED BY <3>2
  <2>4. signal' = signal /\ pinned' = pinned /\ offered' = offered /\ n.at = "count"
    OBVIOUS
  <2> QED BY <1>0, <1>4, <2>2, <2>3, <2>4 DEF SqBudget
<1>13. SqBooks(n)'
  BY <1>0, <1>3, <1>4, <1>6 DEF SqBooks
<1> QED BY <1>7, <1>8, <1>9, <1>10, <1>11, <1>12, <1>13 DEF SqHolds

(* A flush ends, whatever its sender was at but counting.                  *)
LEMMA SqRests ==
  ASSUME NEW r, SqHolds(r), r.at \in {"off", "loop", "sending"}, 
         UNCHANGED <<signal, queue, offered, attempts, pinned, late, delivered, lost, writtenOff, spent>>,
         gated' \in BOOLEAN, received \subseteq received', received' \subseteq 1..MaxEntries,
         sdk' \in {"open", "closing", "drained", "flushed", "finalized"}, sdk # "open" => sdk' # "open"
  PROVE  SqHolds(Idle)'
<1>1. SqTyped' /\ SqOrder' /\ SqEnd' /\ SqWritten' = SqWritten
  BY DEF SqHolds, SqTyped, SqOrder, SqEnd, SqWritten
<1>2. SqAt(Idle)' /\ SqInHand(Idle)'
  BY SqIdleFits DEF SqAt, SqInHand, Idle
<1>3. Idle.at = "off"
  BY DEF Idle
<1>4. SqBudget(Idle)' /\ SqBooks(Idle)'
  BY <1>1, <1>3 DEF SqHolds, SqBudget, SqBooks
<1> QED BY <1>1, <1>2, <1>4 DEF SqHolds

(* Nothing moves but the clock and the phases of the shutdown.             *)
LEMMA SqQuiet ==
  ASSUME NEW r, SqHolds(r),
         UNCHANGED <<signal, queue, offered, attempts, pinned, received, delivered, lost, writtenOff, spent>>,
         gated' \in BOOLEAN, late' \in BOOLEAN, sdk' \in {"open", "closing", "drained", "flushed", "finalized"},
         late' \/ writtenOff # <<>> => sdk' # "open"
  PROVE  SqHolds(r)'
<1>1. SqWritten' = SqWritten
  BY DEF SqWritten
<1>2. SqTyped' /\ SqOrder' /\ SqEnd'
  BY <1>1 DEF SqHolds, SqTyped, SqOrder, SqEnd
<1>3. SqAt(r)' /\ SqInHand(r)'
  BY <1>1 DEF SqHolds, SqAt, SqInHand
<1>4. SqBudget(r)' /\ SqBooks(r)'
  BY <1>1 DEF SqHolds, SqBudget, SqBooks
<1> QED BY <1>2, <1>3, <1>4 DEF SqHolds

(* A shutdown counts what is left.                                         *)
LEMMA SqWritesOff ==
  ASSUME NEW r, SqHolds(r),
         UNCHANGED <<signal, queue, offered, attempts, gated, pinned, late, received, delivered, spent>>,
         writtenOff = <<>>, writtenOff' = <<Range(queue)>>, lost' = lost \cup Range(queue),
         sdk' \in {"closing", "drained", "flushed", "finalized"}
  PROVE  SqHolds(r)'
<1>0. SqTyped /\ SqOrder /\ SqEnd /\ SqAt(r) /\ SqInHand(r) /\ SqBudget(r) /\ SqBooks(r)
  BY DEF SqHolds
<1>1. SqWritten = {} /\ SqWritten' = Range(queue)
  <2>1. SqWritten = {}
    BY RangeOfNone DEF SqWritten
  <2>2. PICK set : set = Range(queue)
    OBVIOUS
  <2>3. Range(<<set>>) = {set}
    BY DEF Range
  <2> QED BY <2>1, <2>2, <2>3 DEF SqWritten
<1>2. Range(queue) \subseteq 1..MaxEntries
  BY <1>0, SqNumbers
<1>3. SqTyped'
  <2>1. \E set \in SUBSET (1..MaxEntries) : writtenOff' = <<set>>
    BY <1>2
  <2>2. lost' \subseteq 1..MaxEntries
    BY <1>0, <1>2 DEF SqTyped
  <2> QED BY <1>0, <2>1, <2>2 DEF SqTyped
<1>4. SqOrder' /\ SqEnd'
  BY <1>0, <1>1 DEF SqOrder, SqEnd
<1>5. SqAt(r)' /\ SqBudget(r)'
  BY <1>0 DEF SqAt, SqBudget
<1>6. SqInHand(r)'
  BY <1>0, <1>1 DEF SqInHand
<1>7. SqBooks(r)'
  BY <1>0, <1>1 DEF SqBooks
<1> QED BY <1>3, <1>4, <1>5, <1>6, <1>7 DEF SqHolds

LEMMA SqGoesOn ==
  ASSUME NEW l \in 0..QueueLimit, NEW n, n = [Idle EXCEPT !.at = "loop", !.left = l]
  PROVE  n \in SqSender /\ n.at = "loop" /\ n.left = l
<1>1. \A r \in SqSender : LET m == [r EXCEPT !.at = "loop", !.left = l]
                          IN  m \in SqSender /\ m.at = "loop" /\ m.left = l
  BY DEF SqSender
<1> QED BY <1>1, SqIdleFits

(* A flush that begins may send what is queued now.                        *)
LEMMA SqBegins ==
  ASSUME SqHolds(Idle), UNCHANGED <<signal, offered, sdk, late, writtenOff, flushing>>,
         NEW n, n = [Idle EXCEPT !.at = "loop", !.left = Len(queue)]
  PROVE  SqHolds(n)'
<1>0. SqTyped /\ SqOrder /\ SqEnd /\ SqBudget(Idle) /\ SqBooks(Idle)
  BY DEF SqHolds
<1>1. /\ Len(queue) \in Nat /\ Len(queue) =< QueueLimit /\ QueueLimit \in Nat
  BY <1>0, SqNumbers
<1>2. Idle.at = "off"
  BY DEF Idle
<1>3. n.at = "loop" /\ n.left = Len(queue) /\ n \in SqSender
  <2>1. Len(queue) \in 0..QueueLimit
    BY <1>1
  <2> QED BY <2>1, SqGoesOn
<1>4. SqTyped' /\ SqOrder' /\ SqEnd' /\ SqWritten' = SqWritten
  BY <1>0 DEF SqTyped, SqOrder, SqEnd, SqWritten, flushing
<1>5. SqAt(n)'
  <2>1. pinned =< Len(queue)
    BY <1>0, <1>2 DEF SqBudget
  <2> QED BY <1>1, <1>3, <2>1 DEF SqAt, flushing
<1>6. SqInHand(n)'
  BY <1>3 DEF SqInHand
<1>7. SqBudget(n)' /\ SqBooks(n)'
  BY <1>0, <1>2, <1>3, <1>4 DEF SqBudget, SqBooks, flushing
<1> QED BY <1>4, <1>5, <1>6, <1>7 DEF SqHolds

(* The chunk that is sent is the one whose attempts are counted.           *)
LEMMA SqSends ==
  ASSUME NEW r, SqHolds(r), r.at = "loop", NEW k,
         k \in IF signal = "spans" /\ pinned # 0 THEN {pinned} \cap 1..Len(queue)
               ELSE {c \in 1..ChunkLimit : c =< r.left /\ c =< Len(queue)},
         NEW n \in SqSender, n.at = "sending", n.left = r.left, n.chunk = SubSeq(queue, 1, k),
         pinned' = IF signal = "spans" THEN k ELSE 0,
         UNCHANGED <<signal, queue, offered, attempts, gated, sdk, late, received, delivered, lost, writtenOff, spent>>
  PROVE  SqHolds(n)'
<1>0. SqTyped /\ SqOrder /\ SqEnd /\ SqAt(r) /\ SqBudget(r) /\ SqBooks(r) /\ r \in SqSender
  BY DEF SqHolds, SqAt
<1>1. /\ Len(queue) \in Nat /\ ChunkLimit \in Nat /\ MaxEntries \in Nat /\ pinned \in Nat /\ r.left \in Nat
      /\ queue \in Seq(1..MaxEntries) /\ pinned \in 0..ChunkLimit
  BY <1>0, SqNumbers, SqRecords DEF SqTyped
<1>2. r.left =< Len(queue) /\ pinned =< r.left /\ pinned =< Len(queue)
  BY <1>0 DEF SqAt, SqBudget
<1>3. k \in 1..ChunkLimit /\ k \in 1..r.left /\ k \in 0..Len(queue)
  BY <1>1, <1>2
<1>4. Len(n.chunk) = k
  <2>1. \A i, j \in 1..Len(queue) : i < j => queue[i] < queue[j]
    BY <1>0 DEF SqOrder
  <2>2. Len(SubSeq(queue, 1, k)) = k
    BY <1>1, <1>3, <2>1, QueueIsCut
  <2> QED BY <2>2
<1>5. SqTyped' /\ SqOrder' /\ SqEnd' /\ SqWritten' = SqWritten
  <2>1. pinned' \in 0..ChunkLimit
    BY <1>1, <1>3
  <2> QED BY <1>0, <2>1 DEF SqTyped, SqOrder, SqEnd, SqWritten
<1>6. SqAt(n)'
  BY <1>2, <1>3, <1>4 DEF SqAt
<1>7. SqInHand(n)'
  BY DEF SqInHand
<1>8. SqBudget(n)'
  <2>1. pinned' =< Len(queue)
    BY <1>1, <1>3
  <2>2. ASSUME signal = "spans", pinned = 0 PROVE attempts = 0
    BY <1>0, <2>2 DEF SqBudget
  <2>3. ASSUME signal = "spans", pinned # 0 PROVE pinned' = pinned
    BY <2>3
  <2>4. ASSUME signal = "spans", NEW i \in 1..Len(queue)
        PROVE  spent[queue[i]] = IF i =< pinned' THEN attempts ELSE 0
    <3>1. spent[queue[i]] = IF i =< pinned THEN attempts ELSE 0
      BY <1>0, <2>4 DEF SqBudget
    <3> QED BY <2>2, <2>3, <2>4, <3>1
  <2>5. signal = "spans" /\ pinned' = 0 => attempts = 0
    BY <1>1, <1>3
  <2> QED BY <1>0, <2>1, <2>4, <2>5 DEF SqBudget
<1>9. SqBooks(n)'
  BY <1>0, <1>5 DEF SqBooks
<1> QED BY <1>5, <1>6, <1>7, <1>8, <1>9 DEF SqHolds

(* Of a chunk of logs that was taken every entry is counted, and is still  *)
(* in the queue.                                                           *)
LEMMA SqTaken ==
  ASSUME NEW r, SqHolds(r), r.at = "sending", signal = "logs", NEW bad \in SUBSET Range(r.chunk),
         NEW n \in SqSender, n.at = "remove", n.left = r.left, n.chunk = r.chunk,
         received' = received \cup Range(r.chunk),
         delivered' = delivered \cup (Range(r.chunk) \ bad), lost' = lost \cup bad,
         UNCHANGED <<signal, queue, offered, attempts, gated, pinned, sdk, late, writtenOff, spent>>
  PROVE  SqHolds(n)'
<1>0. SqTyped /\ SqOrder /\ SqEnd /\ SqAt(r) /\ SqBudget(r) /\ SqBooks(r) /\ r \in SqSender
  BY DEF SqHolds, SqAt
<1>1. Range(r.chunk) \subseteq Range(queue) /\ Range(r.chunk) \subseteq 1..MaxEntries
  <2>1. r.at \in {"sending", "remove"}
    OBVIOUS
  <2>2. PICK rest : rest = SubSeq(queue, Len(r.chunk) + 1, Len(queue))
    OBVIOUS
  <2>3. Range(queue) = Range(r.chunk) \cup Range(rest)
    <3>1. SqCut(r, Len(r.chunk), rest)
      BY <2>1, <2>2, SqPrefix, Zenon
    <3> QED BY <3>1 DEF SqCut
  <2> QED BY <1>0, <2>3, SqRecords
<1>2. SqWritten' = SqWritten
  BY DEF SqWritten
<1>3. SqTyped' /\ SqOrder' /\ SqEnd'
  <2>1. received' \subseteq 1..MaxEntries /\ delivered' \subseteq received' /\ lost' \subseteq 1..MaxEntries
    BY <1>0, <1>1 DEF SqTyped
  <2> QED BY <1>0, <1>2, <2>1 DEF SqTyped, SqOrder, SqEnd
<1>4. SqAt(n)'
  BY <1>0 DEF SqAt
<1>5. SqInHand(n)'
  BY DEF SqInHand
<1>6. SqBudget(n)'
  BY <1>0 DEF SqBudget
<1>7. SqBooks(n)'
  <2>1. /\ Range(queue) \cap delivered = {} /\ Range(queue) \cap lost \subseteq SqWritten
        /\ Range(queue) \cup delivered \cup lost \subseteq 1..offered
        /\ 1..offered \subseteq Range(queue) \cup delivered \cup lost
        /\ delivered \cap lost \subseteq SqWritten
    BY <1>0 DEF SqBooks
  <2>2. delivered' \cap lost' \subseteq SqWritten
    BY <1>1, <2>1
  <2>3. /\ Range(queue) \cap delivered' \subseteq Range(r.chunk)
        /\ Range(queue) \cap lost' \subseteq SqWritten \cup Range(r.chunk)
    BY <1>1, <2>1
  <2>4. /\ Range(queue) \cup delivered' \cup lost' \subseteq 1..offered
        /\ 1..offered \subseteq Range(queue) \cup delivered' \cup lost'
        /\ Range(r.chunk) \subseteq delivered' \cup lost'
    BY <1>1, <2>1
  <2> QED BY <1>2, <2>2, <2>3, <2>4 DEF SqBooks
<1> QED BY <1>3, <1>4, <1>5, <1>6, <1>7 DEF SqHolds

(* And then the chunk leaves the queue.                                    *)
LEMMA SqRemoves ==
  ASSUME NEW r, SqHolds(r), r.at = "remove",
         NEW n \in SqSender, n.at = "loop", n.left = r.left - Len(r.chunk),
         queue' = SubSeq(queue, Len(r.chunk) + 1, Len(queue)), attempts' = 0, gated' = FALSE,
         UNCHANGED <<signal, offered, pinned, sdk, late, received, delivered, lost, writtenOff, spent>>
  PROVE  SqHolds(n)'
<1>0. SqTyped /\ SqOrder /\ SqEnd /\ SqAt(r) /\ SqBudget(r) /\ SqBooks(r) /\ r \in SqSender /\ signal = "logs"
  BY DEF SqHolds, SqAt
<1>1. PICK rest : rest = SubSeq(queue, Len(r.chunk) + 1, Len(queue))
  OBVIOUS
<1>2. PICK k : k = Len(r.chunk)
  OBVIOUS
<1>3. /\ k \in 1..Len(queue) /\ k \in Nat /\ k =< r.left /\ r.left =< Len(queue)
      /\ rest \in Seq(1..MaxEntries) /\ Len(rest) = Len(queue) - k /\ Len(rest) \in Nat
      /\ \A i \in 1..Len(rest) : rest[i] = queue[i + k] /\ i + k \in 1..Len(queue)
      /\ Range(queue) = Range(r.chunk) \cup Range(rest) /\ Range(r.chunk) \cap Range(rest) = {}
  <2>1. r.at \in {"sending", "remove"}
    OBVIOUS
  <2>2. SqCut(r, k, rest)
    BY <1>1, <1>2, <2>1, SqPrefix
  <2> QED BY <2>2 DEF SqCut
<1>4. queue' = rest /\ n.left = r.left - k
  BY <1>1, <1>2
<1>5. /\ Len(queue) \in Nat /\ Len(queue) =< QueueLimit /\ QueueLimit \in Nat /\ r.left \in Nat
      /\ SendAttempts \in Nat /\ SendAttempts >= 1 /\ pinned = 0
  BY <1>0, SqNumbers, SqRecords DEF SqBudget
<1>6. SqWritten' = SqWritten
  BY DEF SqWritten
<1>7. SqTyped'
  <2>1. Len(rest) =< QueueLimit
    BY <1>3, <1>5
  <2>2. attempts' \in 0..SendAttempts
    BY <1>5
  <2> QED BY <1>0, <1>3, <1>4, <2>1, <2>2 DEF SqTyped
<1>8. SqOrder'
  <2>1. \A i \in 1..Len(rest) : rest[i] =< offered
    BY <1>0, <1>3 DEF SqOrder
  <2>2. ASSUME NEW i \in 1..Len(rest), NEW j \in 1..Len(rest), i < j
        PROVE  rest[i] < rest[j]
    <3>1. i + k \in 1..Len(queue) /\ j + k \in 1..Len(queue) /\ i + k < j + k
      BY <1>3, <2>2
    <3>2. queue[i + k] < queue[j + k]
      BY <1>0, <3>1 DEF SqOrder
    <3> QED BY <1>3, <3>2
  <2> QED BY <1>4, <2>1, <2>2 DEF SqOrder
<1>9. SqEnd'
  BY <1>0, <1>3, <1>4, <1>6 DEF SqEnd
<1>10. SqAt(n)'
  <2>1. n.left =< Len(rest) /\ pinned =< n.left
    BY <1>3, <1>4, <1>5
  <2> QED BY <1>4, <2>1 DEF SqAt
<1>11. SqInHand(n)'
  BY DEF SqInHand
<1>12. SqBudget(n)'
  BY <1>0, <1>3, <1>4, <1>5 DEF SqBudget
<1>13. SqBooks(n)'
  BY <1>0, <1>3, <1>4, <1>6 DEF SqBooks
<1> QED BY <1>7, <1>8, <1>9, <1>10, <1>11, <1>12, <1>13 DEF SqHolds

(* An attempt that failed within the budget is one of each of its spans.   *)
LEMMA SqRetries ==
  ASSUME NEW r, SqHolds(r), r.at = "sending", attempts + 1 < SendAttempts,
         received \subseteq received', received' \subseteq received \cup Range(r.chunk),
         spent' = [e \in DOMAIN spent |->
                     IF signal = "spans" /\ e \in Range(r.chunk) THEN spent[e] + 1 ELSE spent[e]],
         attempts' = attempts + 1, gated' \in BOOLEAN,
         sdk' \in {"open", "closing", "drained", "flushed", "finalized"}, sdk # "open" => sdk' # "open",
         UNCHANGED <<signal, queue, offered, pinned, late, delivered, lost, writtenOff>>
  PROVE  SqHolds(Idle)'
<1>0. SqTyped /\ SqOrder /\ SqEnd /\ SqAt(r) /\ SqBudget(r) /\ SqBooks(r) /\ r \in SqSender
  BY DEF SqHolds, SqAt
<1>1. PICK rest : rest = SubSeq(queue, Len(r.chunk) + 1, Len(queue))
  OBVIOUS
<1>2. PICK k : k = Len(r.chunk)
  OBVIOUS
<1>3. /\ k \in 1..Len(queue) /\ k \in Nat /\ \A i \in 1..k : r.chunk[i] = queue[i]
      /\ rest \in Seq(1..MaxEntries) /\ Len(rest) = Len(queue) - k
      /\ \A i \in 1..Len(rest) : rest[i] = queue[i + k]
      /\ Range(queue) = Range(r.chunk) \cup Range(rest) /\ Range(r.chunk) \cap Range(rest) = {}
  <2>1. r.at \in {"sending", "remove"}
    OBVIOUS
  <2>2. SqCut(r, k, rest)
    BY <1>1, <1>2, <2>1, SqPrefix
  <2> QED BY <2>2 DEF SqCut
<1>4. /\ Len(queue) \in Nat /\ SendAttempts \in Nat /\ attempts \in Nat /\ offered \in Nat
      /\ MaxEntries \in Nat /\ \A i \in 1..Len(queue) : queue[i] \in 1..MaxEntries
      /\ Range(r.chunk) \subseteq 1..MaxEntries /\ spent \in [1..MaxEntries -> Nat]
      /\ r.chunk \in Seq(1..MaxEntries)
  BY <1>0, SqNumbers, SqRecords DEF SqTyped
<1>5. SqWritten' = SqWritten
  BY DEF SqWritten
<1>6. spent' \in [1..MaxEntries -> Nat]
      /\ \A e \in 1..MaxEntries :
           spent'[e] = IF signal = "spans" /\ e \in Range(r.chunk) THEN spent[e] + 1 ELSE spent[e]
  BY <1>4
<1>7. SqTyped' /\ SqOrder' /\ SqEnd'
  <2>1. received' \subseteq 1..MaxEntries /\ delivered \subseteq received'
    BY <1>0, <1>4 DEF SqTyped
  <2>2. attempts' \in 0..SendAttempts
    BY <1>4
  <2> QED BY <1>0, <1>5, <1>6, <2>1, <2>2 DEF SqTyped, SqOrder, SqEnd
<1>8. SqAt(Idle)' /\ SqInHand(Idle)' /\ Idle.at = "off"
  BY SqIdleFits DEF SqAt, SqInHand, Idle
<1>9. SqBudget(Idle)'
  <2>1. signal = "spans" => pinned = k
    BY <1>0, <1>2 DEF SqAt
  <2>2. ASSUME signal = "spans", NEW i \in 1..Len(queue)
        PROVE  spent'[queue[i]] = IF i =< pinned THEN attempts + 1 ELSE 0
    <3>1. spent[queue[i]] = IF i =< pinned THEN attempts ELSE 0
      BY <1>0, <2>2 DEF SqBudget
    <3>2. queue[i] \in 1..MaxEntries
      BY <1>4
    <3>3. CASE i =< k
      <4>1. i \in 1..k /\ r.chunk[i] = queue[i]
        BY <1>3, <3>3
      <4>2. queue[i] \in Range(r.chunk)
        BY <1>2, <1>4, <4>1, RangeShows
      <4> QED BY <1>6, <2>1, <2>2, <3>1, <3>2, <3>3, <4>2
    <3>4. CASE ~(i =< k)
      <4>1. i - k \in 1..Len(rest) /\ (i - k) + k = i
        BY <1>3, <1>4, <3>4
      <4>2. rest[i - k] = queue[i]
        BY <1>3, <4>1
      <4>3. queue[i] \in Range(rest)
        BY <1>3, <4>1, <4>2, RangeShows
      <4>4. queue[i] \notin Range(r.chunk)
        BY <1>3, <4>3
      <4> QED BY <1>6, <2>1, <2>2, <3>1, <3>2, <3>4, <4>4
    <3> QED BY <3>3, <3>4
  <2>3. \A e \in 1..MaxEntries : e > offered => spent'[e] = 0
    <3> SUFFICES ASSUME NEW e \in 1..MaxEntries, e > offered PROVE spent'[e] = 0
      OBVIOUS
    <3>1. Range(r.chunk) \subseteq 1..offered
      BY <1>0, <1>3 DEF SqBooks
    <3>2. e \notin Range(r.chunk) /\ spent[e] = 0
      BY <1>0, <1>4, <3>1 DEF SqBudget
    <3> QED BY <1>6, <3>2
  <2>4. pinned =< Len(queue) /\ (signal = "logs" => pinned = 0) /\ (signal = "spans" => pinned # 0)
    BY <1>0, <1>3, <2>1 DEF SqBudget
  <2> QED BY <1>4, <1>8, <2>2, <2>3, <2>4 DEF SqBudget
<1>10. SqBooks(Idle)'
  BY <1>0, <1>5, <1>8 DEF SqBooks
<1> QED BY <1>7, <1>8, <1>9, <1>10 DEF SqHolds

(* A chunk in hand is counted, and the flush goes on or ends.              *)
LEMMA SqCounts ==
  ASSUME NEW r, SqHolds(r), r.at = "count",
         attempts' = 0, pinned' = 0, gated' = FALSE,
         \/ r.why = "taken" /\ delivered' = delivered \cup Range(r.chunk) /\ lost' = lost
         \/ lost' = lost \cup Range(r.chunk) /\ delivered' = delivered,
         NEW n \in SqSender, n = Idle \/ (n.at = "loop" /\ n.left = r.left - Len(r.chunk)),
         sdk' \in {"open", "closing", "drained", "flushed", "finalized"}, sdk # "open" => sdk' # "open",
         UNCHANGED <<signal, queue, offered, late, received, writtenOff, spent>>
  PROVE  SqHolds(n)'
<1>0. SqTyped /\ SqOrder /\ SqEnd /\ SqAt(r) /\ SqInHand(r) /\ SqBudget(r) /\ SqBooks(r) /\ r \in SqSender
  BY DEF SqHolds, SqAt
<1>1. SqWritten' = SqWritten
  BY DEF SqWritten
<1>2. /\ Len(r.chunk) =< r.left /\ r.left =< Len(queue) + Len(r.chunk)
      /\ Range(r.chunk) \subseteq 1..offered /\ Range(r.chunk) \cap Range(queue) = {}
      /\ Range(r.chunk) \cap delivered = {} /\ Range(r.chunk) \cap lost \subseteq SqWritten
      /\ r.why = "taken" => Range(r.chunk) \subseteq received
  BY <1>0 DEF SqInHand
<1>3. /\ Len(queue) \in Nat /\ SendAttempts \in Nat /\ SendAttempts >= 1 /\ ChunkLimit \in Nat
      /\ r.left \in Nat /\ Len(r.chunk) \in Nat /\ Range(r.chunk) \subseteq 1..MaxEntries
  BY <1>0, SqNumbers, SqRecords
<1>4. SqTyped' /\ SqOrder' /\ SqEnd'
  <2>1. attempts' \in 0..SendAttempts /\ pinned' \in 0..ChunkLimit
    BY <1>3
  <2>2. delivered' \subseteq received /\ lost' \subseteq 1..MaxEntries
    BY <1>0, <1>2, <1>3 DEF SqTyped
  <2> QED BY <1>0, <1>1, <2>1, <2>2 DEF SqTyped, SqOrder, SqEnd
<1>5. n.at \in {"off", "loop"} /\ (n.at = "off" => n = Idle)
  BY DEF Idle
<1>6. SqAt(n)'
  <2>1. n.at = "loop" => n.left =< Len(queue) /\ 0 =< n.left
    <3> SUFFICES ASSUME n.at = "loop" PROVE n.left =< Len(queue) /\ 0 =< n.left
      OBVIOUS
    <3>1. n.left = r.left - Len(r.chunk)
      BY DEF Idle
    <3>2. \A a, b, c \in Nat : b =< a /\ a =< c + b => a - b =< c /\ 0 =< a - b
      OBVIOUS
    <3>3. r.left - Len(r.chunk) =< Len(queue) /\ 0 =< r.left - Len(r.chunk)
      BY <1>2, <1>3, <3>2, Zenon
    <3> QED BY <3>1, <3>3
  <2> QED BY <1>5, <2>1 DEF SqAt
<1>7. SqInHand(n)'
  BY <1>5 DEF SqInHand
<1>8. SqBudget(n)'
  BY <1>0, <1>3, <1>5 DEF SqBudget
<1>9. SqBooks(n)'
  BY <1>0, <1>1, <1>2, <1>5 DEF SqBooks
<1> QED BY <1>4, <1>6, <1>7, <1>8, <1>9 DEF SqHolds

\* A sender's record changed in one place.
LEMMA SqBecomes ==
  ASSUME NEW r \in SqSender, NEW a \in {"off", "loop", "sending", "remove", "count"},
         NEW n, n = [r EXCEPT !.at = a]
  PROVE  n \in SqSender /\ n.at = a /\ n.left = r.left /\ n.chunk = r.chunk
BY DEF SqSender

LEMMA SqFlushes ==
  ASSUME NEW s \in Sender, NEW r, r = sender[s], DOMAIN sender = Sender, SqHolds(r), FlushSteps(s)
  PROVE  \E n : SqHolds(n)' /\ sender' = [sender EXCEPT ![s] = n]
<1>0. SqTyped /\ SqAt(r) /\ SqBudget(r) /\ SqBooks(r) /\ r \in SqSender
  BY DEF SqHolds, SqAt
<1>1. /\ sdk \in {"open", "closing", "drained", "flushed", "finalized"}
      /\ gated \in BOOLEAN /\ attempts \in 0..SendAttempts /\ attempts \in Nat /\ SendAttempts \in Nat
      /\ received \subseteq 1..MaxEntries /\ spent \in [1..MaxEntries -> Nat]
      /\ QueueLimit \in Nat /\ Len(queue) \in Nat /\ Len(queue) =< QueueLimit /\ queue \in Seq(1..MaxEntries)
      /\ r.left \in Nat /\ r.left =< QueueLimit /\ Len(r.chunk) \in Nat /\ Range(r.chunk) \subseteq 1..MaxEntries
      /\ r.chunk \in Seq(1..MaxEntries)
  BY <1>0, SqNumbers, SqRecords DEF SqTyped
<1>2. Sent(s) = Range(r.chunk) /\ Rest(s) = SubSeq(queue, Len(r.chunk) + 1, Len(queue))
  BY DEF Sent, Rest
<1>3. SenderEnds(s) =>
        /\ sender' = [sender EXCEPT ![s] = Idle] /\ sdk' \in {"open", "closing", "drained", "flushed", "finalized"}
        /\ sdk # "open" => sdk' # "open"
  BY <1>1 DEF SenderEnds
<1>4. CASE FlushPauses(s)
  <2>1. SqHolds(Idle)'
    BY <1>0, <1>1, <1>3, <1>4, SqRests DEF FlushPauses, flushing
  <2> QED BY <1>3, <1>4, <2>1 DEF FlushPauses
<1>5. CASE SendChunk(s)
  <2>1. PICK k \in ChunkSize(s) :
          /\ sender' = [sender EXCEPT ![s].at = "sending", ![s].chunk = SubSeq(queue, 1, k)]
          /\ pinned' = IF signal = "spans" THEN k ELSE 0
    BY <1>5 DEF SendChunk
  <2>2. k \in IF signal = "spans" /\ pinned # 0 THEN {pinned} \cap 1..Len(queue)
              ELSE {c \in 1..ChunkLimit : c =< r.left /\ c =< Len(queue)}
    BY <2>1 DEF ChunkSize
  <2>3. SubSeq(queue, 1, k) \in Seq(1..MaxEntries)
    <3>1. k \in 0..Len(queue) /\ MaxEntries \in Nat
      BY <1>1, <2>2, SqConstants
    <3>2. \A i, j \in 1..Len(queue) : i < j => queue[i] < queue[j]
      BY DEF SqHolds, SqOrder
    <3> QED BY <1>1, <3>1, <3>2, QueueIsCut
  <2>4. PICK n : n = [r EXCEPT !.at = "sending", !.chunk = SubSeq(queue, 1, k)]
    OBVIOUS
  <2>5. n \in SqSender /\ n.at = "sending" /\ n.left = r.left /\ n.chunk = SubSeq(queue, 1, k)
    <3>1. PICK c \in Seq(1..MaxEntries) : c = SubSeq(queue, 1, k)
      BY <2>3
    <3>2. n = [r EXCEPT !.at = "sending", !.chunk = c]
      BY <2>4, <3>1, Zenon
    <3>3. n \in SqSender /\ n.at = "sending" /\ n.left = r.left /\ n.chunk = c
      BY <1>0, <3>2 DEF SqSender
    <3> QED BY <3>1, <3>3
  <2>6. r.at = "loop" /\ UNCHANGED <<signal, queue, offered, attempts, gated, sdk, late, received, delivered, lost, writtenOff, spent>>
    BY <1>5 DEF SendChunk
  <2>7. SqHolds(n)'
    BY <2>1, <2>2, <2>5, <2>6, SqSends
  <2>8. sender' = [sender EXCEPT ![s] = n]
    BY <2>1, <2>4
  <2> QED BY <2>7, <2>8
<1>6. CASE ChunkTaken(s) /\ signal = "logs"
  <2>1. PICK bad \in SUBSET Range(r.chunk) :
          /\ delivered' = delivered \cup (Range(r.chunk) \ bad) /\ lost' = lost \cup bad
          /\ SenderGoes(s, "remove") /\ UNCHANGED queue
    BY <1>2, <1>6 DEF ChunkTaken
  <2>2. PICK n : n = [r EXCEPT !.at = "remove"]
    OBVIOUS
  <2>3. n \in SqSender /\ n.at = "remove" /\ n.left = r.left /\ n.chunk = r.chunk
    BY <1>0, <2>2, SqBecomes
  <2>4. /\ r.at = "sending" /\ received' = received \cup Range(r.chunk)
        /\ UNCHANGED <<signal, queue, offered, attempts, gated, pinned, sdk, late, writtenOff, spent>>
    BY <1>2, <1>6, <2>1 DEF ChunkTaken
  <2>5. SqHolds(n)'
    BY <1>6, <2>1, <2>3, <2>4, SqTaken
  <2>6. sender' = [sender EXCEPT ![s] = n]
    BY <2>1, <2>2 DEF SenderGoes
  <2> QED BY <2>5, <2>6
<1>7. ASSUME NEW w \in {"taken", "exhausted", "refused"}, r.at = "sending",
             queue' = Rest(s), sender' = [sender EXCEPT ![s].at = "count", ![s].why = w],
             UNCHANGED <<signal, offered, pinned, sdk, late, delivered, lost, writtenOff>>,
             received \subseteq received', received' \subseteq 1..MaxEntries,
             attempts' \in 0..SendAttempts, gated' \in BOOLEAN, spent' \in [1..MaxEntries -> Nat],
             \A e \in 1..MaxEntries : e \notin Range(r.chunk) => spent'[e] = spent[e],
             w = "taken" => Range(r.chunk) \subseteq received',
             w = "exhausted" /\ signal = "spans" => \A e \in Range(r.chunk) : spent'[e] = SendAttempts
      PROVE  \E n : SqHolds(n)' /\ sender' = [sender EXCEPT ![s] = n]
  <2>1. PICK n : n = [r EXCEPT !.at = "count", !.why = w]
    OBVIOUS
  <2>2. n \in SqSender /\ n.at = "count" /\ n.why = w /\ n.chunk = r.chunk /\ n.left = r.left
    BY <1>0, <1>7, <2>1 DEF SqSender
  <2>3. queue' = SubSeq(queue, Len(r.chunk) + 1, Len(queue))
    BY <1>2, <1>7
  <2>4. SqHolds(n)'
    BY <1>7, <2>2, <2>3, SqLeaves
  <2>5. sender' = [sender EXCEPT ![s] = n]
    BY <1>7, <2>1
  <2> QED BY <2>4, <2>5
<1>8. CASE ChunkTaken(s) /\ signal # "logs"
  <2>1. /\ r.at = "sending" /\ received' = received \cup Range(r.chunk) /\ queue' = Rest(s)
        /\ sender' = [sender EXCEPT ![s].at = "count", ![s].why = "taken"]
        /\ UNCHANGED <<delivered, lost, signal, offered, attempts, gated, pinned, sdk, late, writtenOff, spent>>
    BY <1>2, <1>8 DEF ChunkTaken
  <2>2. received' \subseteq 1..MaxEntries
    BY <1>1, <2>1
  <2> QED BY <1>1, <1>7, <2>1, <2>2
<1>9. CASE RemoveChunk(s)
  <2>1. r.at = "remove"
    BY <1>9 DEF RemoveChunk
  <2>2. r.left - Len(r.chunk) \in 0..QueueLimit
    <3>1. r.at \in {"sending", "remove"}
      BY <2>1
    <3>2. Len(r.chunk) \in 1..r.left
      BY <1>0, <3>1 DEF SqAt
    <3>3. \A a, b, c \in Nat : a \in 1..b /\ b =< c => b - a \in 0..c
      OBVIOUS
    <3> QED BY <1>1, <3>2, <3>3, Zenon
  <2>3. PICK n : n = [Idle EXCEPT !.at = "loop", !.left = r.left - Len(r.chunk)]
    OBVIOUS
  <2>4. n \in SqSender /\ n.at = "loop" /\ n.left = r.left - Len(r.chunk)
    BY <2>2, <2>3, SqGoesOn
  <2>5. /\ queue' = SubSeq(queue, Len(r.chunk) + 1, Len(queue)) /\ attempts' = 0 /\ gated' = FALSE
        /\ UNCHANGED <<signal, offered, pinned, sdk, late, received, delivered, lost, writtenOff, spent>>
    BY <1>2, <1>9 DEF RemoveChunk
  <2>6. SqHolds(n)'
    BY <2>1, <2>4, <2>5, SqRemoves
  <2>7. sender' = [sender EXCEPT ![s] = n]
    BY <1>9, <2>3 DEF RemoveChunk
  <2> QED BY <2>6, <2>7
<1>10. CASE SendCancelled(s)
  <2>1. received \subseteq received' /\ received' \subseteq 1..MaxEntries
    BY <1>1, <1>2, <1>10 DEF SendCancelled
  <2>2. SqHolds(Idle)'
    BY <1>1, <1>3, <1>10, <2>1, SqRests DEF SendCancelled
  <2> QED BY <1>3, <1>10, <2>2 DEF SendCancelled
<1>11. CASE SendFails(s)
  <2>1. /\ r.at = "sending" /\ received' \in {received, received \cup Range(r.chunk)}
        /\ attempts' = attempts + 1
        /\ spent' = [e \in DOMAIN spent |->
                       IF signal = "spans" /\ e \in Range(r.chunk) THEN spent[e] + 1 ELSE spent[e]]
        /\ UNCHANGED <<signal, offered, pinned, late, delivered, lost, writtenOff>>
    BY <1>2, <1>11 DEF SendFails
  <2>2. received \subseteq received' /\ received' \subseteq 1..MaxEntries /\ received' \subseteq received \cup Range(r.chunk)
    BY <1>1, <2>1
  <2>3. r.at # "count"
    BY <2>1
  <2>4. attempts < SendAttempts
    BY <1>0, <2>3 DEF SqBudget
  <2>5. CASE attempts + 1 >= SendAttempts
    <3>1. /\ queue' = Rest(s) /\ sender' = [sender EXCEPT ![s].at = "count", ![s].why = "exhausted"]
          /\ UNCHANGED <<gated, sdk>>
      BY <1>11, <2>5 DEF SendFails, Dropped
    <3>2. attempts' = SendAttempts /\ attempts' \in 0..SendAttempts
      BY <1>1, <2>1, <2>4, <2>5
    <3>3. /\ spent' \in [1..MaxEntries -> Nat]
          /\ \A e \in 1..MaxEntries :
               spent'[e] = IF signal = "spans" /\ e \in Range(r.chunk) THEN spent[e] + 1 ELSE spent[e]
      BY <1>1, <2>1
    <3>4. ASSUME signal = "spans", NEW e \in Range(r.chunk) PROVE spent'[e] = SendAttempts
      <4>1. PICK i \in 1..Len(r.chunk) : e = r.chunk[i]
        BY <1>1, RangeShows
      <4>2. PICK rest : rest = SubSeq(queue, Len(r.chunk) + 1, Len(queue))
        OBVIOUS
      <4>3. r.at \in {"sending", "remove"}
        BY <2>1
      <4>4. Len(r.chunk) \in 1..Len(queue) /\ r.chunk[i] = queue[i]
        <5>1. SqCut(r, Len(r.chunk), rest)
          BY <4>2, <4>3, SqPrefix, Zenon
        <5> QED BY <4>1, <5>1, Zenon DEF SqCut
      <4>5. pinned = Len(r.chunk)
        BY <1>0, <2>1, <3>4 DEF SqAt
      <4>6. i \in 1..Len(queue) /\ i =< pinned
        BY <1>1, <4>4, <4>5
      <4>7. spent[queue[i]] = attempts
        BY <1>0, <2>3, <3>4, <4>6 DEF SqBudget
      <4>8. spent[e] = attempts /\ e \in 1..MaxEntries
        BY <1>1, <4>1, <4>4, <4>7
      <4> QED BY <2>1, <3>2, <3>3, <3>4, <4>8
    <3> QED BY <1>1, <1>7, <2>1, <2>2, <3>1, <3>2, <3>3, <3>4
  <2>6. CASE ~(attempts + 1 >= SendAttempts)
    <3>1. gated' \in BOOLEAN /\ SenderEnds(s) /\ UNCHANGED queue
      BY <1>11, <2>6 DEF SendFails
    <3>2. attempts + 1 < SendAttempts
      BY <1>1, <2>6
    <3>3. SqHolds(Idle)'
      BY <1>3, <2>1, <2>2, <3>1, <3>2, SqRetries
    <3> QED BY <1>3, <3>1, <3>3
  <2> QED BY <2>5, <2>6
<1>12. CASE SendRefused(s)
  <2>1. /\ r.at = "sending" /\ queue' = Rest(s)
        /\ sender' = [sender EXCEPT ![s].at = "count", ![s].why = "refused"]
        /\ UNCHANGED <<signal, offered, attempts, gated, pinned, sdk, late, received, delivered, lost, writtenOff, spent>>
    BY <1>12 DEF SendRefused, Dropped
  <2> QED BY <1>1, <1>7, <2>1
<1>13. CASE CountChunk(s)
  <2>1. /\ r.at = "count" /\ attempts' = 0 /\ pinned' = 0 /\ gated' = FALSE
        /\ UNCHANGED <<signal, queue, offered, late, received, writtenOff, spent>>
    BY <1>13 DEF CountChunk
  <2>2. \/ r.why = "taken" /\ delivered' = delivered \cup Range(r.chunk) /\ lost' = lost
        \/ lost' = lost \cup Range(r.chunk) /\ delivered' = delivered
    BY <1>2, <1>13 DEF CountChunk
  <2>3. PICK n : n = [Idle EXCEPT !.at = "loop", !.left = r.left - Len(r.chunk)]
    OBVIOUS
  <2>4. n \in SqSender /\ n.at = "loop" /\ n.left = r.left - Len(r.chunk)
    <3>1. SqInHand(r)
      BY DEF SqHolds
    <3>2. Len(r.chunk) =< r.left
      BY <2>1, <3>1 DEF SqInHand
    <3>3. \A a, b, c \in Nat : a =< b /\ b =< c => b - a \in 0..c
      OBVIOUS
    <3>4. r.left - Len(r.chunk) \in 0..QueueLimit
      BY <1>1, <3>2, <3>3, Zenon
    <3> QED BY <2>3, <3>4, SqGoesOn
  <2>5. CASE r.why # "taken" /\ signal = "spans"
    <3>1. SenderEnds(s)
      BY <1>13, <2>5 DEF CountChunk
    <3>2. SqHolds(Idle)'
      BY <1>3, <2>1, <2>2, <3>1, SqIdleFits, SqCounts
    <3> QED BY <1>3, <3>1, <3>2
  <2>6. CASE ~(r.why # "taken" /\ signal = "spans")
    <3>1. sender' = [sender EXCEPT ![s] = n] /\ UNCHANGED sdk
      BY <1>13, <2>3, <2>6 DEF CountChunk
    <3>2. SqHolds(n)'
      BY <1>1, <2>1, <2>2, <2>4, <3>1, SqCounts
    <3> QED BY <3>1, <3>2
  <2> QED BY <2>5, <2>6
<1> QED
  BY <1>4, <1>5, <1>6, <1>8, <1>9, <1>10, <1>11, <1>12, <1>13 DEF FlushSteps

LEMMA SqSteps == SqInv /\ [SdkNext]_sdkVars => SqInv'
<1> SUFFICES ASSUME SqInv, [SdkNext]_sdkVars PROVE SqInv'
  OBVIOUS
<1>1. PICK r : SqHolds(r) /\ \E s \in Sender : sender = [o \in Sender |-> IF o = s THEN r ELSE Idle]
  BY DEF SqInv
<1>2. PICK s \in Sender : sender = [o \in Sender |-> IF o = s THEN r ELSE Idle]
  BY <1>1
<1>3. DOMAIN sender = Sender /\ sender[s] = r /\ \A o \in Sender : o # s => sender[o].at = "off"
  BY <1>2 DEF Idle
<1>4. ASSUME NEW n, SqHolds(n)', sender' = sender, n = r PROVE SqInv'
  <2>1. sender' = [o \in Sender |-> IF o = s THEN n ELSE Idle]
    BY <1>2, <1>4
  <2> QED BY <1>4, <2>1 DEF SqInv
<1>5. ASSUME NEW n, SqHolds(n)', NEW t \in Sender, sender' = [sender EXCEPT ![t] = n], t = s \/ r = Idle PROVE SqInv'
  <2>1. sender' = [o \in Sender |-> IF o = t THEN n ELSE Idle]
    BY <1>2, <1>5
  <2>2. \E u \in Sender : sender' = [o \in Sender |-> IF o = u THEN n ELSE Idle]
    BY <1>5, <2>1, Zenon
  <2> QED BY <1>5, <2>2, Zenon DEF SqInv
<1>6. SqTyped /\ SqEnd /\ (r.at = "off" => r = Idle)
  BY <1>1 DEF SqHolds, SqAt
<1>7. /\ sdk \in {"open", "closing", "drained", "flushed", "finalized"} /\ gated \in BOOLEAN /\ late \in BOOLEAN
      /\ late \/ writtenOff # <<>> => sdk # "open"
  BY <1>6 DEF SqTyped, SqEnd
<1>8. CASE AdmitEntry
  <2>1. sender' = sender
    BY <1>8 DEF AdmitEntry
  <2>2. SqHolds(r)'
    BY <1>1, <1>8, SqAdmit
  <2> QED BY <1>4, <2>1, <2>2
<1>9. ASSUME NEW t \in Sender, BeginFlush(t) PROVE SqInv'
  <2>1. r = Idle
    BY <1>3, <1>6, <1>9 DEF BeginFlush, FlushFree
  <2>2. PICK n : n = [Idle EXCEPT !.at = "loop", !.left = Len(queue)]
    OBVIOUS
  <2>3. UNCHANGED <<signal, offered, sdk, late, writtenOff, flushing>> /\ sender' = [sender EXCEPT ![t] = n]
    BY <1>9, <2>2 DEF BeginFlush
  <2>4. SqHolds(n)'
    BY <1>1, <2>1, <2>2, <2>3, SqBegins
  <2> QED BY <1>5, <2>1, <2>3, <2>4
<1>10. ASSUME NEW t \in Sender, FlushSteps(t) PROVE SqInv'
  <2>1. sender[t].at # "off"
    BY <1>10 DEF FlushSteps, FlushPauses, SendChunk, ChunkTaken, RemoveChunk, SendCancelled, SendFails, SendRefused, CountChunk
  <2>2. t = s
    BY <1>3, <2>1
  <2>3. PICK n : SqHolds(n)' /\ sender' = [sender EXCEPT ![t] = n]
    BY <1>1, <1>3, <1>10, <2>2, SqFlushes
  <2> QED BY <1>5, <2>2, <2>3
<1>11. CASE BackoffEnds \/ BeginShutdown \/ WorkerExits \/ FinalGivesUp \/ ShutdownDeadline \/ UNCHANGED sdkVars
  <2>1. /\ UNCHANGED <<signal, queue, offered, attempts, pinned, received, delivered, lost, writtenOff, spent, sender>>
        /\ gated' \in BOOLEAN /\ late' \in BOOLEAN /\ sdk' \in {"open", "closing", "drained", "flushed", "finalized"}
        /\ late' \/ writtenOff # <<>> => sdk' # "open"
    <3>1. UNCHANGED <<signal, queue, offered, attempts, pinned, received, delivered, lost, writtenOff, spent, sender>>
      BY <1>11 DEF BackoffEnds, BeginShutdown, WorkerExits, FinalGivesUp, ShutdownDeadline, flushing, sdkVars
    <3>2. gated' \in BOOLEAN /\ late' \in BOOLEAN
      <4>1. (gated' = FALSE \/ gated' = gated) /\ (late' = TRUE \/ late' = late)
        BY <1>11 DEF BackoffEnds, BeginShutdown, WorkerExits, FinalGivesUp, ShutdownDeadline, flushing, sdkVars
      <4> QED BY <1>7, <4>1
    <3>3. sdk' \in {sdk, "closing", "drained", "flushed"} /\ ((late' = late) \/ (sdk # "open" /\ sdk' = sdk))
      BY <1>11 DEF BackoffEnds, BeginShutdown, WorkerExits, FinalGivesUp, ShutdownDeadline, Closing, sdkVars
    <3>4. sdk' \in {"open", "closing", "drained", "flushed", "finalized"}
      BY <1>7, <3>3
    <3>5. late' \/ writtenOff # <<>> => sdk' # "open"
      BY <1>7, <3>3
    <3> QED BY <3>1, <3>2, <3>4, <3>5
  <2>2. SqHolds(r)'
    BY <1>1, <2>1, SqQuiet
  <2> QED BY <1>4, <2>1, <2>2
<1>12. CASE (Finalize /\ writtenOff # <<>>)
  <2>1. /\ UNCHANGED <<signal, queue, offered, attempts, pinned, received, delivered, lost, writtenOff, spent, sender, gated, late>>
        /\ sdk' = "finalized"
    BY <1>12 DEF Finalize, RecordShutdownLoss
  <2>2. SqHolds(r)'
    BY <1>1, <1>7, <2>1, SqQuiet
  <2> QED BY <1>4, <2>1, <2>2
<1>13. CASE (Finalize /\ writtenOff = <<>>) \/ ShutdownTimesOut
  <2>1. /\ UNCHANGED <<signal, queue, offered, attempts, gated, pinned, late, received, delivered, spent, sender>>
        /\ writtenOff = <<>> /\ writtenOff' = <<Range(queue)>> /\ lost' = lost \cup Range(queue)
        /\ sdk' \in {"closing", "drained", "flushed", "finalized"}
    BY <1>7, <1>13 DEF Finalize, ShutdownTimesOut, RecordShutdownLoss
  <2>2. SqHolds(r)'
    BY <1>1, <2>1, SqWritesOff
  <2> QED BY <1>4, <2>1, <2>2
<1> QED
  BY <1>8, <1>9, <1>10, <1>11, <1>12, <1>13 DEF SdkNext

LEMMA SqMeans == SqInv => SdkTypeOK /\ SdkSound
<1> SUFFICES ASSUME SqInv PROVE SdkTypeOK /\ SdkSound
  OBVIOUS
<1>1. PICK r : SqHolds(r) /\ \E s \in Sender : sender = [o \in Sender |-> IF o = s THEN r ELSE Idle]
  BY DEF SqInv
<1>2. PICK s \in Sender : sender = [o \in Sender |-> IF o = s THEN r ELSE Idle]
  BY <1>1
<1>3. sender[s] = r /\ \A o \in Sender : o # s => sender[o] = Idle
  BY <1>2
<1>4. SqTyped /\ SqEnd /\ SqAt(r) /\ SqInHand(r) /\ SqBooks(r) /\ r \in SqSender
  BY <1>1 DEF SqHolds, SqAt
<1>5. SdkTypeOK
  <2>1. \A o \in Sender : sender[o] \in SqSender
    BY <1>3, <1>4, SqIdleFits
  <2>2. Len(writtenOff) =< 1
    <3>1. writtenOff = <<>> \/ \E set \in SUBSET (1..MaxEntries) : writtenOff = <<set>>
      BY <1>4 DEF SqTyped
    <3>2. CASE writtenOff = <<>>
      BY <3>2
    <3>3. ASSUME NEW set, writtenOff = <<set>> PROVE Len(writtenOff) =< 1
      BY <3>3
    <3> QED BY <3>1, <3>2, <3>3
  <2>3. delivered \subseteq 1..MaxEntries
    BY <1>4 DEF SqTyped
  <2> QED BY <1>4, <2>1, <2>2, <2>3 DEF SqTyped, SqSender, SdkTypeOK
<1>6. InHand = IF r.at = "count" THEN Range(r.chunk) ELSE {}
  <2>1. \A o \in Sender : sender[o].at = "count" => o = s
    BY <1>3 DEF Idle
  <2>2. CASE r.at = "count"
    <3>1. {o \in Sender : sender[o].at = "count"} = {s}
      BY <1>3, <2>1, <2>2
    <3> QED BY <1>3, <2>2, <3>1 DEF InHand, Sent
  <2>3. CASE r.at # "count"
    <3>1. {o \in Sender : sender[o].at = "count"} = {}
      BY <1>3, <2>1, <2>3
    <3> QED BY <2>3, <3>1 DEF InHand
  <2> QED BY <2>2, <2>3
<1>7. EntriesAccounted
  <2>1. Range(r.chunk) \subseteq 1..offered \/ r.at # "count"
    BY <1>4 DEF SqInHand
  <2>2. 1..offered = Range(queue) \cup delivered \cup lost \cup InHand
    BY <1>4, <1>6, <2>1 DEF SqBooks
  <2> QED BY <1>4, <2>2 DEF EntriesAccounted, SqBooks, SqTyped, SqWritten
<1>8. ShutdownTells
  BY <1>4 DEF SqEnd, ShutdownTells, SqWritten
<1>9. SpansKeepTheirBudget
  <2> SUFFICES ASSUME NEW o \in Sender, signal = "spans", sender[o].at = "count", sender[o].why = "exhausted"
               PROVE  \A e \in Sent(o) : spent[e] = SendAttempts
    BY DEF SpansKeepTheirBudget
  <2>1. sender[o] = r
    BY <1>3 DEF Idle
  <2> QED BY <1>4, <2>1 DEF SqInHand, Sent
<1> QED BY <1>5, <1>7, <1>8, <1>9 DEF SdkSound

(* The Go client's queues, sdk/go/observe.go and traces.go: every entry is *)
(* queued, delivered, counted as lost or in the hands of the one sender    *)
(* that has the mutex, and not two of these but what a shutdown wrote off  *)
(* while it was sent; a shutdown that has returned has reported what it    *)
(* left; and a span is given up only after all attempts of the budget.     *)
THEOREM SdkTheorem == SdkInit /\ [][SdkNext]_sdkVars => [](SdkTypeOK /\ SdkSound)
<1>1. SdkInit => SqInv
  BY SdkStarts
<1>2. SqInv /\ [SdkNext]_sdkVars => SqInv'
  BY SqSteps
<1>3. SqInv => SdkTypeOK /\ SdkSound
  BY SqMeans
<1> QED BY <1>1, <1>2, <1>3, PTL

-----------------------------------------------------------------------------
(***************************************************************************)
(* The metrics of the Go client.                                           *)
(***************************************************************************)

MtWork == [at : {"off", "loop", "detached", "sending", "remove", "lose"}, snapped : BOOLEAN,
           envelopes : Seq(SUBSET Points), of : SUBSET Points]

MtTyped ==
  /\ observed \in 0..MaxObservations /\ refused \subseteq 1..observed
  /\ total \in [Counter -> SUBSET (1..observed)] /\ dirty \in [Counter -> BOOLEAN]
  /\ gauges \in Seq(Gauge \X (1..observed)) /\ interval \in [Histogram -> SUBSET (1..observed)]
  /\ seriesKeys \subseteq Series /\ bounded \subseteq Histogram
  /\ pending \in Seq(SUBSET Points) /\ tries \in 0..(MetricTries - 1) /\ held \in BOOLEAN
  /\ client \in {"open", "closing", "drained", "flushed", "finalized"} /\ ctxDone \in BOOLEAN
  /\ flusher \in [Flusher -> MtWork]
  /\ tally \in [at : {"off", "live", "done"}, points : SUBSET Points]
  /\ arrived \subseteq Points /\ counted \subseteq Points /\ dropped \subseteq Points

\* What the buffer holds has its series, and the bytes are counted.
MtKept ==
  /\ IsFiniteSet(seriesKeys) /\ bounded \subseteq seriesKeys
  /\ Cardinality(seriesKeys) =< SeriesLimit /\ bytes =< ByteLimit
  /\ bytes = Cardinality(seriesKeys) + Cardinality(bounded) + Len(gauges)
  /\ \A c \in Counter : /\ dirty[c] => total[c] # {}
                        /\ total[c] # {} => c \in seriesKeys
  /\ \A h \in Histogram : interval[h] # {} => h \in bounded
  /\ \A p \in Range(gauges) : p[1] \in seriesKeys

\* One flusher at most is at work, and holds what is on its way.
MtWorks ==
  /\ \A f, g \in Flusher : flusher[f].at # "off" /\ flusher[g].at # "off" => f = g
  /\ \A f \in Flusher :
       /\ flusher[f].at # "detached" => flusher[f].envelopes = <<>>
       /\ flusher[f].at = "detached" => pending = <<>>
       /\ flusher[f].at \in {"sending", "remove"} => pending # <<>> /\ flusher[f].of = Head(pending)
       /\ flusher[f].at = "remove" => flusher[f].of \subseteq counted
  /\ tally.at = "off" => tally.points = {}
  /\ tally.at # "off" \/ ctxDone => client # "open"

MtCovered ==
  /\ \A n \in 1..observed :
       \/ n \in refused \/ \E c \in Counter : n \in total[c]
       \/ \E p \in LivePoints \cup Elsewhere : n \in p[2]
  /\ \A c \in Counter : total[c] = {} \/ dirty[c] \/ <<c, total[c]>> \in Elsewhere

\* Points a snapshot has made, except the losses of the shutdown.
MtPassed == (UNION Range(pending)) \cup Detached \cup BeingLost \cup counted \cup (dropped \ tally.points)

\* What is live has an observation that no snapshot has seen.
MtFresh ==
  /\ \A p \in LivePoints, q \in MtPassed : p[1] = q[1] => ~(p[2] \subseteq q[2])
  /\ \A q \in MtPassed : q[2] \subseteq 1..observed

\* Points that are neither delivered nor lost yet.
MtOwed == Detached \cup BeingLost
          \cup {p \in UNION Range(pending) :
                  \A f \in Flusher : flusher[f].at = "remove" => p \notin flusher[f].of}

MtDisjoint(s) == \A i, j \in DOMAIN s : i # j => s[i] \cap s[j] = {}

\* A point is in one envelope, and delivered or lost once.
MtApart ==
  /\ MtDisjoint(pending) /\ \A f \in Flusher : MtDisjoint(flusher[f].envelopes)
  /\ BeingLost \cap UNION Range(pending) = {}
  /\ \A p \in MtOwed : p \notin counted /\ (p \in dropped => p \in tally.points)
  /\ counted \cap dropped \subseteq tally.points /\ counted \subseteq arrived

\* q is of the same counter as p, and later.
MtAhead(q, p) == p[1] \in Counter /\ q[1] = p[1] => q[2] \subseteq p[2]

MtOrdered(s) == \A i, j \in DOMAIN s : i =< j => \A p \in s[j], q \in s[i] : MtAhead(q, p)

\* A counter rises along the envelopes, up to its total.
MtRises ==
  /\ MtOrdered(pending) /\ \A f \in Flusher : MtOrdered(flusher[f].envelopes)
  /\ \A p \in (UNION Range(pending)) \cup Detached, q \in arrived : MtAhead(q, p)
  /\ \A q \in (UNION Range(pending)) \cup Detached \cup arrived :
       q[1] \in Counter => q[2] \subseteq total[q[1]]

MtInv == MtTyped /\ MtKept /\ MtWorks /\ MtCovered /\ MtFresh /\ MtApart /\ MtRises

MtConst == MaxObservations \in Nat /\ SeriesLimit \in Nat /\ ByteLimit \in Nat /\ MetricTries \in Nat \ {0}

LEMMA MtConstants == MtConst
  BY SdkMetricsAssumption DEF MtConst

-----------------------------------------------------------------------------
LEMMA MtSpread ==
  /\ \A s, p : p \in UNION Range(s) <=> \E i \in DOMAIN s : p \in s[i]
  /\ Range(<<>>) = {} /\ UNION Range(<<>>) = {}
<1>1. \A s : Range(s) = {s[i] : i \in DOMAIN s}
  BY DEF Range
<1>2. DOMAIN <<>> = {}
  OBVIOUS
<1> QED BY <1>1, <1>2

\* The envelopes behind the head.
LEMMA MtTail ==
  ASSUME NEW s \in Seq(SUBSET Points), s # <<>>
  PROVE  /\ Tail(s) \in Seq(SUBSET Points) /\ Head(s) \in SUBSET Points /\ 1 \in DOMAIN s /\ Head(s) = s[1]
         /\ \A i \in DOMAIN Tail(s) : i \in Nat /\ i + 1 \in DOMAIN s /\ i + 1 # 1 /\ Tail(s)[i] = s[i + 1]
         /\ UNION Range(s) = Head(s) \cup UNION Range(Tail(s))
         /\ MtDisjoint(s) => MtDisjoint(Tail(s)) /\ Head(s) \cap UNION Range(Tail(s)) = {}
         /\ MtOrdered(s) => /\ MtOrdered(Tail(s))
                            /\ \A p \in UNION Range(s), q \in Head(s) : MtAhead(q, p)
<1>1. /\ Tail(s) \in Seq(SUBSET Points) /\ Head(s) = s[1] /\ Len(s) \in Nat /\ Len(s) >= 1
      /\ DOMAIN s = 1..Len(s) /\ DOMAIN Tail(s) = 1..(Len(s) - 1)
      /\ \A i \in 1..(Len(s) - 1) : Tail(s)[i] = s[i + 1]
  <2>1. Len(s) \in Nat /\ Len(s) # 0 /\ DOMAIN s = 1..Len(s)
    BY LenProperties, EmptySeq
  <2>2. Tail(s) \in Seq(SUBSET Points) /\ Len(Tail(s)) = Len(s) - 1 /\ Head(s) = s[1]
        /\ \A i \in 1..Len(Tail(s)) : Tail(s)[i] = s[i + 1]
    BY HeadTailProperties
  <2>3. DOMAIN Tail(s) = 1..Len(Tail(s))
    BY <2>2, LenProperties
  <2> QED BY <2>1, <2>2, <2>3
<1>2. \A i \in DOMAIN Tail(s) : i \in Nat /\ i + 1 \in DOMAIN s /\ i + 1 # 1 /\ Tail(s)[i] = s[i + 1]
  BY <1>1
<1>3. 1 \in DOMAIN s /\ s[1] \in SUBSET Points
  <2>1. 1 \in DOMAIN s
    BY <1>1
  <2> QED BY <1>1, <2>1, ElementOfSeq
<1>4. \A i \in DOMAIN s : i = 1 \/ (i - 1 \in DOMAIN Tail(s) /\ Tail(s)[i - 1] = s[i] /\ i \in Nat)
  BY <1>1
<1>5. UNION Range(s) = Head(s) \cup UNION Range(Tail(s))
  <2>1. ASSUME NEW p \in UNION Range(s) PROVE p \in Head(s) \/ p \in UNION Range(Tail(s))
    <3>1. PICK i \in DOMAIN s : p \in s[i]
      BY MtSpread
    <3>2. CASE i = 1
      BY <1>1, <3>1, <3>2
    <3>3. CASE i # 1
      <4>1. i - 1 \in DOMAIN Tail(s) /\ p \in Tail(s)[i - 1]
        BY <1>4, <3>1, <3>3
      <4> QED BY <4>1, MtSpread
    <3> QED BY <3>2, <3>3
  <2>2. ASSUME NEW p \in UNION Range(Tail(s)) PROVE p \in UNION Range(s)
    <3>1. PICK i \in DOMAIN Tail(s) : p \in Tail(s)[i]
      BY MtSpread
    <3>2. i + 1 \in DOMAIN s /\ p \in s[i + 1]
      BY <1>2, <3>1
    <3> QED BY <3>2, MtSpread
  <2>3. \A p \in Head(s) : p \in UNION Range(s)
    BY <1>1, <1>3, MtSpread
  <2> QED BY <2>1, <2>2, <2>3
<1>6. ASSUME MtDisjoint(s) PROVE MtDisjoint(Tail(s)) /\ Head(s) \cap UNION Range(Tail(s)) = {}
  <2>1. MtDisjoint(Tail(s))
    <3> SUFFICES ASSUME NEW i \in DOMAIN Tail(s), NEW j \in DOMAIN Tail(s), i # j
                 PROVE  Tail(s)[i] \cap Tail(s)[j] = {}
      BY DEF MtDisjoint
    <3>1. i + 1 # j + 1
      BY <1>2
    <3> QED BY <1>2, <1>6, <3>1 DEF MtDisjoint
  <2>2. ASSUME NEW p \in Head(s), p \in UNION Range(Tail(s)) PROVE FALSE
    <3>1. PICK i \in DOMAIN Tail(s) : p \in Tail(s)[i]
      BY <2>2, MtSpread
    <3> QED BY <1>1, <1>2, <1>3, <1>6, <2>2, <3>1 DEF MtDisjoint
  <2> QED BY <2>1, <2>2
<1>7. ASSUME MtOrdered(s)
      PROVE  MtOrdered(Tail(s)) /\ \A p \in UNION Range(s), q \in Head(s) : MtAhead(q, p)
  <2>1. MtOrdered(Tail(s))
    <3> SUFFICES ASSUME NEW i \in DOMAIN Tail(s), NEW j \in DOMAIN Tail(s), i =< j,
                        NEW p \in Tail(s)[j], NEW q \in Tail(s)[i]
                 PROVE  MtAhead(q, p)
      BY DEF MtOrdered
    <3>1. i + 1 =< j + 1
      BY <1>2
    <3> QED BY <1>2, <1>7, <3>1 DEF MtOrdered
  <2>2. ASSUME NEW p \in UNION Range(s), NEW q \in Head(s) PROVE MtAhead(q, p)
    <3>1. PICK j \in DOMAIN s : p \in s[j]
      BY MtSpread
    <3>2. 1 =< j
      BY <1>1
    <3> QED BY <1>1, <1>3, <1>7, <3>1, <3>2 DEF MtOrdered
  <2> QED BY <2>1, <2>2
<1> QED BY <1>1, <1>2, <1>3, <1>5, <1>6, <1>7

\* Where one flusher works, it is the one that has envelopes or a loss.
LEMMA MtAlone ==
  ASSUME NEW F, NEW f \in Flusher,
         \A g \in Flusher : g # f => F[g].at = "off" /\ F[g].envelopes = <<>>
  PROVE  /\ UNION {UNION Range(F[g].envelopes) : g \in Flusher} = UNION Range(F[f].envelopes)
         /\ UNION {F[x].of : x \in {g \in Flusher : F[g].at = "lose"}}
              = IF F[f].at = "lose" THEN F[f].of ELSE {}
<1>1. \A g \in Flusher : g # f => UNION Range(F[g].envelopes) = {}
  BY MtSpread
<1>2. UNION {UNION Range(F[g].envelopes) : g \in Flusher} = UNION Range(F[f].envelopes)
  BY <1>1
<1>3. {g \in Flusher : F[g].at = "lose"} = IF F[f].at = "lose" THEN {f} ELSE {}
  OBVIOUS
<1> QED BY <1>2, <1>3

LEMMA MtOnly ==
  ASSUME MtTyped, MtWorks, NEW f \in Flusher,
         flusher[f].at # "off" \/ \A g \in Flusher : flusher[g].at = "off",
         \A g \in Flusher : g # f => flusher'[g] = flusher[g]
  PROVE  /\ \A g \in Flusher : g # f => /\ flusher[g].at = "off" /\ flusher[g].envelopes = <<>>
                                        /\ flusher'[g].at = "off" /\ flusher'[g].envelopes = <<>>
         /\ Detached = UNION Range(flusher[f].envelopes) /\ Detached' = UNION Range(flusher'[f].envelopes)
         /\ BeingLost = (IF flusher[f].at = "lose" THEN flusher[f].of ELSE {})
         /\ BeingLost' = (IF flusher'[f].at = "lose" THEN flusher'[f].of ELSE {})
<1>1. \A g \in Flusher : g # f => flusher[g].at = "off" /\ flusher[g].envelopes = <<>>
  BY DEF MtWorks
<1>2. \A g \in Flusher : g # f => flusher'[g].at = "off" /\ flusher'[g].envelopes = <<>>
  BY <1>1
<1>3. Detached = UNION Range(flusher[f].envelopes) /\ BeingLost = (IF flusher[f].at = "lose" THEN flusher[f].of ELSE {})
  BY <1>1, MtAlone DEF Detached, BeingLost
<1>4. Detached' = UNION Range(flusher'[f].envelopes) /\ BeingLost' = (IF flusher'[f].at = "lose" THEN flusher'[f].of ELSE {})
  BY <1>2, MtAlone DEF Detached, BeingLost
<1> QED BY <1>1, <1>2, <1>3, <1>4

-----------------------------------------------------------------------------
LEMMA MtFlows ==
  ASSUME MtInv, UNCHANGED <<observed, refused, liveVars>>,
         Elsewhere \subseteq Elsewhere', MtPassed' \subseteq MtPassed
  PROVE  MtKept' /\ MtCovered' /\ MtFresh'
<1>1. /\ LivePoints' = LivePoints /\ observed' = observed /\ refused' = refused /\ total' = total
      /\ dirty' = dirty
  BY DEF LivePoints, PointsOfCounters, PointsOfGauges, PointsOfHistograms, liveVars
<1>2. MtKept'
  BY DEF MtInv, MtKept, liveVars
<1>3. MtCovered'
  BY <1>1 DEF MtInv, MtCovered
<1>4. MtFresh'
  BY <1>1 DEF MtInv, MtFresh
<1> QED BY <1>2, <1>3, <1>4

\* What arrives is the head of what is pending.
LEMMA MtRising ==
  ASSUME MtInv, UNCHANGED total, Detached' = Detached,
         \A f \in Flusher : flusher'[f].envelopes = flusher[f].envelopes,
         pending' = pending \/ (pending # <<>> /\ pending' = Tail(pending)),
         arrived' = arrived \/ (/\ pending # <<>> /\ Detached = {}
                                /\ arrived' = arrived \cup Head(pending))
  PROVE  MtRises'
<1>1. pending \in Seq(SUBSET Points) /\ MtRises
  BY DEF MtInv, MtTyped
<1>2. MtOrdered(pending') /\ UNION Range(pending') \subseteq UNION Range(pending)
  <2>1. MtOrdered(pending)
    BY <1>1 DEF MtRises
  <2>2. CASE pending' = pending
    BY <2>1, <2>2
  <2>3. CASE pending # <<>> /\ pending' = Tail(pending)
    <3>1. UNION Range(pending) = Head(pending) \cup UNION Range(Tail(pending)) /\ MtOrdered(Tail(pending))
      BY <1>1, <2>1, <2>3, MtTail
    <3> QED BY <2>3, <3>1
  <2> QED BY <2>2, <2>3
<1>3. \A f \in Flusher : MtOrdered(flusher'[f].envelopes)
  BY <1>1 DEF MtRises
<1>4. \A p \in (UNION Range(pending')) \cup Detached', q \in arrived' : MtAhead(q, p)
  <2>1. CASE arrived' = arrived
    BY <1>1, <1>2, <2>1 DEF MtRises
  <2>2. CASE pending # <<>> /\ Detached = {} /\ arrived' = arrived \cup Head(pending)
    <3>1. \A p \in UNION Range(pending), q \in Head(pending) : MtAhead(q, p)
      BY <1>1, <2>2, MtTail DEF MtRises
    <3> QED BY <1>1, <1>2, <2>2, <3>1 DEF MtRises
  <2> QED BY <2>1, <2>2
<1>5. \A q \in (UNION Range(pending')) \cup Detached' \cup arrived' :
        q[1] \in Counter => q[2] \subseteq total'[q[1]]
  <2>1. pending # <<>> => Head(pending) \subseteq UNION Range(pending)
    BY <1>1, MtTail
  <2>2. arrived' \subseteq (UNION Range(pending)) \cup arrived
    BY <2>1
  <2>3. (UNION Range(pending')) \cup Detached' \cup arrived' \subseteq (UNION Range(pending)) \cup Detached \cup arrived
    BY <1>2, <2>2
  <2>4. \A q \in (UNION Range(pending)) \cup Detached \cup arrived : q[1] \in Counter => q[2] \subseteq total[q[1]]
    BY <1>1 DEF MtRises
  <2> QED BY ONLY <2>3, <2>4, UNCHANGED total
<1> QED BY <1>2, <1>3, <1>4, <1>5 DEF MtRises

LEMMA MtQuiet ==
  ASSUME MtInv, MtTyped', MtWorks',
         UNCHANGED <<observed, refused, liveVars, pending, counted, dropped, tally>>,
         \A f \in Flusher : flusher'[f].envelopes = flusher[f].envelopes,
         Detached' = Detached, BeingLost' = BeingLost, MtOwed' \subseteq MtOwed,
         arrived' = arrived \/ (/\ pending # <<>> /\ Detached = {}
                                /\ arrived' = arrived \cup Head(pending))
  PROVE  MtInv'
<1>1. Elsewhere' = Elsewhere /\ MtPassed' = MtPassed
  BY DEF Elsewhere, MtPassed
<1>2. MtKept' /\ MtCovered' /\ MtFresh'
  BY <1>1, MtFlows
<1>3. MtRises'
  BY MtRising DEF liveVars
<1>4. MtApart'
  <2>1. arrived \subseteq arrived'
    OBVIOUS
  <2> QED BY <2>1 DEF MtInv, MtApart
<1> QED BY <1>2, <1>3, <1>4 DEF MtInv

\* A flusher between two points where it holds nothing.
LEMMA MtQuietAt ==
  ASSUME MtInv, NEW f \in Flusher, MtTyped',
         UNCHANGED <<observed, refused, liveVars, pending, counted, dropped, tally>>,
         \A g \in Flusher : g # f => flusher'[g] = flusher[g],
         flusher[f].at \in {"off", "loop", "sending"},
         flusher[f].at = "off" => FlushMutexFree,
         flusher'[f].at \in {"off", "loop", "sending"}, flusher'[f].envelopes = <<>>,
         flusher'[f].at = "sending" => pending # <<>> /\ flusher'[f].of = Head(pending),
         tally.at # "off" \/ ctxDone' => client' # "open",
         arrived' = arrived \/ (/\ pending # <<>>
                                /\ arrived' = arrived \cup Head(pending))
  PROVE  MtInv'
<1>1. MtTyped /\ MtWorks
  BY DEF MtInv
<1>2. flusher[f].at # "off" \/ \A g \in Flusher : flusher[g].at = "off"
  BY DEF FlushMutexFree
<1>3. \A g \in Flusher : g # f => /\ flusher[g].at = "off" /\ flusher[g].envelopes = <<>>
                                  /\ flusher'[g].at = "off" /\ flusher'[g].envelopes = <<>>
  BY <1>1, <1>2, MtOnly
<1>4. flusher[f].envelopes = <<>>
  BY <1>1 DEF MtWorks
<1>5. Detached = {} /\ Detached' = {} /\ BeingLost = {} /\ BeingLost' = {}
  BY <1>1, <1>2, <1>4, MtOnly, MtSpread
<1>6. MtWorks'
  BY <1>1, <1>3 DEF MtWorks
<1>7. \A g \in Flusher : flusher'[g].envelopes = flusher[g].envelopes
  BY <1>3, <1>4
<1>8. MtOwed' \subseteq MtOwed
  <2>1. \A g \in Flusher : flusher[g].at # "remove" /\ flusher'[g].at # "remove"
    BY <1>3
  <2> QED BY <1>5, <2>1 DEF MtOwed
<1> QED BY <1>5, <1>6, <1>7, <1>8, MtQuiet

-----------------------------------------------------------------------------
LEMMA MtTypedOf ==
  ASSUME MtTyped, NEW f \in Flusher
  PROVE  /\ flusher \in [Flusher -> MtWork] /\ flusher[f] \in MtWork /\ AtRest \in MtWork
         /\ flusher[f].at \in {"off", "loop", "detached", "sending", "remove", "lose"}
         /\ flusher[f].snapped \in BOOLEAN /\ flusher[f].of \in SUBSET Points
         /\ flusher[f].envelopes \in Seq(SUBSET Points) /\ pending \in Seq(SUBSET Points)
<1>1. flusher \in [Flusher -> MtWork] /\ flusher[f] \in MtWork /\ pending \in Seq(SUBSET Points)
  BY DEF MtTyped
<1>2. AtRest \in MtWork
  BY DEF AtRest, MtWork
<1>3. /\ flusher[f].at \in {"off", "loop", "detached", "sending", "remove", "lose"}
      /\ flusher[f].snapped \in BOOLEAN /\ flusher[f].of \in SUBSET Points
      /\ flusher[f].envelopes \in Seq(SUBSET Points)
  BY <1>1 DEF MtWork
<1> QED BY <1>1, <1>2, <1>3

LEMMA MtBegins ==
  ASSUME MtInv, NEW f \in Flusher, BeginFlushMetrics(f)
  PROVE  MtInv'
<1>1. MtTyped /\ MtWorks
  BY DEF MtInv
<1>2. flusher[f].at = "off" /\ flusher[f].envelopes = <<>> /\ FlushMutexFree
  BY <1>1 DEF BeginFlushMetrics, FlushMutexFree, MtWorks
<1>3. flusher' = [flusher EXCEPT ![f] = [@ EXCEPT !.at = "loop"]] /\ [flusher[f] EXCEPT !.at = "loop"] \in MtWork
  BY <1>1, MtTypedOf DEF BeginFlushMetrics, MtWork
<1>4. flusher'[f].at = "loop" /\ flusher'[f].envelopes = <<>> /\ \A g \in Flusher : g # f => flusher'[g] = flusher[g]
  BY <1>1, <1>2, <1>3, MtTypedOf DEF MtWork
<1>5. flusher' \in [Flusher -> MtWork]
  BY <1>1, <1>3, MtTypedOf
<1>6. UNCHANGED <<observed, refused, liveVars, pending, tries, held, arrived, counted, dropped, endVars>>
  BY DEF BeginFlushMetrics
<1>7. MtTyped'
  BY <1>1, <1>5, <1>6 DEF MtTyped, liveVars, endVars
<1>8. tally.at # "off" \/ ctxDone' => client' # "open"
  BY <1>1, <1>6 DEF MtWorks, endVars
<1> QED BY <1>2, <1>4, <1>6, <1>7, <1>8, MtQuietAt DEF endVars

LEMMA MtEnds ==
  ASSUME MtInv, NEW f \in Flusher, FlushMetricsEnds(f)
  PROVE  MtInv'
<1>1. MtTyped /\ MtWorks
  BY DEF MtInv
<1>2. flusher[f].at = "loop" /\ flusher' = [flusher EXCEPT ![f] = AtRest]
      /\ client' \in {client, "flushed"}
  BY DEF FlushMetricsEnds, FlusherEnds
<1>3. UNCHANGED <<observed, refused, liveVars, pending, tries, held, arrived, counted, dropped, ctxDone, tally>>
  BY DEF FlushMetricsEnds
<1>4. flusher'[f] = AtRest /\ (\A g \in Flusher : g # f => flusher'[g] = flusher[g]) /\ flusher' \in [Flusher -> MtWork]
  BY <1>1, <1>2, MtTypedOf
<1>5. MtTyped'
  BY <1>1, <1>2, <1>3, <1>4 DEF MtTyped, liveVars
<1>6. tally.at # "off" \/ ctxDone' => client' # "open"
  BY <1>1, <1>2, <1>3 DEF MtWorks
<1> QED BY <1>2, <1>3, <1>4, <1>5, <1>6, MtQuietAt DEF AtRest

LEMMA MtPosts ==
  ASSUME MtInv, NEW f \in Flusher, PostMetrics(f)
  PROVE  MtInv'
<1>1. MtTyped /\ MtWorks
  BY DEF MtInv
<1>2. flusher[f].at = "loop" /\ pending # <<>>
      /\ flusher' = [flusher EXCEPT ![f] = [@ EXCEPT !.at = "sending", !.of = Head(pending)]]
  BY DEF PostMetrics
<1>3. UNCHANGED <<observed, refused, liveVars, pending, tries, held, arrived, counted, dropped, endVars>>
  BY DEF PostMetrics
<1>4. Head(pending) \in SUBSET Points
  BY <1>1, <1>2, MtTypedOf, MtTail
<1>5. [flusher[f] EXCEPT !.at = "sending", !.of = Head(pending)] \in MtWork
  BY <1>1, <1>4, MtTypedOf DEF MtWork
<1>6. /\ flusher'[f].at = "sending" /\ flusher'[f].of = Head(pending)
      /\ flusher'[f].envelopes = flusher[f].envelopes
      /\ \A g \in Flusher : g # f => flusher'[g] = flusher[g]
  BY <1>1, <1>2, MtTypedOf DEF MtWork
<1>7. flusher' \in [Flusher -> MtWork]
  BY <1>1, <1>2, <1>5, MtTypedOf
<1>8. MtTyped'
  BY <1>1, <1>3, <1>7 DEF MtTyped, liveVars, endVars
<1>9. (tally.at # "off" \/ ctxDone' => client' # "open") /\ flusher'[f].envelopes = <<>>
  BY <1>1, <1>2, <1>3, <1>6 DEF MtWorks, endVars
<1> QED BY <1>2, <1>3, <1>6, <1>8, <1>9, MtQuietAt DEF endVars

LEMMA MtCancels ==
  ASSUME MtInv, NEW f \in Flusher, PostCancelled(f)
  PROVE  MtInv'
<1>1. MtTyped /\ MtWorks
  BY DEF MtInv
<1>2. flusher[f].at = "sending" /\ flusher' = [flusher EXCEPT ![f] = AtRest]
      /\ client' \in {client, "flushed"} /\ arrived' \in {arrived, arrived \cup flusher[f].of}
  BY DEF PostCancelled, FlusherEnds
<1>3. UNCHANGED <<observed, refused, liveVars, pending, tries, held, counted, dropped, ctxDone, tally>>
  BY DEF PostCancelled
<1>4. flusher'[f] = AtRest /\ (\A g \in Flusher : g # f => flusher'[g] = flusher[g]) /\ flusher' \in [Flusher -> MtWork]
  BY <1>1, <1>2, MtTypedOf
<1>5. pending # <<>> /\ flusher[f].of = Head(pending) /\ flusher[f].of \in SUBSET Points
  BY <1>1, <1>2, MtTypedOf DEF MtWorks
<1>6. MtTyped'
  BY <1>1, <1>2, <1>3, <1>4, <1>5 DEF MtTyped, liveVars
<1>7. tally.at # "off" \/ ctxDone' => client' # "open"
  BY <1>1, <1>2, <1>3 DEF MtWorks
<1> QED BY <1>2, <1>3, <1>4, <1>5, <1>6, <1>7, MtQuietAt DEF AtRest

LEMMA MtRetries ==
  ASSUME MtInv, NEW f \in Flusher, PostMetricsFails(f), ~(tries + 1 >= MetricTries)
  PROVE  MtInv'
<1>1. MtTyped /\ MtWorks
  BY DEF MtInv
<1>2. flusher[f].at = "sending" /\ flusher' = [flusher EXCEPT ![f] = AtRest]
      /\ client' \in {client, "flushed"} /\ arrived' \in {arrived, arrived \cup flusher[f].of}
      /\ pending' = pending /\ tries' = tries + 1 /\ held' = (tries + 1 >= 2)
  BY DEF PostMetricsFails, FlusherEnds
<1>3. UNCHANGED <<observed, refused, liveVars, counted, dropped, ctxDone, tally>>
  BY DEF PostMetricsFails
<1>4. flusher'[f] = AtRest /\ (\A g \in Flusher : g # f => flusher'[g] = flusher[g]) /\ flusher' \in [Flusher -> MtWork]
  BY <1>1, <1>2, MtTypedOf
<1>5. pending # <<>> /\ flusher[f].of = Head(pending) /\ flusher[f].of \in SUBSET Points
  BY <1>1, <1>2, MtTypedOf DEF MtWorks
<1>6. tries' \in 0..(MetricTries - 1) /\ held' \in BOOLEAN
  <2>1. tries' \in 0..(MetricTries - 1)
    BY <1>1, <1>2, MtConstants DEF MtTyped, MtConst
  <2>2. held' \in BOOLEAN
    BY <1>2
  <2> QED BY <2>1, <2>2
<1>7. MtTyped'
  BY <1>1, <1>2, <1>3, <1>4, <1>5, <1>6 DEF MtTyped, liveVars
<1>8. tally.at # "off" \/ ctxDone' => client' # "open"
  BY <1>1, <1>2, <1>3 DEF MtWorks
<1> QED BY <1>2, <1>3, <1>4, <1>5, <1>7, <1>8, MtQuietAt DEF AtRest

\* Steps of the shutdown that move no point.
LEMMA MtShuts ==
  ASSUME MtInv,
         MetricsBackoffEnds \/ FinalMetricsGivesUp \/ CloseMetrics \/ LoopExits \/ CloseOverdue \/ MetricsFinalized
  PROVE  MtInv'
<1>1. MtTyped /\ MtWorks
  BY DEF MtInv
<1>2. /\ UNCHANGED <<observed, refused, liveVars, pending, tries, flusher, arrived, counted, dropped, tally>>
      /\ client' \in {client, "closing", "drained", "flushed", "finalized"}
      /\ held' \in BOOLEAN /\ ctxDone' \in BOOLEAN
      /\ ctxDone' # ctxDone => client' # "open"
      /\ client' = "open" => client = "open"
  BY <1>1, Zenon DEF MtTyped, MetricsBackoffEnds, FinalMetricsGivesUp, CloseMetrics, LoopExits, CloseOverdue,
                     MetricsFinalized, sendVars, endVars
<1>3. MtTyped'
  BY <1>1, <1>2 DEF MtTyped, liveVars
<1>4. MtWorks'
  BY <1>1, <1>2 DEF MtWorks
<1>5. Detached' = Detached /\ BeingLost' = BeingLost /\ MtOwed' = MtOwed
  BY <1>2 DEF Detached, BeingLost, MtOwed
<1> QED BY <1>2, <1>3, <1>4, <1>5, MtQuiet

-----------------------------------------------------------------------------
\* A series is named by its key (metrics.go:269, 308, 352): no key of a counter
\* is used for a gauge or a histogram too, as instruments are named.
MtKinds == Counter \cap (Gauge \cup Histogram) = {}

LEMMA MtLive ==
  ASSUME MtTyped
  PROVE  \A p \in LivePoints :
           /\ p \in Points /\ p[2] \subseteq 1..observed
           /\ MtKinds /\ p[1] \in Counter => p[2] = total[p[1]]
<1>1. MaxObservations \in Nat /\ observed \in Nat /\ observed =< MaxObservations
  BY MtConstants DEF MtConst, MtTyped
<1>2. 1..observed \subseteq 1..MaxObservations
  BY <1>1
<1>3. \A s \in Series, o \in SUBSET (1..observed) : <<s, o>> \in Points
  BY <1>2 DEF Points
<1>4. ASSUME NEW p \in PointsOfCounters PROVE \E c \in Counter : p = <<c, total[c]>> /\ total[c] \subseteq 1..observed
  BY DEF PointsOfCounters, MtTyped
<1>5. ASSUME NEW p \in PointsOfGauges PROVE \E s \in Gauge, n \in 1..observed : p = <<s, {n}>>
  <2>1. PICK g \in Range(gauges) : p = <<g[1], {g[2]}>>
    BY DEF PointsOfGauges
  <2>2. g \in Gauge \X (1..observed)
    <3>1. PICK i \in DOMAIN gauges : g = gauges[i]
      BY <2>1 DEF Range
    <3> QED BY <3>1, ElementOfSeq, LenProperties DEF MtTyped
  <2> QED BY <2>1, <2>2
<1>6. ASSUME NEW p \in PointsOfHistograms PROVE \E h \in Histogram : p = <<h, interval[h]>> /\ interval[h] \subseteq 1..observed
  BY DEF PointsOfHistograms, MtTyped
<1> SUFFICES ASSUME NEW p \in LivePoints
             PROVE  /\ p \in Points /\ p[2] \subseteq 1..observed
                    /\ MtKinds /\ p[1] \in Counter => p[2] = total[p[1]]
  OBVIOUS
<1>7. CASE p \in PointsOfCounters
  BY <1>3, <1>4, <1>7 DEF Series
<1>8. CASE p \in PointsOfGauges
  BY <1>3, <1>5, <1>8 DEF Series, MtKinds
<1>9. CASE p \in PointsOfHistograms
  BY <1>3, <1>6, <1>9 DEF Series, MtKinds
<1> QED BY <1>7, <1>8, <1>9 DEF LivePoints

LEMMA MtPacked ==
  ASSUME NEW L, L \subseteq Points, NEW first \in SUBSET L, \A p, q \in L : MtAhead(q, p),
         NEW es, es = IF first = L THEN <<first>> ELSE <<first, L \ first>>
  PROVE  /\ es \in Seq(SUBSET Points) /\ es # <<>> /\ UNION Range(es) = L
         /\ MtDisjoint(es) /\ MtOrdered(es)
<1>1. CASE first = L
  <2>1. es = <<L>>
    BY <1>1
  <2>2. es \in Seq(SUBSET Points) /\ es # <<>> /\ DOMAIN es = {1} /\ es[1] = L
    BY <2>1
  <2>3. UNION Range(es) = L
    BY <2>2, MtSpread
  <2> QED BY <2>2, <2>3 DEF MtDisjoint, MtOrdered
<1>2. CASE first # L
  <2>1. es = <<first, L \ first>>
    BY <1>2
  <2>2. /\ es \in Seq(SUBSET Points) /\ es # <<>> /\ DOMAIN es = {1, 2}
        /\ es[1] = first /\ es[2] = L \ first
    <3>1. \A A, B \in SUBSET Points : /\ <<A, B>> \in Seq(SUBSET Points) /\ <<A, B>> # <<>> /\ DOMAIN <<A, B>> = {1, 2}
                                      /\ <<A, B>>[1] = A /\ <<A, B>>[2] = B
      OBVIOUS
    <3>2. first \in SUBSET Points /\ L \ first \in SUBSET Points
      OBVIOUS
    <3> QED BY ONLY <2>1, <3>1, <3>2
  <2>3. UNION Range(es) = L
    <3>1. \A p : p \in UNION Range(es) <=> \E i \in {1, 2} : p \in es[i]
      BY <2>2, MtSpread
    <3>2. \A p : p \in UNION Range(es) <=> p \in first \/ p \in L \ first
      BY <2>2, <3>1
    <3> QED BY <3>2
  <2> QED BY <2>2, <2>3 DEF MtDisjoint, MtOrdered
<1> QED BY <1>1, <1>2

LEMMA MtSnapshots ==
  ASSUME MtInv, MtKinds, NEW f \in Flusher, SnapshotMetricRequests(f)
  PROVE  MtInv'
<1>1. MtTyped /\ MtWorks /\ flusher[f].at = "loop" /\ pending = <<>> /\ flusher[f].envelopes = <<>>
  BY DEF MtInv, MtWorks, SnapshotMetricRequests, SnapshotDue
<1>2. \A p \in LivePoints : p \in Points /\ p[2] \subseteq 1..observed
  BY <1>1, MtLive
<1>3. \A p, q \in LivePoints : MtAhead(q, p)
  BY <1>1, MtLive DEF MtAhead
<1>4. PICK es : /\ es \in Seq(SUBSET Points) /\ UNION Range(es) = LivePoints /\ MtDisjoint(es) /\ MtOrdered(es)
                /\ \/ es = <<>> /\ flusher' = [flusher EXCEPT ![f] = AtRest] /\ client' \in {client, "flushed"}
                   \/ /\ es # <<>> /\ client' = client
                      /\ flusher' = [flusher EXCEPT ![f] = [at |-> "detached", snapped |-> TRUE,
                                                            envelopes |-> es, of |-> {}]]
  <2>1. PICK es \in (IF LivePoints = {} THEN {<<>>} ELSE Packings) :
          IF es = <<>> THEN FlusherEnds(f)
          ELSE /\ flusher' = [flusher EXCEPT ![f] = [at |-> "detached", snapped |-> TRUE,
                                                     envelopes |-> es, of |-> {}]]
               /\ UNCHANGED client
    BY Zenon DEF SnapshotMetricRequests
  <2>2. CASE LivePoints = {}
    <3>1. es = <<>> /\ FlusherEnds(f)
      BY <2>1, <2>2
    <3>2. es \in Seq(SUBSET Points) /\ UNION Range(es) = LivePoints /\ MtDisjoint(es) /\ MtOrdered(es)
      BY <2>2, <3>1, MtSpread DEF MtDisjoint, MtOrdered
    <3> QED BY <3>1, <3>2 DEF FlusherEnds
  <2>3. CASE LivePoints # {}
    <3>1. PICK first \in SUBSET LivePoints : es = IF first = LivePoints THEN <<first>> ELSE <<first, LivePoints \ first>>
      BY <2>1, <2>3 DEF Packings
    <3>2. /\ es \in Seq(SUBSET Points) /\ es # <<>> /\ UNION Range(es) = LivePoints
          /\ MtDisjoint(es) /\ MtOrdered(es)
      BY <1>2, <1>3, <3>1, MtPacked
    <3> QED BY <2>1, <3>2
  <2> QED BY <2>2, <2>3
<1>5. /\ flusher' \in [Flusher -> MtWork] /\ flusher'[f].envelopes = es /\ flusher'[f].of = {}
      /\ flusher'[f].at \in {"off", "detached"} /\ (flusher'[f].at = "off" => es = <<>>)
      /\ \A g \in Flusher : g # f => flusher'[g] = flusher[g]
  <2>1. [at |-> "detached", snapped |-> TRUE, envelopes |-> es, of |-> {}] \in MtWork
    BY <1>4 DEF MtWork
  <2>2. flusher \in [Flusher -> MtWork] /\ AtRest \in MtWork
    BY <1>1, MtTypedOf
  <2>3. CASE es = <<>> /\ flusher' = [flusher EXCEPT ![f] = AtRest]
    <3>1. flusher' \in [Flusher -> MtWork] /\ flusher'[f] = AtRest /\ \A g \in Flusher : g # f => flusher'[g] = flusher[g]
      BY <2>2, <2>3
    <3> QED BY <2>3, <3>1 DEF AtRest
  <2>4. CASE flusher' = [flusher EXCEPT ![f] = [at |-> "detached", snapped |-> TRUE,
                                                envelopes |-> es, of |-> {}]]
    <3>1. /\ flusher' \in [Flusher -> MtWork] /\ \A g \in Flusher : g # f => flusher'[g] = flusher[g]
          /\ flusher'[f] = [at |-> "detached", snapped |-> TRUE, envelopes |-> es, of |-> {}]
      BY <2>1, <2>2, <2>4
    <3> QED BY <3>1
  <2> QED BY <1>4, <2>3, <2>4
<1>6. /\ Detached = {} /\ BeingLost = {} /\ UNION Range(pending) = {} /\ pending' = <<>>
      /\ Detached' = LivePoints /\ BeingLost' = {} /\ UNION Range(pending') = {}
      /\ \A g \in Flusher : g # f => /\ flusher'[g].at = "off" /\ flusher'[g].envelopes = <<>>
  <2>1. pending' = pending
    BY DEF SnapshotMetricRequests
  <2> QED BY <1>1, <1>4, <1>5, <2>1, MtOnly, MtSpread
<1>7. /\ dirty' = [c \in Counter |-> FALSE] /\ gauges' = <<>> /\ interval' = [h \in Histogram |-> {}]
      /\ seriesKeys' = {s \in seriesKeys : Survives(s)}
      /\ bytes' = Cardinality({s \in seriesKeys : Survives(s)}) + Cardinality(bounded)
      /\ UNCHANGED <<observed, refused, total, bounded, pending, tries, held, arrived,
                     counted, dropped, ctxDone, tally>>
  BY DEF SnapshotMetricRequests
<1>8. LivePoints' = {}
  <2>1. PointsOfCounters' = {} /\ PointsOfHistograms' = {}
    BY <1>7 DEF PointsOfCounters, PointsOfHistograms
  <2>2. PointsOfGauges' = {}
    <3>1. Range(gauges') = {}
      BY <1>7, MtSpread
    <3> QED BY <3>1 DEF PointsOfGauges
  <2> QED BY <2>1, <2>2 DEF LivePoints
<1>9. MtTyped'
  <2>1. /\ dirty' \in [Counter -> BOOLEAN] /\ gauges' \in Seq(Gauge \X (1..observed))
        /\ interval' \in [Histogram -> SUBSET (1..observed)] /\ seriesKeys' \subseteq seriesKeys
    BY <1>7
  <2>2. client' \in {"open", "closing", "drained", "flushed", "finalized"}
    BY <1>1, <1>4 DEF MtTyped
  <2> QED BY <1>1, <1>5, <1>7, <2>1, <2>2 DEF MtTyped
<1>10. MtKept'
  <2> DEFINE K == {s \in seriesKeys : Survives(s)}
  <2>1. IsFiniteSet(seriesKeys) /\ bounded \subseteq seriesKeys /\ K \subseteq seriesKeys
    BY DEF MtInv, MtKept
  <2>2. IsFiniteSet(K) /\ Cardinality(K) =< Cardinality(seriesKeys) /\ Cardinality(K) \in Nat
        /\ Cardinality(seriesKeys) \in Nat /\ Cardinality(bounded) \in Nat
    BY <2>1, FS_Subset, FS_CardinalityType
  <2>3. bounded \subseteq K
    BY <2>1 DEF Survives
  <2>4. \A c \in Counter : total[c] # {} => c \in K
    BY DEF MtInv, MtKept, Survives
  <2> HIDE DEF K
  <2>5. seriesKeys' = K /\ bytes' = Cardinality(K) + Cardinality(bounded)
    BY <1>7 DEF K
  <2>6. Len(gauges') = 0 /\ Range(gauges') = {}
    BY <1>7, MtSpread
  <2>7. Len(gauges) \in Nat /\ Cardinality(seriesKeys) =< SeriesLimit /\ bytes =< ByteLimit
        /\ bytes = Cardinality(seriesKeys) + Cardinality(bounded) + Len(gauges)
    BY <1>1, LenProperties DEF MtInv, MtKept, MtTyped
  <2>8. /\ Cardinality(seriesKeys') =< SeriesLimit /\ bytes' =< ByteLimit
        /\ bytes' = Cardinality(seriesKeys') + Cardinality(bounded') + Len(gauges')
    <3>1. bounded' = bounded /\ SeriesLimit \in Nat /\ ByteLimit \in Nat
      BY <1>7, MtConstants DEF MtConst
    <3>2. \A k, a, b, l, m, y \in Nat : k =< a /\ a =< m /\ a + b + l =< y => k =< m /\ k + b =< y /\ k + b + 0 = k + b
      OBVIOUS
    <3>3. Cardinality(seriesKeys) + Cardinality(bounded) + Len(gauges) =< ByteLimit
      BY <2>7
    <3>4. Cardinality(K) =< SeriesLimit /\ Cardinality(K) + Cardinality(bounded) =< ByteLimit
          /\ Cardinality(K) + Cardinality(bounded) + 0 = Cardinality(K) + Cardinality(bounded)
      BY ONLY <2>2, <2>7, <3>1, <3>2, <3>3
    <3> QED BY <2>5, <2>6, <3>1, <3>4
  <2>9. \A c \in Counter : ~dirty'[c]
    BY <1>7
  <2>10. \A h \in Histogram : interval'[h] = {}
    BY <1>7
  <2> QED BY <1>7, <2>2, <2>3, <2>4, <2>5, <2>6, <2>8, <2>9, <2>10 DEF MtKept
<1>11. MtWorks'
  <2>1. \A g, i \in Flusher : flusher'[g].at # "off" /\ flusher'[i].at # "off" => g = i
    BY <1>6
  <2>2. \A g \in Flusher :
          /\ flusher'[g].at # "detached" => flusher'[g].envelopes = <<>>
          /\ flusher'[g].at = "detached" => pending' = <<>>
          /\ flusher'[g].at \notin {"sending", "remove"}
    BY <1>5, <1>6
  <2>3. tally' = tally /\ ctxDone' = ctxDone /\ client' \in {client, "flushed"}
    BY <1>4, <1>7
  <2>4. /\ tally'.at = "off" => tally'.points = {}
        /\ tally'.at # "off" \/ ctxDone' => client' # "open"
    BY <1>1, <2>3 DEF MtWorks
  <2> QED BY <2>1, <2>2, <2>4 DEF MtWorks
<1>12. Elsewhere' = LivePoints \cup Elsewhere
  BY <1>6, <1>7 DEF Elsewhere
<1>13. MtCovered'
  <2>1. \A n \in 1..observed : \/ n \in refused \/ \E c \in Counter : n \in total[c]
                               \/ \E p \in Elsewhere' : n \in p[2]
    BY <1>12 DEF MtInv, MtCovered
  <2>2. ASSUME NEW c \in Counter PROVE total[c] = {} \/ <<c, total[c]>> \in Elsewhere'
    <3>1. dirty[c] => <<c, total[c]>> \in LivePoints
      BY DEF LivePoints, PointsOfCounters
    <3> QED BY <1>12, <3>1 DEF MtInv, MtCovered
  <2> QED BY <1>7, <2>1, <2>2 DEF MtCovered
<1>14. MtFresh'
  <2>1. MtPassed' = LivePoints \cup counted \cup (dropped \ tally.points)
    BY <1>6, <1>7 DEF MtPassed
  <2>2. \A q \in MtPassed' : q[2] \subseteq 1..observed'
    <3>1. observed' = observed /\ \A q \in MtPassed : q[2] \subseteq 1..observed
      BY <1>7 DEF MtInv, MtFresh
    <3>2. \A q \in counted \cup (dropped \ tally.points) : q \in MtPassed
      BY DEF MtPassed
    <3>3. \A q \in MtPassed' : q \in LivePoints \/ q \in MtPassed
      BY <2>1, <3>2
    <3> QED BY <1>2, <3>1, <3>3
  <2> QED BY <1>8, <2>2 DEF MtFresh
<1>15. MtApart'
  <2>1. MtOwed' = LivePoints
    BY <1>6 DEF MtOwed
  <2>2. ASSUME NEW p \in LivePoints PROVE p \notin MtPassed
    <3>1. \A q \in MtPassed : p[1] = q[1] => ~(p[2] \subseteq q[2])
      BY DEF MtInv, MtFresh
    <3> QED BY <3>1
  <2>3. \A p \in LivePoints : p \notin counted /\ (p \in dropped => p \in tally.points)
    BY <2>2 DEF MtPassed
  <2>4. MtDisjoint(<<>>)
    BY DEF MtDisjoint
  <2>5. \A g \in Flusher : MtDisjoint(flusher'[g].envelopes)
    BY <1>4, <1>5, <1>6, <2>4
  <2> QED BY <1>6, <1>7, <2>1, <2>3, <2>4, <2>5 DEF MtInv, MtApart
<1>16. MtRises'
  <2>1. MtOrdered(<<>>)
    BY DEF MtOrdered
  <2>2. \A g \in Flusher : MtOrdered(flusher'[g].envelopes)
    BY <1>4, <1>5, <1>6, <2>1
  <2>3. \A p \in LivePoints : p[1] \in Counter => p[2] = total[p[1]]
    BY <1>1, MtLive
  <2>4. \A q \in arrived : q[1] \in Counter => q[2] \subseteq total[q[1]]
    BY DEF MtInv, MtRises
  <2>5. \A p \in LivePoints, q \in arrived : MtAhead(q, p)
    BY <2>3, <2>4 DEF MtAhead
  <2>6. \A q \in LivePoints \cup arrived : q[1] \in Counter => q[2] \subseteq total[q[1]]
    BY <2>3, <2>4
  <2>7. /\ (UNION Range(pending')) \cup Detached' = LivePoints /\ MtOrdered(pending')
        /\ arrived' = arrived /\ total' = total
    BY <1>6, <1>7, <2>1
  <2> QED BY ONLY <2>2, <2>5, <2>6, <2>7 DEF MtRises
<1> QED BY <1>9, <1>10, <1>11, <1>13, <1>14, <1>15, <1>16 DEF MtInv

-----------------------------------------------------------------------------
LEMMA MtRetains ==
  ASSUME MtInv, NEW f \in Flusher, Retain(f)
  PROVE  MtInv'
<1> DEFINE e == flusher[f].envelopes
<1>1. MtTyped /\ MtWorks /\ flusher[f].at = "detached" /\ pending = <<>> /\ e \in Seq(SUBSET Points)
  BY MtTypedOf DEF MtInv, MtWorks, Retain
<1>2. /\ pending' = e /\ flusher' = [flusher EXCEPT ![f] = [@ EXCEPT !.at = "loop", !.envelopes = <<>>]]
      /\ UNCHANGED <<observed, refused, liveVars, tries, held, arrived, counted, dropped, endVars>>
  BY DEF Retain
<1>3. [flusher[f] EXCEPT !.at = "loop", !.envelopes = <<>>] \in MtWork
  BY <1>1, MtTypedOf DEF MtWork
<1>4. /\ flusher' \in [Flusher -> MtWork] /\ flusher'[f].at = "loop" /\ flusher'[f].envelopes = <<>>
      /\ \A g \in Flusher : g # f => flusher'[g] = flusher[g]
  BY <1>1, <1>2, <1>3, MtTypedOf DEF MtWork
<1>5. /\ \A g \in Flusher : g # f => /\ flusher[g].at = "off" /\ flusher'[g].at = "off" /\ flusher'[g].envelopes = <<>>
      /\ Detached = UNION Range(e) /\ Detached' = {} /\ BeingLost = {} /\ BeingLost' = {}
      /\ UNION Range(pending) = {}
  BY <1>1, <1>4, MtOnly, MtSpread
<1>6. MtTyped'
  BY <1>1, <1>2, <1>4 DEF MtTyped, liveVars, endVars
<1>7. MtWorks'
  BY <1>1, <1>2, <1>4, <1>5 DEF MtWorks, endVars
<1>8. Elsewhere' = Elsewhere /\ MtPassed' = MtPassed
  <2>1. UNION Range(pending') = UNION Range(e)
    BY <1>2
  <2>2. counted' = counted /\ dropped' = dropped /\ tally' = tally
    BY <1>2 DEF endVars
  <2>3. (UNION Range(pending')) \cup Detached' \cup BeingLost' = (UNION Range(pending)) \cup Detached \cup BeingLost
    BY ONLY <1>5, <2>1
  <2> QED BY ONLY <2>2, <2>3 DEF Elsewhere, MtPassed
<1>9. MtKept' /\ MtCovered' /\ MtFresh'
  BY <1>2, <1>8, MtFlows
<1>10. MtApart'
  <2>1. MtOwed' \subseteq MtOwed
    BY <1>2, <1>5 DEF MtOwed
  <2>2. MtDisjoint(<<>>)
    BY DEF MtDisjoint
  <2>3. MtDisjoint(e)
    BY DEF MtInv, MtApart
  <2>4. \A g \in Flusher : MtDisjoint(flusher'[g].envelopes)
    BY <1>4, <1>5, <2>2
  <2> QED BY <1>2, <1>5, <2>1, <2>3, <2>4 DEF MtInv, MtApart, endVars
<1>11. MtRises'
  <2>1. MtOrdered(<<>>)
    BY DEF MtOrdered
  <2>2. MtOrdered(e)
    BY DEF MtInv, MtRises
  <2>3. \A g \in Flusher : MtOrdered(flusher'[g].envelopes)
    BY <1>4, <1>5, <2>1
  <2>4. (UNION Range(pending')) \cup Detached' = (UNION Range(pending)) \cup Detached
    <3>1. UNION Range(pending') = UNION Range(e)
      BY <1>2
    <3> QED BY ONLY <1>5, <3>1
  <2> QED BY <1>2, <2>2, <2>3, <2>4 DEF MtInv, MtRises, liveVars
<1> QED BY <1>6, <1>7, <1>9, <1>10, <1>11 DEF MtInv

\* Where a request is under way, its envelope is the head of what is pending.
LEMMA MtSending ==
  ASSUME MtInv, NEW f \in Flusher, flusher[f].at \in {"sending", "remove"},
         \A g \in Flusher : g # f => flusher'[g] = flusher[g]
  PROVE  /\ MtTyped /\ MtWorks /\ pending \in Seq(SUBSET Points) /\ pending # <<>>
         /\ flusher[f].of = Head(pending) /\ flusher[f].envelopes = <<>>
         /\ Head(pending) \in SUBSET Points /\ Tail(pending) \in Seq(SUBSET Points)
         /\ UNION Range(pending) = Head(pending) \cup UNION Range(Tail(pending))
         /\ Head(pending) \cap UNION Range(Tail(pending)) = {}
         /\ MtDisjoint(Tail(pending)) /\ Detached = {} /\ BeingLost = {}
         /\ Detached' = UNION Range(flusher'[f].envelopes)
         /\ BeingLost' = (IF flusher'[f].at = "lose" THEN flusher'[f].of ELSE {})
         /\ \A g \in Flusher : g # f => /\ flusher[g].at = "off" /\ flusher[g].envelopes = <<>>
                                        /\ flusher'[g].at = "off" /\ flusher'[g].envelopes = <<>>
<1>1. MtTyped /\ MtWorks /\ pending \in Seq(SUBSET Points) /\ pending # <<>>
      /\ flusher[f].of = Head(pending) /\ flusher[f].envelopes = <<>> /\ flusher[f].at # "off"
  BY MtTypedOf DEF MtInv, MtWorks
<1>2. MtDisjoint(pending)
  BY DEF MtInv, MtApart
<1> QED BY <1>1, <1>2, MtTail, MtOnly, MtSpread

LEMMA MtTakes ==
  ASSUME MtInv, NEW f \in Flusher, MetricsTaken(f)
  PROVE  MtInv'
<1>1. /\ flusher[f].at = "sending" /\ flusher' = [flusher EXCEPT ![f] = [@ EXCEPT !.at = "remove"]]
      /\ arrived' = arrived \cup flusher[f].of /\ counted' = counted \cup flusher[f].of /\ tries' = 0
      /\ UNCHANGED <<observed, refused, liveVars, pending, held, dropped, endVars>>
  BY DEF MetricsTaken
<1>2. /\ flusher'[f] = [flusher[f] EXCEPT !.at = "remove"] /\ flusher' \in [Flusher -> MtWork]
      /\ flusher'[f].at = "remove" /\ flusher'[f].of = flusher[f].of /\ flusher'[f].envelopes = flusher[f].envelopes
      /\ \A g \in Flusher : g # f => flusher'[g] = flusher[g]
  <2>1. MtTyped
    BY DEF MtInv
  <2>2. [flusher[f] EXCEPT !.at = "remove"] \in MtWork
    BY <2>1, MtTypedOf DEF MtWork
  <2> QED BY <1>1, <2>1, <2>2, MtTypedOf DEF MtWork
<1> DEFINE h == Head(pending)
<1>3. /\ MtTyped /\ MtWorks /\ pending \in Seq(SUBSET Points) /\ pending # <<>>
      /\ flusher[f].of = h /\ flusher[f].envelopes = <<>> /\ h \in SUBSET Points
      /\ UNION Range(pending) = h \cup UNION Range(Tail(pending))
      /\ Detached = {} /\ BeingLost = {} /\ Detached' = {} /\ BeingLost' = {}
      /\ \A g \in Flusher : g # f => /\ flusher[g].at = "off" /\ flusher'[g].at = "off"
                                     /\ flusher[g].envelopes = <<>> /\ flusher'[g].envelopes = <<>>
  BY <1>1, <1>2, MtSending, MtSpread
<1> HIDE DEF h
<1>4. tries' \in 0..(MetricTries - 1)
  BY <1>1, MtConstants DEF MtConst
<1>5. MtTyped'
  BY <1>1, <1>2, <1>3, <1>4 DEF MtTyped, liveVars, endVars
<1>6. MtWorks'
  BY <1>1, <1>2, <1>3 DEF MtWorks, endVars, h
<1>7. Elsewhere \subseteq Elsewhere' /\ MtPassed' \subseteq MtPassed
  <2>1. pending' = pending /\ counted' = counted \cup h /\ dropped' = dropped /\ tally' = tally
    BY <1>1, <1>3 DEF endVars
  <2> QED BY ONLY <1>3, <2>1 DEF Elsewhere, MtPassed
<1>8. MtKept' /\ MtCovered' /\ MtFresh'
  BY <1>1, <1>7, MtFlows
<1>9. \A g \in Flusher : flusher'[g].envelopes = flusher[g].envelopes
  BY <1>2, <1>3
<1>10. MtRises'
  BY <1>1, <1>3, <1>9, MtRising DEF liveVars, h
<1>11. MtApart'
  <2>1. \A p \in MtOwed' : p \in MtOwed /\ p \notin h
    BY <1>1, <1>2, <1>3 DEF MtOwed
  <2>2. h \subseteq MtOwed
    <3>1. \A g \in Flusher : flusher[g].at # "remove"
      BY <1>1, <1>3
    <3> QED BY <1>3, <3>1 DEF MtOwed
  <2>3. MtApart
    BY DEF MtInv
  <2>4. MtDisjoint(pending') /\ \A g \in Flusher : MtDisjoint(flusher'[g].envelopes)
    BY <1>1, <1>9, <2>3 DEF MtApart
  <2>5. tally' = tally /\ dropped' = dropped /\ pending' = pending
    BY <1>1 DEF endVars
  <2>6. \A p \in MtOwed' : p \notin counted' /\ (p \in dropped' => p \in tally'.points)
    BY <1>1, <1>3, <2>1, <2>3, <2>5 DEF MtApart
  <2>7. counted' \cap dropped' \subseteq tally'.points /\ counted' \subseteq arrived'
    BY <1>1, <1>3, <2>2, <2>3, <2>5 DEF MtApart
  <2> QED BY <1>3, <2>4, <2>6, <2>7 DEF MtApart
<1> QED BY <1>5, <1>6, <1>8, <1>10, <1>11 DEF MtInv

LEMMA MtRemoves ==
  ASSUME MtInv, NEW f \in Flusher, RemoveEnvelope(f)
  PROVE  MtInv'
<1>1. /\ flusher[f].at = "remove" /\ flusher' = [flusher EXCEPT ![f] = [@ EXCEPT !.at = "loop", !.of = {}]]
      /\ pending' = Tail(pending)
      /\ UNCHANGED <<observed, refused, liveVars, tries, held, arrived, counted, dropped, endVars>>
  BY DEF RemoveEnvelope
<1>2. /\ flusher' \in [Flusher -> MtWork] /\ flusher'[f].at = "loop" /\ flusher'[f].envelopes = flusher[f].envelopes
      /\ \A g \in Flusher : g # f => flusher'[g] = flusher[g]
  <2>1. MtTyped
    BY DEF MtInv
  <2>2. [flusher[f] EXCEPT !.at = "loop", !.of = {}] \in MtWork
    BY <2>1, MtTypedOf DEF MtWork
  <2> QED BY <1>1, <2>1, <2>2, MtTypedOf DEF MtWork
<1> DEFINE h == Head(pending)
           t == Tail(pending)
<1>3. /\ MtTyped /\ MtWorks /\ pending \in Seq(SUBSET Points) /\ pending # <<>>
      /\ flusher[f].of = h /\ flusher[f].envelopes = <<>> /\ h \in SUBSET Points
      /\ t \in Seq(SUBSET Points) /\ MtDisjoint(t)
      /\ UNION Range(pending) = h \cup UNION Range(t) /\ h \cap UNION Range(t) = {}
      /\ Detached = {} /\ BeingLost = {} /\ Detached' = {} /\ BeingLost' = {}
      /\ \A g \in Flusher : g # f => /\ flusher[g].at = "off" /\ flusher'[g].at = "off"
                                     /\ flusher[g].envelopes = <<>> /\ flusher'[g].envelopes = <<>>
  BY <1>1, <1>2, MtSending, MtSpread
<1> HIDE DEF h, t
<1>4. h \subseteq counted /\ pending' = t
  BY <1>1, <1>3 DEF MtWorks, t
<1>5. MtTyped'
  BY <1>1, <1>2, <1>3, <1>4 DEF MtTyped, liveVars, endVars
<1>6. MtWorks'
  BY <1>1, <1>2, <1>3 DEF MtWorks, endVars
<1>7. Elsewhere \subseteq Elsewhere' /\ MtPassed' \subseteq MtPassed
  <2>1. counted' = counted /\ dropped' = dropped /\ tally' = tally
    BY <1>1 DEF endVars
  <2>2. UNION Range(pending') = UNION Range(t)
    BY <1>4
  <2> QED BY ONLY <1>3, <1>4, <2>1, <2>2 DEF Elsewhere, MtPassed
<1>8. MtKept' /\ MtCovered' /\ MtFresh'
  BY <1>1, <1>7, MtFlows
<1>9. \A g \in Flusher : flusher'[g].envelopes = flusher[g].envelopes
  BY <1>2, <1>3
<1>10. MtRises'
  BY <1>1, <1>3, <1>9, MtRising DEF liveVars
<1>11. MtApart'
  <2>1. MtOwed' \subseteq MtOwed
    BY <1>1, <1>3, <1>4 DEF MtOwed
  <2> QED BY <1>1, <1>3, <1>4, <1>9, <2>1 DEF MtInv, MtApart, endVars
<1> QED BY <1>5, <1>6, <1>8, <1>10, <1>11 DEF MtInv

\* The head is given up, its points not counted yet.
LEMMA MtDrops ==
  ASSUME MtInv, NEW f \in Flusher, flusher[f].at = "sending", DropPendingMetric(f),
         arrived' \in {arrived, arrived \cup flusher[f].of},
         UNCHANGED <<observed, refused, liveVars, counted, dropped, ctxDone, tally>>
  PROVE  MtInv'
<1>1. /\ flusher' = [flusher EXCEPT ![f] = [@ EXCEPT !.at = "lose"]]
      /\ pending' = Tail(pending) /\ tries' = 0 /\ UNCHANGED <<held, client>>
  BY DEF DropPendingMetric
<1>2. /\ flusher' \in [Flusher -> MtWork] /\ flusher'[f].at = "lose" /\ flusher'[f].of = flusher[f].of
      /\ flusher'[f].envelopes = flusher[f].envelopes
      /\ \A g \in Flusher : g # f => flusher'[g] = flusher[g]
  <2>1. MtTyped
    BY DEF MtInv
  <2>2. [flusher[f] EXCEPT !.at = "lose"] \in MtWork
    BY <2>1, MtTypedOf DEF MtWork
  <2> QED BY <1>1, <2>1, <2>2, MtTypedOf DEF MtWork
<1> DEFINE h == Head(pending)
           t == Tail(pending)
<1>3. /\ MtTyped /\ MtWorks /\ pending \in Seq(SUBSET Points) /\ pending # <<>>
      /\ flusher[f].of = h /\ flusher[f].envelopes = <<>> /\ h \in SUBSET Points
      /\ t \in Seq(SUBSET Points) /\ MtDisjoint(t)
      /\ UNION Range(pending) = h \cup UNION Range(t) /\ h \cap UNION Range(t) = {}
      /\ Detached = {} /\ BeingLost = {} /\ Detached' = {} /\ BeingLost' = h
      /\ \A g \in Flusher : g # f => /\ flusher[g].at = "off" /\ flusher'[g].at = "off"
                                     /\ flusher[g].envelopes = <<>> /\ flusher'[g].envelopes = <<>>
  BY <1>2, MtSending, MtSpread
<1>4. pending' = t /\ tries' \in 0..(MetricTries - 1)
  BY <1>1, MtConstants DEF MtConst
<1>5. MtRises'
  <2>1. \A g \in Flusher : flusher'[g].envelopes = flusher[g].envelopes
    BY <1>2, <1>3
  <2>2. arrived' = arrived \/ (pending # <<>> /\ Detached = {} /\ arrived' = arrived \cup Head(pending))
    BY <1>3
  <2> QED BY <1>1, <1>3, <2>1, <2>2, MtRising DEF liveVars
<1> HIDE DEF h, t
<1>6. MtTyped'
  BY <1>1, <1>2, <1>3, <1>4 DEF MtTyped, liveVars
<1>7. MtWorks'
  BY <1>1, <1>2, <1>3 DEF MtWorks
<1>8. Elsewhere \subseteq Elsewhere' /\ MtPassed' \subseteq MtPassed
  <2>1. counted' = counted /\ dropped' = dropped /\ tally' = tally
    OBVIOUS
  <2>2. UNION Range(pending') = UNION Range(t)
    BY <1>4
  <2> QED BY ONLY <1>3, <2>1, <2>2 DEF Elsewhere, MtPassed
<1>9. MtKept' /\ MtCovered' /\ MtFresh'
  BY <1>8, MtFlows
<1>10. MtApart'
  <2>1. MtOwed' \subseteq MtOwed
    <3>1. \A g \in Flusher : flusher[g].at # "remove"
      BY <1>3
    <3> QED BY <1>3, <1>4, <3>1 DEF MtOwed
  <2>2. \A g \in Flusher : MtDisjoint(flusher'[g].envelopes)
    BY <1>2, <1>3 DEF MtInv, MtApart
  <2>3. arrived \subseteq arrived'
    OBVIOUS
  <2> QED BY <1>3, <1>4, <2>1, <2>2, <2>3 DEF MtInv, MtApart
<1> QED BY <1>5, <1>6, <1>7, <1>9, <1>10 DEF MtInv

LEMMA MtLoses ==
  ASSUME MtInv, NEW f \in Flusher, MetricsLost(f)
  PROVE  MtInv'
<1>1. /\ flusher[f].at = "lose" /\ flusher' = [flusher EXCEPT ![f] = AtRest]
      /\ client' \in {client, "flushed"} /\ dropped' = dropped \cup flusher[f].of
      /\ UNCHANGED <<observed, refused, liveVars, pending, tries, held, arrived, counted, ctxDone, tally>>
  BY DEF MetricsLost, FlusherEnds
<1>2. /\ MtTyped /\ MtWorks /\ flusher[f].envelopes = <<>> /\ flusher[f].of \in SUBSET Points
      /\ flusher' \in [Flusher -> MtWork] /\ flusher'[f] = AtRest
      /\ \A g \in Flusher : g # f => flusher'[g] = flusher[g]
  BY <1>1, MtTypedOf DEF MtInv, MtWorks
<1>3. /\ Detached = {} /\ Detached' = {} /\ BeingLost = flusher[f].of /\ BeingLost' = {}
      /\ \A g \in Flusher : g # f => /\ flusher[g].at = "off" /\ flusher'[g].at = "off"
                                     /\ flusher[g].envelopes = <<>> /\ flusher'[g].envelopes = <<>>
  <2>1. AtRest.envelopes = <<>> /\ AtRest.at = "off"
    BY DEF AtRest
  <2> QED BY <1>1, <1>2, <2>1, MtOnly, MtSpread
<1>4. MtTyped'
  BY <1>1, <1>2 DEF MtTyped, liveVars
<1>5. MtWorks'
  BY <1>1, <1>2, <1>3 DEF MtWorks, AtRest
<1>6. Elsewhere \subseteq Elsewhere' /\ MtPassed' \subseteq MtPassed
  BY <1>1, <1>3 DEF Elsewhere, MtPassed
<1>7. MtKept' /\ MtCovered' /\ MtFresh'
  BY <1>1, <1>6, MtFlows
<1>8. \A g \in Flusher : flusher'[g].envelopes = flusher[g].envelopes
  BY <1>2, <1>3 DEF AtRest
<1>9. MtRises'
  BY <1>1, <1>3, <1>8, MtRising DEF liveVars
<1>10. MtApart'
  <2>1. MtApart
    BY DEF MtInv
  <2>2. MtOwed' \subseteq MtOwed /\ MtOwed' \subseteq UNION Range(pending) /\ BeingLost \subseteq MtOwed
    <3>1. \A g \in Flusher : flusher[g].at # "remove"
      BY <1>1, <1>3
    <3> QED BY <1>1, <1>3, <3>1 DEF MtOwed
  <2>3. MtDisjoint(pending') /\ \A g \in Flusher : MtDisjoint(flusher'[g].envelopes)
    BY <1>1, <1>8, <2>1 DEF MtApart
  <2>4. \A p \in MtOwed' : p \notin counted' /\ (p \in dropped' => p \in tally'.points)
    BY <1>1, <1>3, <2>1, <2>2 DEF MtApart
  <2>5. counted' \cap dropped' \subseteq tally'.points /\ counted' \subseteq arrived'
    BY <1>1, <1>3, <2>1, <2>2 DEF MtApart
  <2> QED BY <1>3, <2>3, <2>4, <2>5 DEF MtApart
<1> QED BY <1>4, <1>5, <1>7, <1>9, <1>10 DEF MtInv

LEMMA MtTallies ==
  ASSUME MtInv, TallyPending \/ TallyLive
  PROVE  MtInv'
<1>1. MtTyped /\ MtWorks /\ MtApart
  BY DEF MtInv
<1>2. UNION Range(pending) \subseteq Points /\ LivePoints \subseteq Points
  <2>1. \A i \in DOMAIN pending : pending[i] \in SUBSET Points
    BY <1>1, ElementOfSeq, LenProperties DEF MtTyped
  <2> QED BY <1>1, <2>1, MtSpread, MtLive
<1>3. /\ UNCHANGED <<observed, refused, liveVars, pending, tries, held, flusher, arrived, counted, client, ctxDone>>
      /\ tally' \in [at : {"off", "live", "done"}, points : SUBSET Points] /\ tally'.at # "off"
      /\ dropped \subseteq dropped' /\ dropped' \subseteq dropped \cup tally'.points
      /\ tally.points \subseteq tally'.points /\ client # "open"
  <2>1. CASE TallyPending
    <3>1. tally' = [at |-> "live", points |-> UNION Range(pending)] /\ tally.at = "off" /\ dropped' = dropped
      BY <2>1 DEF TallyPending, sendVars
    <3>2. client # "open"
      BY <1>1, <2>1 DEF TallyPending, MtWorks
    <3> QED BY <1>1, <1>2, <2>1, <3>1, <3>2 DEF TallyPending, sendVars, MtWorks
  <2>2. CASE TallyLive
    <3>1. /\ tally' = [at |-> "done", points |-> tally.points \cup LivePoints] /\ tally.at = "live"
          /\ dropped' = dropped \cup tally.points \cup LivePoints
      BY <2>2 DEF TallyLive
    <3>2. client # "open"
      BY <1>1, <3>1 DEF MtWorks
    <3>3. tally.points \subseteq Points
      BY <1>1 DEF MtTyped
    <3> QED BY <1>2, <2>2, <3>1, <3>2, <3>3 DEF TallyLive
  <2> QED BY <2>1, <2>2
<1>4. dropped' \subseteq Points
  BY <1>1, <1>3 DEF MtTyped
<1>5. MtTyped'
  BY <1>1, <1>3, <1>4 DEF MtTyped, liveVars
<1>6. MtWorks'
  BY <1>1, <1>3 DEF MtWorks
<1>7. Detached' = Detached /\ BeingLost' = BeingLost /\ MtOwed' = MtOwed
  BY <1>3 DEF Detached, BeingLost, MtOwed
<1>8. Elsewhere \subseteq Elsewhere' /\ MtPassed' \subseteq MtPassed
  BY <1>3, <1>7 DEF Elsewhere, MtPassed
<1>9. MtKept' /\ MtCovered' /\ MtFresh'
  BY <1>3, <1>8, MtFlows
<1>10. MtRises'
  BY <1>3, <1>7, MtRising DEF liveVars
<1>11. MtApart'
  BY <1>1, <1>3, <1>7 DEF MtApart
<1> QED BY <1>5, <1>6, <1>9, <1>10, <1>11 DEF MtInv

-----------------------------------------------------------------------------
LEMMA MtObserves ==
  ASSUME MtInv, observed' = observed + 1, UNCHANGED <<sendVars, endVars>>, MtTyped', MtKept',
         refused \subseteq refused',
         \A c \in Counter : total[c] \subseteq total'[c] /\ (dirty'[c] \/ (total'[c] = total[c] /\ dirty'[c] = dirty[c])),
         \A p \in LivePoints : \E q \in LivePoints' : p[2] \subseteq q[2],
         \A q \in LivePoints' : q \in LivePoints \/ observed + 1 \in q[2],
         \/ observed + 1 \in refused' \/ \E c \in Counter : observed + 1 \in total'[c]
         \/ \E q \in LivePoints' : observed + 1 \in q[2]
  PROVE  MtInv'
<1>1. MtTyped /\ MtWorks /\ observed \in Nat
  BY MtConstants DEF MtInv, MtTyped, MtConst
<1>2. /\ UNCHANGED <<pending, flusher, arrived, counted, dropped, client, ctxDone, tally>>
      /\ Detached' = Detached /\ BeingLost' = BeingLost /\ MtOwed' = MtOwed
  BY DEF sendVars, endVars, Detached, BeingLost, MtOwed
<1>3. Elsewhere' = Elsewhere /\ MtPassed' = MtPassed
  BY <1>2 DEF Elsewhere, MtPassed
<1>4. MtWorks'
  BY <1>1, <1>2 DEF MtWorks
<1>5. MtCovered'
  <2>1. ASSUME NEW n \in 1..observed'
        PROVE  \/ n \in refused' \/ \E c \in Counter : n \in total'[c]
               \/ \E p \in LivePoints' \cup Elsewhere' : n \in p[2]
    <3>1. n \in 1..observed \/ n = observed + 1
      BY <1>1
    <3>2. CASE n \in 1..observed
      BY <1>3, <3>2 DEF MtInv, MtCovered
    <3> QED BY <3>1, <3>2
  <2>2. ASSUME NEW c \in Counter PROVE total'[c] = {} \/ dirty'[c] \/ <<c, total'[c]>> \in Elsewhere'
    BY <1>3 DEF MtInv, MtCovered
  <2> QED BY <2>1, <2>2 DEF MtCovered
<1>6. MtFresh'
  <2>1. \A q \in MtPassed : q[2] \subseteq 1..observed
    BY DEF MtInv, MtFresh
  <2>2. observed + 1 \notin 1..observed /\ 1..observed \subseteq 1..(observed + 1)
    BY <1>1
  <2>3. \A p \in LivePoints', q \in MtPassed : p[1] = q[1] => ~(p[2] \subseteq q[2])
    BY <2>1, <2>2 DEF MtInv, MtFresh
  <2>4. \A q \in MtPassed : q[2] \subseteq 1..(observed + 1)
    BY <2>1, <2>2
  <2> QED BY <1>3, <2>3, <2>4 DEF MtFresh
<1>7. MtApart'
  BY <1>2 DEF MtInv, MtApart
<1>8. MtRises'
  <2>1. (UNION Range(pending)) \cup Detached \cup arrived = ((UNION Range(pending)) \cup Detached \cup arrived)'
    BY <1>2
  <2>2. \A q \in (UNION Range(pending)) \cup Detached \cup arrived : q[1] \in Counter => q[2] \subseteq total'[q[1]]
    BY DEF MtInv, MtRises
  <2> QED BY <1>2, <2>1, <2>2 DEF MtInv, MtRises
<1> QED BY <1>4, <1>5, <1>6, <1>7, <1>8 DEF MtInv

\* One observation more.
LEMMA MtWider ==
  ASSUME MtTyped, Observing
  PROVE  /\ observed' = observed + 1 /\ observed' \in 0..MaxObservations
         /\ refused \subseteq 1..observed' /\ observed + 1 \in 1..observed'
         /\ total \in [Counter -> SUBSET (1..observed')]
         /\ gauges \in Seq(Gauge \X (1..observed')) /\ interval \in [Histogram -> SUBSET (1..observed')]
<1>1. observed' = observed + 1 /\ observed \in Nat /\ observed' \in 0..MaxObservations
  BY MtConstants DEF MtTyped, Observing, MtConst
<1>2. 1..observed \subseteq 1..observed' /\ observed + 1 \in 1..observed'
  BY <1>1
<1>3. Gauge \X (1..observed) \subseteq Gauge \X (1..observed')
  BY <1>2
<1>4. gauges \in Seq(Gauge \X (1..observed'))
  BY <1>3, SeqMonotonic DEF MtTyped
<1>5. \A T : T \in SUBSET (1..observed) => T \in SUBSET (1..observed')
  BY <1>2
<1>6. total \in [Counter -> SUBSET (1..observed')] /\ interval \in [Histogram -> SUBSET (1..observed')]
  BY <1>5 DEF MtTyped
<1> QED BY <1>1, <1>2, <1>4, <1>6 DEF MtTyped

LEMMA MtRegisters ==
  ASSUME MtTyped, MtKept, NEW s \in Series, RegisterAllowed(s)
  PROVE  /\ IsFiniteSet(seriesKeys \cup {s}) /\ seriesKeys \cup {s} \subseteq Series
         /\ Cardinality(seriesKeys \cup {s}) = Cardinality(seriesKeys) + KeyCost(s)
         /\ Cardinality(seriesKeys \cup {s}) =< SeriesLimit
         /\ KeyCost(s) \in {0, 1} /\ bytes + KeyCost(s) =< ByteLimit
<1>1. IsFiniteSet(seriesKeys) /\ Cardinality(seriesKeys) \in Nat /\ Cardinality(seriesKeys) =< SeriesLimit
      /\ bytes \in Nat /\ bytes =< ByteLimit /\ seriesKeys \subseteq Series
  <2>1. IsFiniteSet(seriesKeys) /\ bounded \subseteq seriesKeys /\ Len(gauges) \in Nat
    BY LenProperties DEF MtTyped, MtKept
  <2>2. Cardinality(seriesKeys) \in Nat /\ Cardinality(bounded) \in Nat
    BY <2>1, FS_Subset, FS_CardinalityType
  <2> QED BY <2>1, <2>2 DEF MtTyped, MtKept
<1>2. CASE s \in seriesKeys
  <2>1. seriesKeys \cup {s} = seriesKeys /\ KeyCost(s) = 0
    BY <1>2 DEF KeyCost
  <2>2. /\ IsFiniteSet(seriesKeys \cup {s}) /\ seriesKeys \cup {s} \subseteq Series
        /\ Cardinality(seriesKeys \cup {s}) = Cardinality(seriesKeys)
    BY <1>1, <2>1
  <2>3. Cardinality(seriesKeys) = Cardinality(seriesKeys) + KeyCost(s) /\ bytes + KeyCost(s) = bytes
    BY <1>1, <2>1
  <2> QED BY <1>1, <2>1, <2>2, <2>3
<1>3. CASE s \notin seriesKeys
  <2>1. KeyCost(s) = 1 /\ Cardinality(seriesKeys) < SeriesLimit /\ bytes < ByteLimit
    BY <1>3 DEF KeyCost, RegisterAllowed
  <2>2. IsFiniteSet(seriesKeys \cup {s}) /\ Cardinality(seriesKeys \cup {s}) = Cardinality(seriesKeys) + 1
    BY <1>1, <1>3, FS_AddElement
  <2> QED BY <1>1, <2>1, <2>2, MtConstants DEF MtConst
<1> QED BY <1>2, <1>3

LEMMA MtCounters ==
  ASSUME MtInv, NEW c \in Counter, RecordCounter(c)
  PROVE  MtInv'
<1> DEFINE n == observed + 1
<1>1. MtTyped /\ MtKept /\ Observing /\ c \in Series
  BY DEF MtInv, RecordCounter, Series
<1>2. UNCHANGED <<gauges, interval, bounded, sendVars, endVars>> /\ observed' = n
  BY <1>1 DEF RecordCounter, Observing
<1>3. CASE RegisterAllowed(c)
  <2>1. /\ total' = [total EXCEPT ![c] = @ \cup {n}] /\ dirty' = [dirty EXCEPT ![c] = TRUE]
        /\ seriesKeys' = seriesKeys \cup {c} /\ bytes' = bytes + KeyCost(c) /\ refused' = refused
    BY <1>3 DEF RecordCounter
  <2>2. /\ \A d \in Counter : d # c => total'[d] = total[d] /\ dirty'[d] = dirty[d]
        /\ total'[c] = total[c] \cup {n} /\ dirty'[c] = TRUE
    BY <1>1, <2>1 DEF MtTyped
  <2>3. MtTyped'
    <3>1. total' \in [Counter -> SUBSET (1..observed')] /\ dirty' \in [Counter -> BOOLEAN]
      BY <1>1, <2>1, MtWider DEF MtTyped
    <3>2. seriesKeys' \subseteq Series
      BY <1>1, <1>3, <2>1, MtRegisters
    <3> QED BY <1>1, <1>2, <2>1, <3>1, <3>2, MtWider DEF MtTyped, sendVars, endVars
  <2>4. MtKept'
    <3>1. /\ IsFiniteSet(seriesKeys') /\ Cardinality(seriesKeys') =< SeriesLimit /\ bytes' =< ByteLimit
          /\ Cardinality(seriesKeys') = Cardinality(seriesKeys) + KeyCost(c) /\ KeyCost(c) \in {0, 1}
      BY <1>1, <1>3, <2>1, MtRegisters
    <3>2. Cardinality(seriesKeys) \in Nat /\ Cardinality(bounded) \in Nat /\ Len(gauges) \in Nat
      BY <1>1, FS_Subset, FS_CardinalityType, LenProperties DEF MtKept, MtTyped
    <3>3. bytes' = Cardinality(seriesKeys') + Cardinality(bounded') + Len(gauges')
      BY <1>1, <1>2, <2>1, <3>1, <3>2 DEF MtKept
    <3>4. \A d \in Counter : /\ dirty'[d] => total'[d] # {}
                             /\ total'[d] # {} => d \in seriesKeys'
      BY <1>1, <2>1, <2>2 DEF MtKept
    <3> QED BY <1>1, <1>2, <2>1, <3>1, <3>3, <3>4 DEF MtKept
  <2>5. PointsOfGauges' = PointsOfGauges /\ PointsOfHistograms' = PointsOfHistograms
    BY <1>2 DEF PointsOfGauges, PointsOfHistograms
  <2>6. \A d \in Counter : dirty[d] => /\ <<d, total'[d]>> \in LivePoints' /\ total[d] \subseteq total'[d]
    BY <2>2 DEF LivePoints, PointsOfCounters
  <2>7. \A p \in LivePoints : \E q \in LivePoints' : p[2] \subseteq q[2]
    <3>1. ASSUME NEW p \in PointsOfCounters PROVE \E q \in LivePoints' : p[2] \subseteq q[2]
      <4>1. PICK d \in Counter : dirty[d] /\ p = <<d, total[d]>>
        BY DEF PointsOfCounters
      <4>2. p[2] = total[d] /\ <<d, total'[d]>> \in LivePoints' /\ total[d] \subseteq total'[d]
        BY <2>6, <4>1
      <4> QED BY <4>2
    <3>2. \A p \in PointsOfGauges \cup PointsOfHistograms : p \in LivePoints'
      BY <2>5 DEF LivePoints
    <3> QED BY <3>1, <3>2 DEF LivePoints
  <2>8. \A q \in LivePoints' : q \in LivePoints \/ n \in q[2]
    <3>1. \A d \in Counter : dirty'[d] => <<d, total'[d]>> \in LivePoints \/ n \in total'[d]
      BY <2>2 DEF LivePoints, PointsOfCounters
    <3> QED BY <2>5, <3>1 DEF LivePoints, PointsOfCounters
  <2>9. \A d \in Counter : total[d] \subseteq total'[d] /\ (dirty'[d] \/ (total'[d] = total[d] /\ dirty'[d] = dirty[d]))
    BY <2>2
  <2>10. n \in total'[c]
    BY <2>2
  <2> QED BY <1>2, <2>1, <2>3, <2>4, <2>7, <2>8, <2>9, <2>10, MtObserves
<1>4. CASE ~RegisterAllowed(c)
  <2>1. refused' = refused \cup {n} /\ UNCHANGED <<total, dirty, seriesKeys, bytes>>
    BY <1>4 DEF RecordCounter, Refuse
  <2>2. MtTyped'
    BY <1>1, <1>2, <2>1, MtWider DEF MtTyped, sendVars, endVars
  <2>3. MtKept'
    BY <1>1, <1>2, <2>1 DEF MtKept
  <2>4. LivePoints' = LivePoints
    BY <1>2, <2>1 DEF LivePoints, PointsOfCounters, PointsOfGauges, PointsOfHistograms
  <2> QED BY <1>2, <2>1, <2>2, <2>3, <2>4, MtObserves
<1> QED BY <1>3, <1>4

LEMMA MtGauges ==
  ASSUME MtInv, NEW g \in Gauge, RecordGauge(g)
  PROVE  MtInv'
<1> DEFINE n == observed + 1
           room == bytes + KeyCost(g) < ByteLimit
<1>1. MtTyped /\ MtKept /\ Observing /\ g \in Series
  BY DEF MtInv, RecordGauge, Series
<1>2. UNCHANGED <<total, dirty, interval, bounded, sendVars, endVars>> /\ observed' = n
  BY <1>1 DEF RecordGauge, Observing
<1>3. PointsOfCounters' = PointsOfCounters /\ PointsOfHistograms' = PointsOfHistograms
  BY <1>2 DEF PointsOfCounters, PointsOfHistograms
<1>4. \/ gauges' = gauges /\ refused' = refused \cup {n}
      \/ RegisterAllowed(g) /\ room /\ gauges' = Append(gauges, <<g, n>>) /\ refused' = refused
  BY DEF RecordGauge, Refuse
<1>5. \/ RegisterAllowed(g) /\ seriesKeys' = seriesKeys \cup {g} /\ bytes' = bytes + KeyCost(g) + (IF room THEN 1 ELSE 0)
      \/ ~RegisterAllowed(g) /\ UNCHANGED <<seriesKeys, bytes>>
  BY DEF RecordGauge
<1>6. RegisterAllowed(g) /\ room => gauges' = Append(gauges, <<g, n>>)
  BY DEF RecordGauge
<1> HIDE DEF room
<1>7. /\ Cardinality(seriesKeys) \in Nat /\ Cardinality(bounded) \in Nat /\ Len(gauges) \in Nat
      /\ bytes = Cardinality(seriesKeys) + Cardinality(bounded) + Len(gauges)
      /\ bounded \subseteq seriesKeys
  BY <1>1, FS_Subset, FS_CardinalityType, LenProperties DEF MtKept, MtTyped
<1>8. <<g, n>> \in Gauge \X (1..observed') /\ gauges \in Seq(Gauge \X (1..observed'))
  BY <1>1, MtWider
<1>9. gauges' \in Seq(Gauge \X (1..observed'))
  <2>1. \A S : \A s \in Seq(S), e \in S : Append(s, e) \in Seq(S)
    BY AppendProperties
  <2> QED BY ONLY <1>4, <1>8, <2>1
<1>10. /\ IsFiniteSet(seriesKeys') /\ Cardinality(seriesKeys') =< SeriesLimit /\ seriesKeys' \subseteq Series
       /\ seriesKeys \subseteq seriesKeys' /\ bytes' =< ByteLimit
       /\ bytes' = Cardinality(seriesKeys') + Cardinality(bounded') + Len(gauges')
  <2>1. CASE RegisterAllowed(g)
    <3>1. seriesKeys' = seriesKeys \cup {g} /\ bytes' = bytes + KeyCost(g) + (IF room THEN 1 ELSE 0)
      BY <1>5, <2>1
    <3>2. /\ IsFiniteSet(seriesKeys') /\ Cardinality(seriesKeys') =< SeriesLimit /\ seriesKeys' \subseteq Series
          /\ Cardinality(seriesKeys') = Cardinality(seriesKeys) + KeyCost(g) /\ KeyCost(g) \in {0, 1}
          /\ bytes + KeyCost(g) =< ByteLimit
      BY <1>1, <2>1, <3>1, MtRegisters
    <3>3. CASE room
      <4>1. Len(gauges') = Len(gauges) + 1
        BY <1>6, <1>8, <2>1, <3>3, AppendProperties
      <4>2. bytes' = bytes + KeyCost(g) + 1 /\ bytes + KeyCost(g) < ByteLimit
        BY <3>1, <3>3 DEF room
      <4>3. bytes' =< ByteLimit /\ bytes' = Cardinality(seriesKeys') + Cardinality(bounded) + Len(gauges')
        BY <1>7, <3>2, <4>1, <4>2, MtConstants DEF MtConst
      <4> QED BY <1>2, <3>1, <3>2, <4>3
    <3>4. CASE ~room
      <4>1. gauges' = gauges
        BY <1>4, <3>4
      <4>2. bytes' = bytes + KeyCost(g)
        BY <1>7, <3>1, <3>2, <3>4
      <4>3. bytes' = Cardinality(seriesKeys') + Cardinality(bounded) + Len(gauges')
        BY <1>7, <3>2, <4>1, <4>2
      <4> QED BY <1>2, <3>1, <3>2, <4>2, <4>3
    <3> QED BY <3>3, <3>4
  <2>2. CASE ~RegisterAllowed(g)
    BY <1>1, <1>2, <1>4, <1>5, <2>2 DEF MtKept, MtTyped
  <2> QED BY <2>1, <2>2
<1>11. MtTyped'
  <2>1. refused' \subseteq 1..observed'
    BY <1>1, <1>4, MtWider
  <2> QED BY <1>1, <1>2, <1>9, <1>10, <2>1, MtWider DEF MtTyped, sendVars, endVars
<1>12. Range(gauges) \subseteq Range(gauges') /\ Range(gauges') \subseteq Range(gauges) \cup {<<g, n>>}
       /\ (gauges' = gauges \/ <<g, n>> \in Range(gauges'))
  <2>1. CASE gauges' = gauges
    BY <2>1
  <2>2. CASE gauges' = Append(gauges, <<g, n>>)
    <3>1. /\ Len(gauges') = Len(gauges) + 1 /\ gauges'[Len(gauges) + 1] = <<g, n>>
          /\ \A i \in 1..Len(gauges) : gauges'[i] = gauges[i]
      BY <1>8, <2>2, AppendProperties
    <3>2. DOMAIN gauges = 1..Len(gauges) /\ DOMAIN gauges' = 1..(Len(gauges) + 1)
      BY <1>8, <1>9, <3>1, LenProperties
    <3>3. \A i \in DOMAIN gauges' : i \in DOMAIN gauges \/ i = Len(gauges) + 1
      BY <1>7, <3>2
    <3>4. DOMAIN gauges \subseteq DOMAIN gauges' /\ Len(gauges) + 1 \in DOMAIN gauges'
      BY <1>7, <3>2
    <3> QED BY <3>1, <3>2, <3>3, <3>4 DEF Range
  <2> QED BY <1>4, <2>1, <2>2
<1>13. MtKept'
  <2>1. \A p \in Range(gauges') : p[1] \in seriesKeys'
    <3>1. \A p \in Range(gauges) : p[1] \in seriesKeys'
      BY <1>1, <1>10 DEF MtKept
    <3>2. gauges' # gauges => g \in seriesKeys'
      BY <1>4, <1>5
    <3> QED BY <1>12, <3>1, <3>2
  <2> QED BY <1>1, <1>2, <1>10, <2>1 DEF MtKept
<1>14. \A p \in PointsOfGauges : p \in PointsOfGauges'
  BY <1>12 DEF PointsOfGauges
<1>15. \A q \in PointsOfGauges' : q \in PointsOfGauges \/ n \in q[2]
  <2>1. <<<<g, n>>[1], {<<g, n>>[2]}>>[2] = {n}
    OBVIOUS
  <2> QED BY <1>12, <2>1 DEF PointsOfGauges
<1>16. /\ \A p \in LivePoints : p \in LivePoints' /\ p[2] \subseteq p[2]
       /\ \A q \in LivePoints' : q \in LivePoints \/ n \in q[2]
  BY <1>3, <1>14, <1>15 DEF LivePoints
<1>17. n \in refused' \/ \E q \in LivePoints' : n \in q[2]
  <2>1. CASE gauges' = gauges /\ refused' = refused \cup {n}
    BY <2>1
  <2>2. CASE gauges' = Append(gauges, <<g, n>>)
    <3>1. <<g, n>> \in Range(gauges')
      <4>1. /\ Len(gauges') = Len(gauges) + 1 /\ gauges'[Len(gauges) + 1] = <<g, n>>
        BY <1>8, <2>2, AppendProperties
      <4>2. Len(gauges) + 1 \in DOMAIN gauges'
        BY <1>7, <1>9, <4>1, LenProperties
      <4> QED BY <4>1, <4>2 DEF Range
    <3>2. <<g, {n}>> \in LivePoints'
      BY <3>1 DEF LivePoints, PointsOfGauges
    <3> QED BY <3>2
  <2> QED BY <1>4, <2>1, <2>2
<1>18. refused \subseteq refused'
  BY <1>4
<1>19. \A c \in Counter : total[c] \subseteq total'[c] /\ total'[c] = total[c] /\ dirty'[c] = dirty[c]
  BY <1>2
<1> QED BY <1>2, <1>11, <1>13, <1>16, <1>17, <1>18, <1>19, MtObserves

LEMMA MtHistograms ==
  ASSUME MtInv, NEW h \in Histogram, RecordHistogram(h)
  PROVE  MtInv'
<1> DEFINE n == observed + 1
<1>1. MtTyped /\ MtKept /\ Observing /\ h \in Series
  BY DEF MtInv, RecordHistogram, Series
<1>2. UNCHANGED <<total, dirty, gauges, sendVars, endVars>> /\ observed' = n
  BY <1>1 DEF RecordHistogram, Observing
<1>3. PointsOfCounters' = PointsOfCounters /\ PointsOfGauges' = PointsOfGauges
  BY <1>2 DEF PointsOfCounters, PointsOfGauges
<1>4. CASE h \notin bounded => bytes + 1 < ByteLimit /\ RegisterAllowed(h)
  <2>1. /\ interval' = [interval EXCEPT ![h] = @ \cup {n}] /\ seriesKeys' = seriesKeys \cup {h}
        /\ bounded' = bounded \cup {h} /\ refused' = refused
        /\ bytes' = bytes + (IF h \notin bounded THEN KeyCost(h) + 1 ELSE 0)
    BY <1>4 DEF RecordHistogram
  <2>2. (\A x \in Histogram : x # h => interval'[x] = interval[x]) /\ interval'[h] = interval[h] \cup {n}
    BY <1>1, <2>1 DEF MtTyped
  <2>3. /\ Cardinality(seriesKeys) \in Nat /\ Cardinality(bounded) \in Nat /\ Len(gauges) \in Nat
        /\ bytes = Cardinality(seriesKeys) + Cardinality(bounded) + Len(gauges) /\ bytes =< ByteLimit
        /\ bounded \subseteq seriesKeys /\ IsFiniteSet(bounded) /\ IsFiniteSet(seriesKeys)
    BY <1>1, FS_Subset, FS_CardinalityType, LenProperties DEF MtKept, MtTyped
  <2>4. /\ IsFiniteSet(seriesKeys') /\ Cardinality(seriesKeys') =< SeriesLimit /\ seriesKeys' \subseteq Series
        /\ bytes' =< ByteLimit /\ bytes' = Cardinality(seriesKeys') + Cardinality(bounded') + Len(gauges)
    <3>1. CASE h \in bounded
      <4>1. seriesKeys' = seriesKeys /\ bounded' = bounded /\ bytes' = bytes
        BY <2>1, <2>3, <3>1
      <4> QED BY <1>1, <2>3, <4>1 DEF MtKept, MtTyped
    <3>2. CASE h \notin bounded
      <4>1. bytes + 1 < ByteLimit /\ RegisterAllowed(h) /\ bytes' = bytes + (KeyCost(h) + 1)
        BY <1>4, <2>1, <3>2
      <4>2. /\ IsFiniteSet(seriesKeys') /\ Cardinality(seriesKeys') =< SeriesLimit /\ seriesKeys' \subseteq Series
            /\ Cardinality(seriesKeys') = Cardinality(seriesKeys) + KeyCost(h) /\ KeyCost(h) \in {0, 1}
        BY <1>1, <2>1, <4>1, MtRegisters
      <4>3. Cardinality(bounded') = Cardinality(bounded) + 1
        BY <2>1, <2>3, <3>2, FS_AddElement
      <4>4. bytes' =< ByteLimit /\ bytes' = Cardinality(seriesKeys') + Cardinality(bounded') + Len(gauges)
        BY <2>3, <4>1, <4>2, <4>3, MtConstants DEF MtConst
      <4> QED BY <4>2, <4>4
    <3> QED BY <3>1, <3>2
  <2>5. MtTyped'
    <3>1. interval' \in [Histogram -> SUBSET (1..observed')]
      BY <1>1, <2>1, MtWider
    <3>2. bounded' \subseteq Histogram
      BY <1>1, <2>1 DEF MtTyped
    <3> QED BY <1>1, <1>2, <2>1, <2>4, <3>1, <3>2, MtWider DEF MtTyped, sendVars, endVars
  <2>6. MtKept'
    <3>1. bounded' \subseteq seriesKeys' /\ seriesKeys \subseteq seriesKeys'
      BY <2>1, <2>3
    <3>2. \A x \in Histogram : interval'[x] # {} => x \in bounded'
      BY <1>1, <2>1, <2>2 DEF MtKept
    <3> QED BY <1>1, <1>2, <2>4, <3>1, <3>2 DEF MtKept
  <2>7. \A x \in Histogram : interval[x] # {} => /\ <<x, interval'[x]>> \in LivePoints' /\ interval[x] \subseteq interval'[x]
    BY <2>2 DEF LivePoints, PointsOfHistograms
  <2>8. \A p \in LivePoints : \E q \in LivePoints' : p[2] \subseteq q[2]
    <3>1. ASSUME NEW p \in PointsOfHistograms PROVE \E q \in LivePoints' : p[2] \subseteq q[2]
      <4>1. PICK x \in Histogram : interval[x] # {} /\ p = <<x, interval[x]>>
        BY DEF PointsOfHistograms
      <4>2. p[2] = interval[x] /\ <<x, interval'[x]>> \in LivePoints' /\ interval[x] \subseteq interval'[x]
        BY <2>7, <4>1
      <4> QED BY <4>2
    <3>2. \A p \in PointsOfCounters \cup PointsOfGauges : p \in LivePoints'
      BY <1>3 DEF LivePoints
    <3> QED BY <3>1, <3>2 DEF LivePoints
  <2>9. \A q \in LivePoints' : q \in LivePoints \/ n \in q[2]
    <3>1. \A x \in Histogram : interval'[x] # {} => <<x, interval'[x]>> \in LivePoints \/ n \in interval'[x]
      BY <2>2 DEF LivePoints, PointsOfHistograms
    <3> QED BY <1>3, <3>1 DEF LivePoints, PointsOfHistograms
  <2>10. <<h, interval'[h]>> \in LivePoints' /\ n \in interval'[h]
    BY <2>2 DEF LivePoints, PointsOfHistograms
  <2>11. \E q \in LivePoints' : n \in q[2]
    BY <2>10
  <2>12. \A c \in Counter : total[c] \subseteq total'[c] /\ total'[c] = total[c] /\ dirty'[c] = dirty[c]
    BY <1>2
  <2> QED BY <1>2, <2>1, <2>5, <2>6, <2>8, <2>9, <2>11, <2>12, MtObserves
<1>5. CASE ~(h \notin bounded => bytes + 1 < ByteLimit /\ RegisterAllowed(h))
  <2>1. refused' = refused \cup {n} /\ UNCHANGED <<interval, seriesKeys, bounded, bytes>>
    BY <1>5 DEF RecordHistogram, Refuse
  <2>2. MtTyped'
    BY <1>1, <1>2, <2>1, MtWider DEF MtTyped, sendVars, endVars
  <2>3. MtKept'
    BY <1>1, <1>2, <2>1 DEF MtKept
  <2>4. LivePoints' = LivePoints
    BY <1>2, <2>1 DEF LivePoints, PointsOfCounters, PointsOfGauges, PointsOfHistograms
  <2> QED BY <1>2, <2>1, <2>2, <2>3, <2>4, MtObserves
<1> QED BY <1>4, <1>5

-----------------------------------------------------------------------------
LEMMA MtStarts == MetricInit => MtInv
<1> SUFFICES ASSUME MetricInit PROVE MtInv
  OBVIOUS
<1> USE DEF MetricInit
<1>1. LivePoints = {}
  <2>1. PointsOfGauges = {}
    BY MtSpread DEF PointsOfGauges
  <2> QED BY <2>1 DEF LivePoints, PointsOfCounters, PointsOfHistograms
<1>2. /\ UNION Range(pending) = {} /\ BeingLost = {} /\ Detached = {} /\ MtOwed = {}
      /\ \A f \in Flusher : flusher[f] = AtRest
  BY MtSpread DEF BeingLost, Detached, MtOwed, AtRest
<1>3. MtTyped
  <2>1. AtRest \in MtWork
    BY DEF AtRest, MtWork
  <2>2. 0 \in 0..MaxObservations /\ 0 \in 0..(MetricTries - 1)
    BY MtConstants DEF MtConst
  <2>3. /\ total \in [Counter -> SUBSET (1..observed)] /\ dirty \in [Counter -> BOOLEAN]
        /\ interval \in [Histogram -> SUBSET (1..observed)] /\ flusher \in [Flusher -> MtWork]
    BY <2>1
  <2>4. gauges \in Seq(Gauge \X (1..observed)) /\ pending \in Seq(SUBSET Points)
    OBVIOUS
  <2>5. tally \in [at : {"off", "live", "done"}, points : SUBSET Points]
    OBVIOUS
  <2> QED BY <2>2, <2>3, <2>4, <2>5 DEF MtTyped
<1>4. MtKept
  <2>1. IsFiniteSet({}) /\ Cardinality({}) = 0
    BY FS_EmptySet
  <2> QED BY <2>1, MtSpread, MtConstants DEF MtKept, MtConst
<1>5. MtWorks
  BY <1>2 DEF MtWorks, AtRest
<1>6. MtCovered
  BY DEF MtCovered
<1>7. MtFresh
  BY <1>1, <1>2 DEF MtFresh, MtPassed
<1>8. MtApart
  BY <1>2 DEF MtApart, MtDisjoint, AtRest
<1>9. MtRises
  BY <1>2 DEF MtRises, MtOrdered, AtRest
<1> QED BY <1>3, <1>4, <1>5, <1>6, <1>7, <1>8, <1>9 DEF MtInv

LEMMA MtSteps == MtKinds /\ MtInv /\ [MetricNext]_metricVars => MtInv'
<1> SUFFICES ASSUME MtKinds, MtInv, [MetricNext]_metricVars PROVE MtInv'
  OBVIOUS
<1>1. ASSUME NEW f \in Flusher, FlushMetrics(f) PROVE MtInv'
  <2>1. CASE PostMetricsFails(f)
    <3>1. CASE tries + 1 >= MetricTries
      <4>1. /\ flusher[f].at = "sending" /\ DropPendingMetric(f) /\ arrived' \in {arrived, arrived \cup flusher[f].of}
            /\ UNCHANGED <<observed, refused, liveVars, counted, dropped, ctxDone, tally>>
        BY <2>1, <3>1 DEF PostMetricsFails
      <4> QED BY <4>1, MtDrops
    <3> QED BY <2>1, <3>1, MtRetries
  <2>2. CASE PostMetricsRefused(f)
    <3>1. /\ flusher[f].at = "sending" /\ DropPendingMetric(f) /\ arrived' = arrived
          /\ UNCHANGED <<observed, refused, liveVars, counted, dropped, ctxDone, tally>>
      BY <2>2 DEF PostMetricsRefused
    <3> QED BY <3>1, MtDrops
  <2> QED BY <1>1, <2>1, <2>2, MtBegins, MtSnapshots, MtRetains, MtEnds, MtPosts, MtTakes, MtRemoves,
             MtCancels, MtLoses DEF FlushMetrics
<1>2. CASE UNCHANGED metricVars
  <2>1. UNCHANGED <<observed, refused, liveVars, sendVars, endVars>>
    BY <1>2 DEF metricVars
  <2>2. /\ UNCHANGED <<pending, flusher, counted, dropped, arrived, tally, client, ctxDone, tries, held>>
        /\ Detached' = Detached /\ BeingLost' = BeingLost /\ MtOwed' = MtOwed
    BY <2>1 DEF sendVars, endVars, Detached, BeingLost, MtOwed
  <2>3. MtTyped' /\ MtWorks'
    BY <2>1, <2>2 DEF MtInv, MtTyped, MtWorks, liveVars
  <2> QED BY <2>1, <2>2, <2>3, MtQuiet
<1> QED BY <1>1, <1>2, MtCounters, MtGauges, MtHistograms, MtShuts, MtTallies DEF MetricNext

LEMMA MtMeans == MtInv => MetricTypeOK /\ MetricsSound
<1> SUFFICES ASSUME MtInv PROVE MetricTypeOK /\ MetricsSound
  OBVIOUS
<1>1. MtTyped /\ MtKept /\ MtWorks /\ MtCovered /\ MtApart /\ MtRises
  BY DEF MtInv
<1>2. MetricTypeOK
  <2>1. bytes \in 0..ByteLimit /\ Cardinality(seriesKeys) =< SeriesLimit
    <3>1. Cardinality(seriesKeys) \in Nat /\ Cardinality(bounded) \in Nat /\ Len(gauges) \in Nat
      BY <1>1, FS_Subset, FS_CardinalityType, LenProperties DEF MtKept, MtTyped
    <3> QED BY <1>1, <3>1, MtConstants DEF MtKept, MtConst
  <2>2. \A f \in Flusher : flusher[f].at \in {"off", "loop", "detached", "sending", "remove", "lose"}
    BY <1>1, MtTypedOf
  <2>3. (\A c \in Counter : total[c] \subseteq 1..observed) /\ \A h \in Histogram : interval[h] \subseteq 1..observed
    BY <1>1 DEF MtTyped
  <2> QED BY <1>1, <2>1, <2>2, <2>3 DEF MetricTypeOK, MtTyped
<1>3. ObservationsAccounted
  BY <1>1 DEF ObservationsAccounted, MtCovered, MtApart
<1>4. CountersRise
  <2> DEFINE waits == pending \o (IF Detached = {} THEN <<>> ELSE <<Detached>>)
  <2>1. CASE Detached = {}
    <3>1. waits = pending
      BY <1>1, <2>1, ConcatEmptySeq DEF MtTyped
    <3>2. DOMAIN pending \subseteq Nat
      BY <1>1, LenProperties DEF MtTyped
    <3>3. ASSUME NEW i \in DOMAIN pending, NEW p \in pending[i]
          PROVE  /\ \A q \in arrived : p[1] \in Counter /\ q[1] = p[1] => q[2] \subseteq p[2]
                 /\ \A j \in 1..i - 1 : \A q \in pending[j] :
                      p[1] \in Counter /\ q[1] = p[1] => q[2] \subseteq p[2]
      <4>1. p \in UNION Range(pending)
        BY MtSpread
      <4>2. \A q \in arrived : p[1] \in Counter /\ q[1] = p[1] => q[2] \subseteq p[2]
        BY <1>1, <4>1 DEF MtRises, MtAhead
      <4>3. ASSUME NEW j \in 1..i - 1 PROVE j \in DOMAIN pending /\ j =< i
        <5>1. DOMAIN pending = 1..Len(pending) /\ Len(pending) \in Nat
          BY <1>1, LenProperties DEF MtTyped
        <5> QED BY <5>1
      <4>4. MtOrdered(pending)
        BY <1>1 DEF MtRises
      <4> QED BY <4>2, <4>3, <4>4 DEF MtOrdered, MtAhead
    <3> HIDE DEF waits
    <3>4. \A i \in DOMAIN waits : \A p \in waits[i] :
            /\ \A q \in arrived : p[1] \in Counter /\ q[1] = p[1] => q[2] \subseteq p[2]
            /\ \A j \in 1..i - 1 : \A q \in waits[j] : p[1] \in Counter /\ q[1] = p[1] => q[2] \subseteq p[2]
      BY <3>1, <3>3
    <3> QED BY <3>4 DEF CountersRise, waits
  <2>2. CASE Detached # {}
    <3>1. pending = <<>>
      <4>1. PICK f \in Flusher : UNION Range(flusher[f].envelopes) # {}
        BY <2>2 DEF Detached
      <4> QED BY <1>1, <4>1, MtSpread DEF MtWorks
    <3>2. waits = <<Detached>>
      BY <2>2, <3>1
    <3>3. DOMAIN waits = {1} /\ waits[1] = Detached
      <4>1. \A D : DOMAIN <<D>> = {1} /\ <<D>>[1] = D
        OBVIOUS
      <4> QED BY ONLY <3>2, <4>1
    <3>4. \A p \in Detached, q \in arrived : p[1] \in Counter /\ q[1] = p[1] => q[2] \subseteq p[2]
      <4>1. \A p \in Detached, q \in arrived : MtAhead(q, p)
        BY <1>1 DEF MtRises
      <4> QED BY <4>1 DEF MtAhead
    <3> HIDE DEF waits
    <3>5. \A i \in DOMAIN waits : \A p \in waits[i] :
            /\ \A q \in arrived : p[1] \in Counter /\ q[1] = p[1] => q[2] \subseteq p[2]
            /\ \A j \in 1..i - 1 : \A q \in waits[j] : p[1] \in Counter /\ q[1] = p[1] => q[2] \subseteq p[2]
      BY <3>3, <3>4
    <3> QED BY <3>5 DEF CountersRise, waits
  <2> QED BY <2>1, <2>2
<1>5. SeriesKnown
  <2>1. \A p \in LivePoints : p[1] \in seriesKeys
    <3>1. \A p \in PointsOfCounters : p[1] \in seriesKeys
      BY <1>1 DEF PointsOfCounters, MtKept
    <3>2. \A p \in PointsOfGauges : p[1] \in seriesKeys
      BY <1>1 DEF PointsOfGauges, MtKept
    <3>3. \A p \in PointsOfHistograms : p[1] \in seriesKeys
      BY <1>1 DEF PointsOfHistograms, MtKept
    <3> QED BY <3>1, <3>2, <3>3 DEF LivePoints
  <2> QED BY <1>1, <2>1 DEF SeriesKnown, MtKept
<1> QED BY <1>2, <1>3, <1>4, <1>5 DEF MetricsSound

(* What is observed under a budget is delivered or counted as lost, a      *)
(* counter never falls, and every series has its key and every byte its    *)
(* holder, whoever flushes, fails, is cancelled or shuts down in between   *)
(* (sdk/go/metrics.go), as long as no key is a counter's and another kind's.*)
THEOREM MetricsTheorem == ASSUME MtKinds PROVE MetricSpec => [](MetricTypeOK /\ MetricsSound)
<1>1. MetricInit => MtInv
  BY MtStarts
<1>2. MtInv /\ [MetricNext]_metricVars => MtInv'
  BY MtSteps
<1>3. MtInv => MetricTypeOK /\ MetricsSound
  BY MtMeans
<1> QED BY <1>1, <1>2, <1>3, PTL DEF MetricSpec

-----------------------------------------------------------------------------
(***************************************************************************)
(* The queue of the Python client.                                         *)
(***************************************************************************)

\* The n records that were admitted after the first b.
PyRun(b, n) == [i \in 1..n |-> b + i]

LEMMA PyRunIs ==
  ASSUME NEW b \in Nat, NEW n \in Nat
  PROVE  /\ Len(PyRun(b, n)) = n /\ DOMAIN PyRun(b, n) = 1..n
         /\ PyRun(b, n) \in Seq(Nat)
         /\ \A i \in 1..n : PyRun(b, n)[i] = b + i
         /\ ToSet(PyRun(b, n)) = (b + 1)..(b + n)
         /\ \A m \in Nat : b + n =< m => PyRun(b, n) \in Seq(1..m)
<1>1. PyRun(b, n) \in [1..n -> Nat] /\ \A i \in 1..n : PyRun(b, n)[i] = b + i
  BY DEF PyRun
<1>2. PyRun(b, n) \in Seq(Nat) /\ Len(PyRun(b, n)) = n /\ DOMAIN PyRun(b, n) = 1..n
  BY <1>1
<1>3. ASSUME NEW m \in Nat, b + n =< m PROVE PyRun(b, n) \in Seq(1..m)
  <2>1. \A i \in 1..n : PyRun(b, n)[i] \in 1..m
    BY <1>1, <1>3
  <2>2. PyRun(b, n) \in [1..n -> 1..m]
    BY <1>1, <2>1
  <2> QED BY <2>2
<1>4. ToSet(PyRun(b, n)) = (b + 1)..(b + n)
  <2>1. ToSet(PyRun(b, n)) = {b + i : i \in 1..n}
    BY <1>1, <1>2 DEF ToSet
  <2>2. \A r \in (b + 1)..(b + n) : r - b \in 1..n /\ b + (r - b) = r
    OBVIOUS
  <2>3. \A i \in 1..n : b + i \in (b + 1)..(b + n)
    OBVIOUS
  <2> QED BY <2>1, <2>2, <2>3
<1> QED BY <1>1, <1>2, <1>3, <1>4

LEMMA PyRunEqual ==
  ASSUME NEW b \in Nat, NEW n \in Nat, NEW q \in Seq(Nat), Len(q) = n, \A i \in 1..n : q[i] = b + i
  PROVE  q = PyRun(b, n)
<1>1. PyRun(b, n) \in Seq(Nat) /\ Len(PyRun(b, n)) = n /\ \A i \in 1..n : PyRun(b, n)[i] = b + i
  BY PyRunIs
<1>2. PICK p : p = PyRun(b, n)
  OBVIOUS
<1>3. p \in Seq(Nat) /\ Len(p) = Len(q) /\ \A i \in 1..Len(p) : p[i] = q[i]
  BY <1>1, <1>2
<1>4. p = q
  BY <1>3, SeqEqual
<1> QED BY <1>2, <1>4

LEMMA PyRunParts ==
  ASSUME NEW b \in Nat, NEW n \in Nat, NEW k \in 0..n
  PROVE  /\ SubSeq(PyRun(b, n), 1, k) = PyRun(b, k)
         /\ SubSeq(PyRun(b, n), k + 1, n) = PyRun(b + k, n - k)
<1>1. PICK q : q = PyRun(b, n)
  OBVIOUS
<1>2. q \in Seq(Nat) /\ Len(q) = n /\ \A i \in 1..n : q[i] = b + i
  BY <1>1, PyRunIs
<1>3. k \in Nat /\ k =< n /\ k \in Int /\ k + 1 \in Int /\ n \in Int /\ n - k \in Nat /\ b + k \in Nat
  OBVIOUS
<1>4. SubSeq(q, 1, k) = PyRun(b, k)
  <2>1. \A i \in 1..k : q[i] \in Nat
    BY <1>2, <1>3
  <2>2. /\ SubSeq(q, 1, k) \in Seq(Nat) /\ Len(SubSeq(q, 1, k)) = (IF 1 =< k THEN k - 1 + 1 ELSE 0)
        /\ \A i \in 1..(k - 1 + 1) : SubSeq(q, 1, k)[i] = q[1 + i - 1]
    BY <1>3, <2>1, SubSeqProperties
  <2>3. Len(SubSeq(q, 1, k)) = k
    BY <1>3, <2>2
  <2>4. \A i \in 1..k : SubSeq(q, 1, k)[i] = b + i
    <3> TAKE i \in 1..k
    <3>1. i \in 1..(k - 1 + 1) /\ 1 + i - 1 = i /\ i \in 1..n
      BY <1>3
    <3> QED BY <1>2, <2>2, <3>1
  <2> QED BY <1>3, <2>2, <2>3, <2>4, PyRunEqual
<1>5. SubSeq(q, k + 1, n) = PyRun(b + k, n - k)
  <2>1. \A i \in (k + 1)..n : q[i] \in Nat
    BY <1>2, <1>3
  <2>2. /\ SubSeq(q, k + 1, n) \in Seq(Nat)
        /\ Len(SubSeq(q, k + 1, n)) = (IF k + 1 =< n THEN n - (k + 1) + 1 ELSE 0)
        /\ \A i \in 1..(n - (k + 1) + 1) : SubSeq(q, k + 1, n)[i] = q[(k + 1) + i - 1]
    BY <1>3, <2>1, SubSeqProperties
  <2>3. Len(SubSeq(q, k + 1, n)) = n - k
    BY <1>3, <2>2
  <2>4. \A i \in 1..(n - k) : SubSeq(q, k + 1, n)[i] = (b + k) + i
    <3> TAKE i \in 1..(n - k)
    <3>1. i \in 1..(n - (k + 1) + 1) /\ (k + 1) + i - 1 \in 1..n /\ b + ((k + 1) + i - 1) = (b + k) + i
      BY <1>3
    <3> QED BY <1>2, <2>2, <3>1
  <2> QED BY <1>3, <2>2, <2>3, <2>4, PyRunEqual
<1> QED BY <1>1, <1>4, <1>5

LEMMA PyRunGrows ==
  ASSUME NEW b \in Nat, NEW n \in Nat
  PROVE  Append(PyRun(b, n), b + n + 1) = PyRun(b, n + 1)
<1>1. PICK q : q = PyRun(b, n)
  OBVIOUS
<1>2. q \in Seq(Nat) /\ Len(q) = n /\ \A i \in 1..n : q[i] = b + i
  BY <1>1, PyRunIs
<1>3. PICK p : p = Append(q, b + n + 1)
  OBVIOUS
<1>4. p \in Seq(Nat) /\ Len(p) = n + 1 /\ (\A i \in 1..n : p[i] = q[i]) /\ p[n + 1] = b + n + 1
  <2>1. b + n + 1 \in Nat
    OBVIOUS
  <2> QED BY <1>2, <1>3, <2>1, AppendProperties
<1>5. \A i \in 1..(n + 1) : p[i] = b + i
  <2>1. \A i \in 1..(n + 1) : i \in 1..n \/ i = n + 1
    OBVIOUS
  <2> QED BY <1>2, <1>4, <2>1
<1>6. p = PyRun(b, n + 1)
  BY <1>4, <1>5, PyRunEqual
<1> QED BY <1>1, <1>3, <1>6

-----------------------------------------------------------------------------
PyWork == [at : {"off", "called", "loop", "post", "counted"}, left : 0..MaxPyRecords]

PyRequest == [at : {"running", "done"}, chunk : Seq(1..MaxPyRecords), cancelled : BOOLEAN,
              outcome : {"answered", "refused", "failed"}, rejected : 0..PyChunk]

PyTyped ==
  /\ pyState \in {"open", "closing", "closed"} /\ pyStop \in BOOLEAN
  /\ pyFlush \in [PyFlusher -> PyWork] /\ pyOp \in PyRequest
  /\ pyAttempts \in 0..(PyTries - 1) /\ pyGated \in BOOLEAN
  /\ pyDelivered \in Nat /\ pyDropped \in Nat
  /\ pyClosing \in {"no", "join", "flush", "check"} /\ pyStored \subseteq 1..MaxPyRecords

\* One flush at a time has the lock, and is past its call.
PyBusy(f) == pyFlush[f].at \in {"loop", "post", "counted"}
PyPosting(f) == pyFlush[f].at \in {"post", "counted"}
PyCounting == \E f \in PyFlusher : PyAt(f, "counted")

\* The queue is what was admitted last, and a request under way its head.
PyLine(b, n, k) ==
  /\ b \in Nat /\ n \in Nat /\ k \in Nat
  /\ pyQueue = PyRun(b, n) /\ pyAdmitted = b + n /\ pyAdmitted =< MaxPyRecords
  /\ Len(pyOp.chunk) = k /\ k =< PyChunk /\ pyOp.rejected =< k
  /\ PyRunning \/ (\E f \in PyFlusher : PyPosting(f)) => k \in 1..n /\ pyOp.chunk = PyRun(b, k)

PyLocked(n, k) ==
  /\ \A f \in PyFlusher : /\ PyBusy(f) => pyFlush[f].left =< n
                          /\ PyPosting(f) => k =< pyFlush[f].left
  /\ \A f, g \in PyFlusher : PyBusy(f) /\ PyBusy(g) => f = g
  /\ PyCounting => pyOp.at = "done" /\ pyOp.outcome = "answered"

\* What the server has, and what is counted as delivered of it.
PyBooks(b, n, k) ==
  /\ pyOp.at = "done" /\ pyOp.outcome = "answered" /\ (\E f \in PyFlusher : PyPosting(f)) =>
       (b + pyOp.rejected + 1)..(b + k) \subseteq pyStored
  /\ \A r \in pyStored : r =< b + PyChunk
  /\ pyDelivered + pyDropped = b + IF PyCounting THEN k ELSE 0
  /\ pyDelivered =< Cardinality((1..b) \cap pyStored) + IF PyCounting THEN k - pyOp.rejected ELSE 0

\* A close that has come so far has joined the worker.
PyShut ==
  /\ pyClosing \in {"flush", "check"} \/ pyState = "closed" => pyFlush["worker"].at = "off"
  /\ pyClosing # "no" \/ pyState # "open" => pyStop
  /\ pyFlush["closer"].at # "off" => pyClosing = "flush"
  /\ pyClosing # "no" => pyState = "closing"
  /\ pyState = "closed" => pyQueue = <<>>

PyHolds(b, n, k) == PyTyped /\ PyShut /\ PyLine(b, n, k) /\ PyLocked(n, k) /\ PyBooks(b, n, k)

PyInv == \E b, n, k : PyHolds(b, n, k)

LEMMA PyConstants ==
  /\ MaxPyRecords \in Nat /\ PyQueueLimit \in Nat
  /\ PyChunk \in Nat /\ PyChunk >= 1 /\ PyTries \in Nat /\ PyTries >= 1
BY PyAssumption

LEMMA PyNumbers ==
  ASSUME NEW b, NEW n, NEW k, PyTyped, PyLine(b, n, k)
  PROVE  /\ b \in Nat /\ n \in Nat /\ k \in Nat /\ b + n =< MaxPyRecords /\ MaxPyRecords \in Nat
         /\ PyChunk \in Nat /\ pyAdmitted \in Nat /\ pyOp.rejected \in Nat /\ pyOp.rejected =< k /\ k =< PyChunk
         /\ Len(pyOp.chunk) = k /\ pyQueue = PyRun(b, n) /\ Len(pyQueue) = n /\ pyQueue \in Seq(1..MaxPyRecords)
         /\ pyDelivered \in Nat /\ pyDropped \in Nat /\ pyAttempts \in Nat
         /\ \A f \in PyFlusher : pyFlush[f] \in PyWork /\ pyFlush[f].left \in Nat
<1>1. b \in Nat /\ n \in Nat /\ k \in Nat /\ pyAdmitted = b + n /\ pyAdmitted =< MaxPyRecords
      /\ pyQueue = PyRun(b, n) /\ Len(pyOp.chunk) = k /\ k =< PyChunk /\ pyOp.rejected =< k
  BY DEF PyLine
<1>2. MaxPyRecords \in Nat /\ PyChunk \in Nat /\ PyTries \in Nat
  BY PyConstants
<1>3. b + n =< MaxPyRecords
  BY <1>1
<1>4. Len(pyQueue) = n /\ pyQueue \in Seq(1..MaxPyRecords)
  BY <1>1, <1>2, <1>3, PyRunIs
<1>5. pyOp.rejected \in 0..PyChunk
  BY DEF PyTyped, PyRequest
<1>6. \A f \in PyFlusher : pyFlush[f] \in PyWork /\ pyFlush[f].left \in 0..MaxPyRecords
  BY DEF PyTyped, PyWork
<1>7. pyDelivered \in Nat /\ pyDropped \in Nat /\ pyAttempts \in 0..(PyTries - 1)
  BY DEF PyTyped
<1>8. /\ pyOp.rejected \in Nat /\ pyAttempts \in Nat /\ pyAdmitted \in Nat
      /\ \A f \in PyFlusher : pyFlush[f].left \in Nat
  BY <1>1, <1>2, <1>5, <1>6, <1>7
<1> QED BY <1>1, <1>2, <1>3, <1>4, <1>6, <1>7, <1>8

(* A chunk's records are beside those that went before it.                 *)
LEMMA PyAddsUp ==
  ASSUME NEW b \in Nat, NEW k \in Nat, NEW z \in 0..k, NEW S,
         (b + z + 1)..(b + k) \subseteq S
  PROVE  /\ Cardinality((1..b) \cap S) \in Nat /\ Cardinality((1..(b + k)) \cap S) \in Nat
         /\ Cardinality((1..b) \cap S) + (k - z) =< Cardinality((1..(b + k)) \cap S)
<1>1. PICK A : A = (1..b) \cap S
  OBVIOUS
<1>2. PICK B : B = (b + z + 1)..(b + k)
  OBVIOUS
<1>3. PICK C : C = (1..(b + k)) \cap S
  OBVIOUS
<1>4. z \in Nat /\ z =< k /\ b + z + 1 \in Int /\ b + k \in Int
  OBVIOUS
<1>5. IsFiniteSet(B) /\ Cardinality(B) = k - z
  <2> DEFINE lo == b + z + 1
             hi == b + k
  <2> HIDE DEF lo, hi
  <2>0. lo \in Int /\ hi \in Int /\ B = lo..hi
    BY <1>2, <1>4 DEF lo, hi
  <2>1. IsFiniteSet(B) /\ Cardinality(B) = IF lo > hi THEN 0 ELSE hi - lo + 1
    BY <2>0, FS_Interval
  <2>2. (IF lo > hi THEN 0 ELSE hi - lo + 1) = k - z
    BY <1>4 DEF lo, hi
  <2> QED BY <2>1, <2>2
<1>6. IsFiniteSet(1..(b + k)) /\ IsFiniteSet(1..b)
  <2>1. 1 \in Int /\ b \in Int
    OBVIOUS
  <2> QED BY <1>4, <2>1, FS_Interval
<1>7. IsFiniteSet(A) /\ IsFiniteSet(C)
  <2>1. A \subseteq 1..b /\ C \subseteq 1..(b + k)
    BY <1>1, <1>3
  <2> QED BY <1>6, <2>1, FS_Subset
<1>8. A \cap B = {} /\ A \cup B \subseteq C
  BY <1>1, <1>2, <1>3, <1>4
<1>9. IsFiniteSet(A \cup B) /\ Cardinality(A \cup B) = Cardinality(A) + Cardinality(B) - Cardinality({})
  BY <1>5, <1>7, <1>8, FS_Union
<1>10. Cardinality({}) = 0
  BY FS_EmptySet
<1>11. Cardinality(A) \in Nat /\ Cardinality(C) \in Nat /\ Cardinality(A \cup B) \in Nat
  BY <1>7, <1>9, FS_CardinalityType
<1>12. Cardinality(A \cup B) =< Cardinality(C)
  BY <1>7, <1>8, FS_Subset
<1>13. Cardinality(A) + (k - z) =< Cardinality(C)
  <2>1. k - z \in Nat
    BY <1>4
  <2> QED BY <1>5, <1>9, <1>10, <1>11, <1>12, <2>1
<1> QED BY <1>1, <1>3, <1>11, <1>13

LEMMA PyCounts ==
  ASSUME NEW b \in Nat, NEW S
  PROVE  Cardinality((1..b) \cap S) \in Nat
<1>1. 0 \in 0..0 /\ (b + 0 + 1)..(b + 0) \subseteq S
  OBVIOUS
<1> QED BY <1>1, PyAddsUp

LEMMA PyStarts == PyInit => PyInv
<1> SUFFICES ASSUME PyInit PROVE PyInv
  OBVIOUS
<1>1. PyTyped
  <2>1. PyOff \in PyWork /\ PyNoOp \in PyRequest
    BY PyConstants DEF PyOff, PyWork, PyNoOp, PyRequest
  <2>2. pyFlush \in [PyFlusher -> PyWork] /\ pyOp \in PyRequest
    BY <2>1 DEF PyInit
  <2>3. pyAttempts \in 0..(PyTries - 1)
    BY PyConstants DEF PyInit
  <2> QED BY <2>2, <2>3 DEF PyInit, PyTyped
<1>2. \A f \in PyFlusher : pyFlush[f].at = "off"
  BY DEF PyInit, PyOff
<1>3. PyShut
  BY <1>2 DEF PyInit, PyShut, PyFlusher
<1>4. PyLocked(0, 0)
  BY <1>2 DEF PyLocked, PyBusy, PyPosting, PyCounting, PyAt
<1>5. PyLine(0, 0, 0)
  <2>1. PyRun(0, 0) = <<>>
    <3>1. PyRun(0, 0) \in Seq(Nat) /\ Len(PyRun(0, 0)) = 0
      BY PyRunIs
    <3> QED BY <3>1
  <2>2. pyOp.chunk = <<>> /\ pyOp.rejected = 0 /\ pyOp.at = "done"
    BY DEF PyInit, PyNoOp
  <2>3. ~PyRunning /\ ~(\E f \in PyFlusher : PyPosting(f))
    BY <1>2, <2>2 DEF PyPosting, PyRunning
  <2>4. pyQueue = <<>> /\ pyAdmitted = 0
    BY DEF PyInit
  <2> QED BY <2>1, <2>2, <2>3, <2>4, PyConstants DEF PyLine
<1>6. PyBooks(0, 0, 0)
  <2>1. ~PyCounting /\ ~(\E f \in PyFlusher : PyPosting(f))
    BY <1>2 DEF PyCounting, PyAt, PyPosting
  <2>2. Cardinality((1..0) \cap pyStored) \in Nat
    BY PyCounts
  <2>3. pyStored = {} /\ pyDelivered = 0 /\ pyDropped = 0
    BY DEF PyInit
  <2> QED BY <2>1, <2>2, <2>3 DEF PyBooks
<1> QED BY <1>1, <1>3, <1>4, <1>5, <1>6 DEF PyInv, PyHolds

(* What changes neither the queue nor the books.                           *)
LEMMA PyKeeps ==
  ASSUME NEW b, NEW n, NEW k, PyHolds(b, n, k), PyTyped', PyShut', PyLocked(n, k)',
         UNCHANGED <<pyQueue, pyAdmitted, pyDelivered, pyDropped, pyStored>>,
         pyOp'.at = pyOp.at, pyOp'.chunk = pyOp.chunk, pyOp'.outcome = pyOp.outcome, pyOp'.rejected = pyOp.rejected,
         \A f \in PyFlusher : PyPosting(f)' => PyPosting(f),
         PyCounting' <=> PyCounting
  PROVE  PyHolds(b, n, k)'
<1>1. PyLine(b, n, k) /\ PyBooks(b, n, k)
  BY DEF PyHolds
<1>2. PyRunning' <=> PyRunning
  BY DEF PyRunning
<1>3. PyLine(b, n, k)'
  BY <1>1, <1>2 DEF PyLine
<1>4. PyBooks(b, n, k)'
  <2>1. (IF PyCounting' THEN k ELSE 0) = (IF PyCounting THEN k ELSE 0)
    OBVIOUS
  <2>2. (IF PyCounting' THEN k - pyOp'.rejected ELSE 0) = (IF PyCounting THEN k - pyOp.rejected ELSE 0)
    OBVIOUS
  <2>3. /\ pyDelivered' + pyDropped' = b + (IF PyCounting' THEN k ELSE 0)
        /\ pyDelivered' =< Cardinality((1..b) \cap pyStored') + (IF PyCounting' THEN k - pyOp'.rejected ELSE 0)
    BY <1>1, <2>1, <2>2 DEF PyBooks
  <2>4. \A r \in pyStored' : r =< b + PyChunk
    BY <1>1 DEF PyBooks
  <2>5. pyOp'.at = "done" /\ pyOp'.outcome = "answered" /\ (\E f \in PyFlusher : PyPosting(f)') =>
          (b + pyOp'.rejected + 1)..(b + k) \subseteq pyStored'
    BY <1>1 DEF PyBooks
  <2> QED BY <2>3, <2>4, <2>5 DEF PyBooks
<1> QED BY <1>3, <1>4 DEF PyHolds

(* A flush that is not counting goes elsewhere.                            *)
LEMMA PyMoves ==
  ASSUME NEW b, NEW n, NEW k, PyHolds(b, n, k), PyTyped', PyShut',
         NEW f \in PyFlusher, NEW w \in PyWork, pyFlush' = [pyFlush EXCEPT ![f] = w],
         ~PyAt(f, "counted"), w.at \in {"off", "called", "loop"},
         w.at = "loop" => w.left =< n /\ \A g \in PyFlusher : PyBusy(g) => g = f,
         UNCHANGED <<pyQueue, pyAdmitted, pyDelivered, pyDropped, pyStored>>,
         pyOp'.at = pyOp.at, pyOp'.chunk = pyOp.chunk, pyOp'.outcome = pyOp.outcome, pyOp'.rejected = pyOp.rejected
  PROVE  PyHolds(b, n, k)'
<1>1. PyLocked(n, k) /\ pyFlush \in [PyFlusher -> PyWork]
  BY DEF PyHolds, PyTyped
<1>2. pyFlush'[f] = w /\ \A g \in PyFlusher : g # f => pyFlush'[g] = pyFlush[g]
  BY <1>1
<1>3. \A g \in PyFlusher : PyPosting(g)' => PyPosting(g) /\ g # f
  BY <1>2 DEF PyPosting
<1>4. PyCounting' <=> PyCounting
  BY <1>2 DEF PyCounting, PyAt
<1>5. PyLocked(n, k)'
  <2>1. ASSUME NEW g \in PyFlusher
        PROVE  (PyBusy(g)' => pyFlush'[g].left =< n) /\ (PyPosting(g)' => k =< pyFlush'[g].left)
    BY <1>1, <1>2, <1>3 DEF PyLocked, PyBusy, PyPosting
  <2>2. ASSUME NEW g \in PyFlusher, NEW h \in PyFlusher, PyBusy(g)', PyBusy(h)' PROVE g = h
    BY <1>1, <1>2, <2>2 DEF PyLocked, PyBusy
  <2>3. PyCounting' => pyOp'.at = "done" /\ pyOp'.outcome = "answered"
    BY <1>1, <1>4 DEF PyLocked
  <2> QED BY <2>1, <2>2, <2>3 DEF PyLocked
<1> QED BY <1>3, <1>4, <1>5, PyKeeps

(* A flush that ends lets a close go on, or ends it.                       *)
LEMMA PyReturned ==
  ASSUME PyShut, NEW f \in PyFlusher, pyFlush \in [PyFlusher -> PyWork], ~PyAt(f, "off"),
         NEW closing \in {"check", "no"}, PyReturns(f, closing),
         UNCHANGED <<pyState, pyStop, pyQueue>>
  PROVE  PyShut'
<1>1. {"worker", "closer"} \subseteq PyFlusher
  BY DEF PyFlusher
<1>2. /\ pyFlush'[f] = PyOff /\ PyOff.at = "off" /\ \A g \in PyFlusher : g # f => pyFlush'[g] = pyFlush[g]
      /\ pyClosing' = IF f = "closer" THEN closing ELSE pyClosing
  BY DEF PyReturns, PyOff
<1>3. CASE f = "closer"
  <2>1. pyClosing = "flush" /\ pyFlush["worker"].at = "off" /\ pyStop /\ pyState = "closing"
    BY <1>3 DEF PyShut, PyAt
  <2>2. pyFlush'["worker"] = pyFlush["worker"] /\ pyFlush'["closer"].at = "off"
    BY <1>1, <1>2, <1>3
  <2> QED BY <2>1, <2>2 DEF PyShut
<1>4. CASE f # "closer"
  <2>1. pyFlush["worker"].at = "off" => pyFlush'["worker"].at = "off"
    BY <1>1, <1>2
  <2>2. pyFlush'["closer"] = pyFlush["closer"] /\ pyClosing' = pyClosing
    BY <1>1, <1>2, <1>4
  <2> QED BY <2>1, <2>2 DEF PyShut
<1> QED BY <1>3, <1>4

LEMMA PyTypedOn ==
  ASSUME PyTyped, NEW f \in PyFlusher, NEW w \in PyWork, pyFlush' = [pyFlush EXCEPT ![f] = w],
         pyClosing' \in {"no", "join", "flush", "check"}, UNCHANGED <<pyState, pyStop, pyStored>>,
         pyOp' \in PyRequest, pyAttempts' \in 0..(PyTries - 1), pyGated' \in BOOLEAN,
         pyDelivered' \in Nat, pyDropped' \in Nat
  PROVE  PyTyped'
<1>1. pyFlush' \in [PyFlusher -> PyWork]
  BY DEF PyTyped
<1> QED BY <1>1 DEF PyTyped

LEMMA PyOffFits == PyOff \in PyWork /\ PyOff.at = "off" /\ PyOff.left = 0
BY PyConstants DEF PyOff, PyWork

LEMMA PyCancels ==
  ASSUME NEW o \in PyRequest, NEW c \in BOOLEAN, NEW p, p = [o EXCEPT !.cancelled = @ \/ c]
  PROVE  p \in PyRequest /\ p.at = o.at /\ p.chunk = o.chunk /\ p.outcome = o.outcome /\ p.rejected = o.rejected
<1>1. PICK d \in BOOLEAN : d <=> o.cancelled \/ c
  OBVIOUS
<1>2. (o.cancelled \/ c) = d
  BY <1>1 DEF PyRequest
<1>3. p = [o EXCEPT !.cancelled = d]
  BY <1>2
<1> QED BY <1>3 DEF PyRequest

(* A flush that ends, or gives up: its chunk stays and nothing is counted. *)
LEMMA PyEnds ==
  ASSUME NEW b, NEW n, NEW k, PyHolds(b, n, k), NEW f \in PyFlusher,
         pyFlush[f].at \in {"called", "loop", "post"}, NEW closing \in {"check", "no"}, PyReturns(f, closing),
         UNCHANGED <<pyState, pyStop, pyQueue, pyAdmitted, pyDelivered, pyDropped, pyStored>>,
         pyOp' = pyOp \/ pyOp' = [pyOp EXCEPT !.cancelled = @ \/ PyRunning],
         pyAttempts' \in 0..(PyTries - 1), pyGated' \in BOOLEAN
  PROVE  PyHolds(b, n, k)'
<1>1. PyTyped /\ PyShut /\ pyFlush \in [PyFlusher -> PyWork] /\ pyOp \in PyRequest
  BY DEF PyHolds, PyTyped
<1>2. pyFlush' = [pyFlush EXCEPT ![f] = PyOff] /\ PyOff \in PyWork /\ PyOff.at = "off"
  BY PyOffFits DEF PyReturns
<1>3. PyShut'
  <2>1. ~PyAt(f, "off")
    BY DEF PyAt
  <2> QED BY <1>1, <2>1, PyReturned
<1>4. /\ pyOp' \in PyRequest /\ pyOp'.at = pyOp.at /\ pyOp'.chunk = pyOp.chunk
      /\ pyOp'.outcome = pyOp.outcome /\ pyOp'.rejected = pyOp.rejected
  <2>1. CASE pyOp' = pyOp
    BY <1>1, <2>1
  <2>2. CASE pyOp' = [pyOp EXCEPT !.cancelled = @ \/ PyRunning]
    <3>1. PyRunning \in BOOLEAN
      BY DEF PyRunning
    <3> QED BY <1>1, <2>2, <3>1, PyCancels
  <2> QED BY <2>1, <2>2
<1>5. PyTyped'
  <2>1. pyClosing' \in {"no", "join", "flush", "check"} /\ pyDelivered' \in Nat /\ pyDropped' \in Nat
    BY <1>1 DEF PyReturns, PyTyped
  <2> QED BY <1>1, <1>2, <1>4, <2>1, PyTypedOn
<1>6. ~PyAt(f, "counted")
  BY DEF PyAt
<1> QED BY <1>2, <1>3, <1>4, <1>5, <1>6, PyMoves

LEMMA PyLogs ==
  ASSUME NEW b, NEW n, NEW k, PyHolds(b, n, k), PyLog
  PROVE  PyHolds(b, n + 1, k)'
<1>1. PyTyped /\ PyShut /\ PyLine(b, n, k) /\ PyLocked(n, k) /\ PyBooks(b, n, k)
  BY DEF PyHolds
<1>2. /\ b \in Nat /\ n \in Nat /\ k \in Nat /\ pyQueue = PyRun(b, n) /\ MaxPyRecords \in Nat
      /\ \A f \in PyFlusher : pyFlush[f].left \in Nat
  BY <1>1, PyNumbers
<1>3. /\ pyState = "open" /\ pyAdmitted < MaxPyRecords /\ pyAdmitted' = pyAdmitted + 1
      /\ pyQueue' = Append(pyQueue, pyAdmitted + 1)
      /\ UNCHANGED <<pyState, pyStop, pyFlush, pyOp, pyAttempts, pyGated, pyDelivered, pyDropped, pyClosing, pyStored>>
  BY DEF PyLog
<1>4. PyTyped' /\ PyShut'
  BY <1>1, <1>3 DEF PyTyped, PyShut
<1>5. PyLine(b, n + 1, k)'
  <2>1. pyAdmitted = b + n
    BY <1>1 DEF PyLine
  <2>2. pyQueue' = PyRun(b, n + 1)
    BY <1>2, <1>3, <2>1, PyRunGrows
  <2>3. pyAdmitted' = b + (n + 1) /\ pyAdmitted' =< MaxPyRecords
    BY <1>2, <1>3, <2>1
  <2>4. /\ Len(pyOp'.chunk) = k /\ k =< PyChunk /\ pyOp'.rejected =< k
        /\ PyRunning' \/ (\E f \in PyFlusher : PyPosting(f)') => k \in 1..n /\ pyOp'.chunk = PyRun(b, k)
    BY <1>1, <1>3 DEF PyLine, PyRunning, PyPosting
  <2>5. k \in 1..n => k \in 1..(n + 1)
    BY <1>2
  <2> QED BY <1>2, <2>2, <2>3, <2>4, <2>5 DEF PyLine
<1>6. PyLocked(n + 1, k)'
  <2>1. \A f \in PyFlusher : PyBusy(f) => pyFlush[f].left =< n + 1
    BY <1>1, <1>2 DEF PyLocked
  <2> QED BY <1>1, <1>3, <2>1 DEF PyLocked, PyBusy, PyPosting, PyCounting, PyAt
<1>7. PyBooks(b, n + 1, k)'
  BY <1>1, <1>3 DEF PyBooks, PyPosting, PyCounting, PyAt
<1> QED BY <1>4, <1>5, <1>6, <1>7 DEF PyHolds

LEMMA PyCalls ==
  ASSUME NEW b, NEW n, NEW k, PyHolds(b, n, k), NEW f \in PyFlusher, PyCall(f) \/ PyOwn(f)
  PROVE  PyHolds(b, n, k)'
<1>1. PyTyped /\ PyShut /\ PyLine(b, n, k) /\ pyFlush \in [PyFlusher -> PyWork] /\ {"worker", "closer"} \subseteq PyFlusher
  BY DEF PyHolds, PyTyped, PyFlusher
<1>2. n \in Nat /\ MaxPyRecords \in Nat /\ b \in Nat /\ b + n =< MaxPyRecords /\ Len(pyQueue) = n
  BY <1>1, PyNumbers
<1>3. UNCHANGED <<pyState, pyStop, pyQueue, pyAdmitted, pyOp, pyAttempts, pyGated, pyDelivered, pyDropped, pyClosing, pyStored>>
  BY DEF PyCall, PyOwn
<1>4. PICK w \in PyWork :
        /\ pyFlush' = [pyFlush EXCEPT ![f] = w] /\ w.at \in {"called", "loop"}
        /\ w.at = "loop" => w.left =< n /\ PyFlushFree
  <2>1. CASE PyCall(f)
    <3>1. PICK w : w = [pyFlush[f] EXCEPT !.at = "called"]
      OBVIOUS
    <3>2. w \in PyWork /\ w.at = "called"
      BY <1>1, <3>1 DEF PyWork
    <3>3. pyFlush' = [pyFlush EXCEPT ![f] = w]
      BY <1>1, <2>1, <3>1 DEF PyCall
    <3> QED BY <3>2, <3>3
  <2>2. CASE PyOwn(f)
    <3>1. PICK w : w = [at |-> "loop", left |-> n]
      OBVIOUS
    <3>2. w \in PyWork /\ w.at = "loop" /\ w.left = n
      BY <1>2, <3>1 DEF PyWork
    <3>3. pyFlush' = [pyFlush EXCEPT ![f] = w] /\ PyFlushFree
      BY <1>2, <2>2, <3>1 DEF PyOwn
    <3>4. w.left =< n
      BY <1>2, <3>2
    <3> QED BY <3>2, <3>3, <3>4, Zenon
  <2> QED BY <2>1, <2>2
<1>5. PyTyped'
  BY <1>1, <1>3, <1>4, PyTypedOn DEF PyTyped
<1>6. pyFlush[f].at \in {"off", "called"}
  BY DEF PyCall, PyOwn, PyAt
<1>7. PyShut'
  <2>1. \A g \in PyFlusher : g # f => pyFlush'[g] = pyFlush[g]
    BY <1>1, <1>4
  <2>2. f = "worker" /\ pyFlush[f].at = "off" => ~pyStop
    BY DEF PyCall, PyOwn, PyAt
  <2>3. f = "closer" /\ pyFlush[f].at = "off" => pyClosing = "flush"
    BY DEF PyCall, PyOwn, PyAt
  <2>4. pyClosing \in {"flush", "check"} \/ pyState = "closed" => pyFlush'["worker"].at = "off"
    <3>1. CASE f = "worker"
      BY <1>1, <1>6, <2>2, <3>1 DEF PyShut, PyTyped
    <3>2. CASE f # "worker"
      BY <1>1, <2>1, <3>2 DEF PyShut
    <3> QED BY <3>1, <3>2
  <2>5. pyFlush'["closer"].at # "off" => pyClosing = "flush"
    <3>1. CASE f = "closer"
      BY <1>1, <1>6, <2>3, <3>1 DEF PyShut
    <3>2. CASE f # "closer"
      BY <1>1, <2>1, <3>2 DEF PyShut
    <3> QED BY <3>1, <3>2
  <2> QED BY <1>1, <1>3, <2>4, <2>5 DEF PyShut
<1>8. w.at = "loop" => w.left =< n /\ \A g \in PyFlusher : PyBusy(g) => g = f
  BY <1>4 DEF PyFlushFree, PyBusy
<1>9. ~PyAt(f, "counted")
  BY <1>6 DEF PyAt
<1> QED BY <1>3, <1>4, <1>5, <1>7, <1>8, <1>9, PyMoves

LEMMA PyFlushEnds ==
  ASSUME NEW b, NEW n, NEW k, PyHolds(b, n, k), NEW f \in PyFlusher,
         PyDone(f) \/ PyDeadline(f) \/ PyGiveUp(f) \/ PyRetries(f)
  PROVE  PyHolds(b, n, k)'
<1>1. /\ pyFlush[f].at \in {"called", "loop", "post"}
      /\ UNCHANGED <<pyState, pyStop, pyQueue, pyAdmitted, pyDelivered, pyDropped, pyStored>>
  BY DEF PyDone, PyDeadline, PyGiveUp, PyRetries, PyAt, PyHeard
<1>2. PyReturns(f, "check") \/ PyReturns(f, "no")
  BY DEF PyDone, PyDeadline, PyGiveUp, PyRetries, PyRaises
<1>3. pyOp' = pyOp \/ pyOp' = [pyOp EXCEPT !.cancelled = @ \/ PyRunning]
  BY DEF PyDone, PyDeadline, PyGiveUp, PyRetries
<1>4. pyAttempts \in 0..(PyTries - 1) /\ pyGated \in BOOLEAN /\ PyTries \in Nat
  BY PyConstants DEF PyHolds, PyTyped
<1>5. pyAttempts' \in 0..(PyTries - 1)
  <2>1. pyAttempts' = pyAttempts \/ (pyAttempts' = pyAttempts + 1 /\ pyAttempts + 1 < PyTries)
    BY DEF PyDone, PyDeadline, PyGiveUp, PyRetries
  <2> QED BY <1>4, <2>1
<1>6. pyGated' \in BOOLEAN
  <2>1. pyGated' = pyGated \/ pyGated' = TRUE
    BY DEF PyDone, PyDeadline, PyGiveUp, PyRetries
  <2> QED BY <1>4, <2>1
<1> QED BY <1>1, <1>2, <1>3, <1>5, <1>6, PyEnds

(* The head of the queue is posted, or the one before it is under way.     *)
LEMMA PyPosts ==
  ASSUME NEW b, NEW n, NEW k, PyHolds(b, n, k), NEW f \in PyFlusher, PyPost(f)
  PROVE  \E j : PyHolds(b, n, j)'
<1>1. PyTyped /\ PyShut /\ PyLine(b, n, k) /\ PyLocked(n, k) /\ PyBooks(b, n, k)
      /\ pyFlush \in [PyFlusher -> PyWork] /\ {"worker", "closer"} \subseteq PyFlusher
  BY DEF PyHolds, PyTyped, PyFlusher
<1>2. /\ b \in Nat /\ n \in Nat /\ k \in Nat /\ b + n =< MaxPyRecords /\ MaxPyRecords \in Nat
      /\ PyChunk \in Nat /\ PyChunk >= 1 /\ pyFlush[f].left \in Nat /\ pyFlush[f] \in PyWork /\ pyQueue = PyRun(b, n)
  BY <1>1, PyNumbers, PyConstants
<1>3. /\ pyFlush[f].at = "loop" /\ pyFlush[f].left > 0
      /\ UNCHANGED <<pyState, pyStop, pyQueue, pyAdmitted, pyAttempts, pyGated, pyDelivered, pyDropped, pyStored>>
  BY DEF PyPost, PyAt
<1>4. CASE PyRaises(f) /\ UNCHANGED pyOp
  <2>1. pyFlush[f].at \in {"called", "loop", "post"} /\ PyReturns(f, "no") /\ "no" \in {"check", "no"}
    BY <1>3, <1>4 DEF PyRaises
  <2>2. pyAttempts' \in 0..(PyTries - 1) /\ pyGated' \in BOOLEAN
    BY <1>1, <1>3 DEF PyTyped
  <2> QED BY <1>3, <1>4, <2>1, <2>2, PyEnds
<1>5. CASE /\ PyTransportFree /\ pyOp' = [PyNoOp EXCEPT !.at = "running", !.chunk = PyChosen(f)]
           /\ pyFlush' = [pyFlush EXCEPT ![f].at = "post"] /\ UNCHANGED pyClosing
  <2>1. PICK j : j = IF pyFlush[f].left < PyChunk THEN pyFlush[f].left ELSE PyChunk
    OBVIOUS
  <2>2. pyFlush[f].left =< n /\ (\A g \in PyFlusher : PyBusy(g) => g = f)
    BY <1>1, <1>3 DEF PyLocked, PyBusy
  <2>3. j \in 1..n /\ j =< PyChunk /\ j =< pyFlush[f].left /\ j \in 0..n /\ j \in Nat
    BY <1>2, <1>3, <2>1, <2>2
  <2>4. PyChosen(f) = PyRun(b, j)
    <3>1. SubSeq(PyRun(b, n), 1, j) = PyRun(b, j)
      BY <1>2, <2>3, PyRunParts
    <3> QED BY <1>2, <2>1, <3>1 DEF PyChosen
  <2>5. PyRun(b, j) \in Seq(1..MaxPyRecords) /\ Len(PyRun(b, j)) = j
    <3>1. b + j =< MaxPyRecords
      BY <1>2, <2>3
    <3> QED BY <1>2, <2>3, <3>1, PyRunIs
  <2>6. PICK c : c = PyRun(b, j)
    OBVIOUS
  <2>7. pyOp' = [at |-> "running", chunk |-> c, cancelled |-> FALSE, outcome |-> "failed", rejected |-> 0]
    BY <1>5, <2>4, <2>6 DEF PyNoOp
  <2>8. pyOp' \in PyRequest /\ pyOp'.at = "running" /\ pyOp'.chunk = PyRun(b, j) /\ pyOp'.rejected = 0
    BY <1>2, <2>5, <2>6, <2>7 DEF PyRequest
  <2>9. PICK w \in PyWork : w.at = "post" /\ w.left = pyFlush[f].left /\ pyFlush' = [pyFlush EXCEPT ![f] = w]
    <3>1. PICK w : w = [pyFlush[f] EXCEPT !.at = "post"]
      OBVIOUS
    <3>2. w \in PyWork /\ w.at = "post" /\ w.left = pyFlush[f].left
      BY <1>2, <3>1 DEF PyWork
    <3>3. pyFlush' = [pyFlush EXCEPT ![f] = w]
      BY <1>5, <3>1
    <3> QED BY <3>2, <3>3
  <2>10. pyFlush'[f] = w /\ \A g \in PyFlusher : g # f => pyFlush'[g] = pyFlush[g]
    BY <1>1, <2>9
  <2>11. PyTyped'
    <3>1. /\ pyClosing' \in {"no", "join", "flush", "check"} /\ pyDelivered' \in Nat /\ pyDropped' \in Nat
          /\ pyAttempts' \in 0..(PyTries - 1) /\ pyGated' \in BOOLEAN
      BY <1>1, <1>3, <1>5 DEF PyTyped
    <3> QED BY <1>1, <1>3, <2>8, <2>9, <3>1, PyTypedOn
  <2>12. PyShut'
    <3>1. (pyFlush'["worker"].at = "off" <=> pyFlush["worker"].at = "off")
          /\ (pyFlush'["closer"].at = "off" <=> pyFlush["closer"].at = "off")
      BY <1>1, <1>3, <2>9, <2>10
    <3> QED BY <1>1, <1>3, <1>5, <3>1 DEF PyShut
  <2>13. PyLine(b, n, j)'
    BY <1>1, <1>2, <1>3, <2>3, <2>5, <2>8 DEF PyLine
  <2>14. ~PyCounting /\ ~PyCounting'
    <3>1. \A g \in PyFlusher : pyFlush[g].at # "counted"
      BY <1>3, <2>2 DEF PyBusy
    <3> QED BY <2>9, <2>10, <3>1 DEF PyCounting, PyAt
  <2>15. PyLocked(n, j)'
    <3>1. \A g \in PyFlusher : g # f => ~PyBusy(g)' /\ ~PyPosting(g)'
      BY <2>2, <2>10 DEF PyBusy, PyPosting
    <3>2. pyFlush'[f].left =< n /\ j =< pyFlush'[f].left
      BY <2>2, <2>3, <2>9, <2>10
    <3> QED BY <2>14, <3>1, <3>2 DEF PyLocked
  <2>16. PyBooks(b, n, j)'
    BY <1>1, <1>3, <2>8, <2>14 DEF PyBooks
  <2> QED BY <2>11, <2>12, <2>13, <2>15, <2>16 DEF PyHolds
<1> QED BY <1>4, <1>5 DEF PyPost

(* A request ends, and of its records the server has all but the first.    *)
LEMMA PyTransported ==
  ASSUME NEW b, NEW n, NEW k, PyHolds(b, n, k), PyTransportEnds
  PROVE  PyHolds(b, n, k)'
<1>1. PyTyped /\ PyShut /\ PyLine(b, n, k) /\ PyLocked(n, k) /\ PyBooks(b, n, k) /\ pyOp \in PyRequest
  BY DEF PyHolds, PyTyped
<1>2. /\ b \in Nat /\ n \in Nat /\ k \in Nat /\ b + n =< MaxPyRecords /\ MaxPyRecords \in Nat
      /\ PyChunk \in Nat /\ Len(pyOp.chunk) = k /\ k =< PyChunk /\ pyOp.rejected \in Nat /\ pyOp.rejected =< k
  BY <1>1, PyNumbers
<1>3. /\ pyOp.at = "running" /\ k \in 1..n /\ pyOp.chunk = PyRun(b, k)
      /\ UNCHANGED <<pyState, pyStop, pyQueue, pyAdmitted, pyFlush, pyAttempts, pyGated, pyDelivered, pyDropped, pyClosing>>
  BY <1>1 DEF PyTransportEnds, PyRunning, PyLine
<1>4. PICK z \in 0..k, o \in {"answered", "failed", "refused"} :
        /\ pyOp' = [pyOp EXCEPT !.at = "done", !.outcome = o, !.rejected = z]
        /\ pyStored \subseteq pyStored' /\ pyStored' \subseteq pyStored \cup ((b + z + 1)..(b + k))
        /\ o # "refused" => (b + z + 1)..(b + k) \subseteq pyStored'
  <2>1. ASSUME NEW z \in 0..k, NEW o \in {"answered", "failed"},
               pyOp' = [pyOp EXCEPT !.at = "done", !.outcome = o, !.rejected = z],
               pyStored' = pyStored \cup ToSet(SubSeq(pyOp.chunk, z + 1, Len(pyOp.chunk)))
        PROVE  pyStored' = pyStored \cup ((b + z + 1)..(b + k))
    <3>1. SubSeq(PyRun(b, k), z + 1, k) = PyRun(b + z, k - z)
      BY <1>2, PyRunParts
    <3>2. b + z \in Nat /\ k - z \in Nat /\ (b + z) + (k - z) = b + k
      BY <1>2
    <3>3. ToSet(PyRun(b + z, k - z)) = (b + z + 1)..((b + z) + (k - z))
      BY <3>2, PyRunIs
    <3>4. SubSeq(pyOp.chunk, z + 1, Len(pyOp.chunk)) = PyRun(b + z, k - z)
      BY <1>2, <1>3, <3>1
    <3>5. ToSet(SubSeq(pyOp.chunk, z + 1, Len(pyOp.chunk))) = (b + z + 1)..(b + k)
      BY <3>2, <3>3, <3>4
    <3> QED BY <2>1, <3>5
  <2>2. CASE \E z \in 0..k, o \in {"answered", "failed"} :
               /\ pyOp' = [pyOp EXCEPT !.at = "done", !.outcome = o, !.rejected = z]
               /\ pyStored' = pyStored \cup ToSet(SubSeq(pyOp.chunk, z + 1, Len(pyOp.chunk)))
    <3>1. PICK z \in 0..k, o \in {"answered", "failed"} :
               /\ pyOp' = [pyOp EXCEPT !.at = "done", !.outcome = o, !.rejected = z]
               /\ pyStored' = pyStored \cup ToSet(SubSeq(pyOp.chunk, z + 1, Len(pyOp.chunk)))
      BY <2>2
    <3>2. pyStored' = pyStored \cup ((b + z + 1)..(b + k))
      BY <2>1, <3>1
    <3>3. /\ pyStored \subseteq pyStored' /\ pyStored' \subseteq pyStored \cup ((b + z + 1)..(b + k))
          /\ (b + z + 1)..(b + k) \subseteq pyStored' /\ o \in {"answered", "failed", "refused"}
      BY <3>2
    <3> QED BY <3>1, <3>3, Zenon
  <2>3. CASE pyOp' = [pyOp EXCEPT !.at = "done", !.outcome = "refused"] /\ UNCHANGED pyStored
    <3>1. pyOp.rejected \in 0..k
      BY <1>2
    <3>2. pyOp' = [pyOp EXCEPT !.at = "done", !.outcome = "refused", !.rejected = pyOp.rejected]
      BY <1>1, <2>3 DEF PyRequest
    <3>3. pyStored \subseteq pyStored' /\ pyStored' \subseteq pyStored \cup ((b + pyOp.rejected + 1)..(b + k))
      BY <2>3
    <3> QED BY <3>1, <3>2, <3>3
  <2> QED BY <1>2, <2>2, <2>3 DEF PyTransportEnds
<1>5. /\ pyOp' \in PyRequest /\ pyOp'.at = "done" /\ pyOp'.chunk = pyOp.chunk /\ pyOp'.outcome = o /\ pyOp'.rejected = z
  <2>1. z \in 0..PyChunk
    BY <1>2
  <2> QED BY <1>1, <1>4, <2>1 DEF PyRequest
<1>6. PyTyped' /\ PyShut'
  <2>1. pyStored' \subseteq 1..MaxPyRecords
    <3>1. (b + z + 1)..(b + k) \subseteq 1..MaxPyRecords
      BY <1>2, <1>3
    <3> QED BY <1>1, <1>4, <3>1 DEF PyTyped
  <2> QED BY <1>1, <1>3, <1>5, <2>1 DEF PyTyped, PyShut
<1>7. PyLine(b, n, k)'
  <2>1. pyOp'.rejected =< k
    BY <1>2, <1>5
  <2> QED BY <1>1, <1>3, <1>5, <2>1 DEF PyLine
<1>8. ~PyCounting /\ ~PyCounting'
  <2>1. ~PyCounting
    BY <1>1, <1>3 DEF PyLocked
  <2> QED BY <1>3, <2>1 DEF PyCounting, PyAt
<1>9. PyLocked(n, k)'
  BY <1>1, <1>3, <1>8 DEF PyLocked, PyBusy, PyPosting
<1>10. PyBooks(b, n, k)'
  <2>1. (1..b) \cap pyStored' = (1..b) \cap pyStored
    <3>1. \A r \in (b + z + 1)..(b + k) : r \notin 1..b
      BY <1>2
    <3> QED BY <1>4, <3>1
  <2>2. \A r \in pyStored' : r =< b + PyChunk
    <3>1. \A r \in (b + z + 1)..(b + k) : r =< b + PyChunk
      BY <1>2
    <3> QED BY <1>1, <1>4, <3>1 DEF PyBooks
  <2>3. pyOp'.outcome = "answered" => (b + pyOp'.rejected + 1)..(b + k) \subseteq pyStored'
    BY <1>4, <1>5
  <2> QED BY <1>1, <1>3, <1>8, <2>1, <2>2, <2>3 DEF PyBooks
<1> QED BY <1>6, <1>7, <1>9, <1>10 DEF PyHolds

(* An acknowledged chunk is counted.                                       *)
LEMMA PyAcks ==
  ASSUME NEW b, NEW n, NEW k, PyHolds(b, n, k), NEW f \in PyFlusher, PyAcknowledged(f)
  PROVE  PyHolds(b, n, k)'
<1>1. PyTyped /\ PyShut /\ PyLine(b, n, k) /\ PyLocked(n, k) /\ PyBooks(b, n, k) /\ pyOp \in PyRequest
      /\ pyFlush \in [PyFlusher -> PyWork] /\ {"worker", "closer"} \subseteq PyFlusher
  BY DEF PyHolds, PyTyped, PyFlusher
<1>2. /\ b \in Nat /\ n \in Nat /\ k \in Nat /\ Len(pyOp.chunk) = k /\ pyOp.rejected \in Nat /\ pyOp.rejected =< k
      /\ pyDelivered \in Nat /\ pyDropped \in Nat /\ pyFlush[f] \in PyWork /\ PyTries \in Nat /\ PyTries >= 1
  BY <1>1, PyNumbers, PyConstants
<1>3. /\ pyFlush[f].at = "post" /\ pyOp.at = "done" /\ pyOp.outcome = "answered"
      /\ pyAttempts' = 0 /\ pyDropped' = pyDropped + pyOp.rejected
      /\ pyDelivered' = pyDelivered + Len(pyOp.chunk) - pyOp.rejected
      /\ pyFlush' = [pyFlush EXCEPT ![f].at = "counted"]
      /\ UNCHANGED <<pyState, pyStop, pyQueue, pyAdmitted, pyOp, pyGated, pyClosing, pyStored>>
  BY DEF PyAcknowledged, PyHeard, PyAt
<1>4. PICK z \in Nat : z = pyOp.rejected /\ z =< k
  BY <1>2
<1>5. pyDropped' = pyDropped + z /\ pyDelivered' = pyDelivered + (k - z) /\ pyDropped' \in Nat /\ pyDelivered' \in Nat
      /\ pyDelivered' + pyDropped' = (pyDelivered + pyDropped) + k
  <2>1. pyDropped' = pyDropped + z /\ pyDelivered' = pyDelivered + k - z
    BY <1>2, <1>3, <1>4
  <2>2. \A d, e \in Nat : /\ d + z \in Nat /\ e + k - z = e + (k - z) /\ e + (k - z) \in Nat
                          /\ (e + (k - z)) + (d + z) = (e + d) + k
    BY <1>2, <1>4
  <2> QED BY <1>2, <2>1, <2>2
<1>6. PICK w \in PyWork : w.at = "counted" /\ w.left = pyFlush[f].left /\ pyFlush' = [pyFlush EXCEPT ![f] = w]
  <2>1. PICK w : w = [pyFlush[f] EXCEPT !.at = "counted"]
    OBVIOUS
  <2>2. w \in PyWork /\ w.at = "counted" /\ w.left = pyFlush[f].left
    BY <1>2, <2>1 DEF PyWork
  <2>3. pyFlush' = [pyFlush EXCEPT ![f] = w]
    BY <1>3, <2>1
  <2> QED BY <2>2, <2>3
<1>7. pyFlush'[f] = w /\ \A g \in PyFlusher : g # f => pyFlush'[g] = pyFlush[g]
  BY <1>1, <1>6
<1>8. PyTyped'
  <2>1. /\ pyClosing' \in {"no", "join", "flush", "check"} /\ pyAttempts' \in 0..(PyTries - 1) /\ pyGated' \in BOOLEAN
        /\ pyOp' \in PyRequest
    BY <1>1, <1>2, <1>3 DEF PyTyped
  <2> QED BY <1>1, <1>3, <1>5, <1>6, <2>1, PyTypedOn
<1>9. PyShut'
  <2>1. (pyFlush'["worker"].at = "off" <=> pyFlush["worker"].at = "off")
        /\ (pyFlush'["closer"].at = "off" <=> pyFlush["closer"].at = "off")
    BY <1>1, <1>3, <1>6, <1>7
  <2> QED BY <1>1, <1>3, <2>1 DEF PyShut
<1>10. \A g \in PyFlusher : (PyPosting(g)' <=> PyPosting(g)) /\ (PyBusy(g)' <=> PyBusy(g)) /\ pyFlush'[g].left = pyFlush[g].left
  BY <1>3, <1>6, <1>7 DEF PyPosting, PyBusy
<1>11. PyLine(b, n, k)'
  <2>1. PyRunning' <=> PyRunning
    BY <1>3 DEF PyRunning
  <2> QED BY <1>1, <1>3, <1>10, <2>1 DEF PyLine
<1>12. PyCounting' /\ ~PyCounting
  <2>1. \A g \in PyFlusher : PyBusy(g) => g = f
    BY <1>1, <1>3 DEF PyLocked, PyBusy
  <2>2. ~PyCounting
    BY <1>3, <2>1 DEF PyCounting, PyAt, PyBusy
  <2> QED BY <1>6, <1>7, <2>2 DEF PyCounting, PyAt
<1>13. PyLocked(n, k)'
  BY <1>1, <1>3, <1>10 DEF PyLocked
<1>14. PyBooks(b, n, k)'
  <2>1. Cardinality((1..b) \cap pyStored) \in Nat
    BY <1>2, PyCounts
  <2>2. pyDelivered =< Cardinality((1..b) \cap pyStored) /\ pyDelivered + pyDropped = b
    <3>1. pyDelivered =< Cardinality((1..b) \cap pyStored) + 0 /\ pyDelivered + pyDropped = b + 0
      BY <1>1, <1>12 DEF PyBooks
    <3> QED BY <1>2, <2>1, <3>1
  <2>3. pyDelivered' =< Cardinality((1..b) \cap pyStored) + (k - z)
    <3>1. \A d, c \in Nat : d =< c => d + (k - z) =< c + (k - z)
      BY <1>2, <1>4
    <3> QED BY <1>2, <1>5, <2>1, <2>2, <3>1
  <2>4. pyDelivered' + pyDropped' = b + k
    BY <1>5, <2>2
  <2>5. (\E g \in PyFlusher : PyPosting(g)') => \E g \in PyFlusher : PyPosting(g)
    BY <1>10
  <2> QED BY <1>1, <1>3, <1>4, <1>12, <2>3, <2>4, <2>5 DEF PyBooks
<1> QED BY <1>8, <1>9, <1>11, <1>13, <1>14 DEF PyHolds

(* A chunk leaves the queue, delivered or lost.                            *)
LEMMA PyGoes ==
  ASSUME NEW b, NEW n, NEW k, PyHolds(b, n, k), NEW f \in PyFlusher, PySettle(f) \/ PyLoses(f)
  PROVE  PyHolds(b + k, n - k, k)'
<1>1. PyTyped /\ PyShut /\ PyLine(b, n, k) /\ PyLocked(n, k) /\ PyBooks(b, n, k) /\ pyOp \in PyRequest
      /\ pyFlush \in [PyFlusher -> PyWork] /\ {"worker", "closer"} \subseteq PyFlusher
  BY DEF PyHolds, PyTyped, PyFlusher
<1>2. /\ b \in Nat /\ n \in Nat /\ k \in Nat /\ b + n =< MaxPyRecords /\ MaxPyRecords \in Nat
      /\ Len(pyOp.chunk) = k /\ pyOp.rejected \in Nat /\ pyOp.rejected =< k /\ k =< PyChunk /\ PyChunk \in Nat
      /\ pyDelivered \in Nat /\ pyDropped \in Nat /\ pyFlush[f] \in PyWork /\ PyTries \in Nat /\ PyTries >= 1
      /\ pyQueue = PyRun(b, n) /\ Len(pyQueue) = n /\ pyFlush[f].left \in Nat /\ pyFlush[f].left =< MaxPyRecords
  <2>1. pyFlush[f].left \in 0..MaxPyRecords
    BY <1>1 DEF PyWork
  <2> QED BY <1>1, <2>1, PyNumbers, PyConstants
<1>3. /\ pyFlush[f].at \in {"post", "counted"} /\ PyChunkGoes(f)
      /\ UNCHANGED <<pyState, pyStop, pyAdmitted, pyOp, pyGated, pyDelivered, pyClosing, pyStored>>
  BY DEF PySettle, PyLoses, PyHeard, PyAt
<1>4. k \in 1..n /\ k =< pyFlush[f].left /\ pyFlush[f].left =< n /\ \A g \in PyFlusher : PyBusy(g) => g = f
  BY <1>1, <1>3 DEF PyLine, PyLocked, PyBusy, PyPosting
<1>5. pyQueue' = PyRun(b + k, n - k) /\ b + k \in Nat /\ n - k \in Nat
  <2>0. k \in 0..n
    BY <1>2, <1>4
  <2>1. SubSeq(PyRun(b, n), k + 1, n) = PyRun(b + k, n - k)
    BY <1>2, <2>0, PyRunParts
  <2> QED BY <1>2, <1>3, <1>4, <2>1 DEF PyChunkGoes, PyWithout
<1>6. PICK w \in PyWork : w.at = "loop" /\ w.left = pyFlush[f].left - k /\ pyFlush' = [pyFlush EXCEPT ![f] = w]
  <2>1. PICK w : w = [at |-> "loop", left |-> pyFlush[f].left - k]
    OBVIOUS
  <2>2. pyFlush[f].left - k \in 0..MaxPyRecords
    BY <1>2, <1>4
  <2>3. w \in PyWork /\ w.at = "loop" /\ w.left = pyFlush[f].left - k
    BY <2>1, <2>2 DEF PyWork
  <2>4. pyFlush' = [pyFlush EXCEPT ![f] = w]
    BY <1>2, <1>3, <2>1 DEF PyChunkGoes
  <2> QED BY <2>3, <2>4
<1>7. pyFlush'[f] = w /\ \A g \in PyFlusher : g # f => pyFlush'[g] = pyFlush[g]
  BY <1>1, <1>6
<1>8. PyTyped'
  <2>1. pyDropped' \in Nat
    <3>1. pyDropped' = pyDropped \/ pyDropped' = pyDropped + k
      BY <1>2 DEF PySettle, PyLoses
    <3> QED BY <1>2, <3>1
  <2>2. pyAttempts' \in 0..(PyTries - 1)
    <3>1. pyAttempts' = pyAttempts \/ pyAttempts' = 0
      BY DEF PySettle, PyLoses
    <3> QED BY <1>1, <1>2, <3>1 DEF PyTyped
  <2>3. pyClosing' \in {"no", "join", "flush", "check"} /\ pyGated' \in BOOLEAN /\ pyOp' \in PyRequest /\ pyDelivered' \in Nat
    BY <1>1, <1>3 DEF PyTyped
  <2> QED BY <1>1, <1>3, <1>6, <2>1, <2>2, <2>3, PyTypedOn
<1>9. PyShut'
  <2>1. (pyFlush'["worker"].at = "off" <=> pyFlush["worker"].at = "off")
        /\ (pyFlush'["closer"].at = "off" <=> pyFlush["closer"].at = "off")
    BY <1>1, <1>3, <1>6, <1>7
  <2>2. pyState # "closed"
    <3>1. pyQueue # <<>>
      BY <1>2, <1>4
    <3> QED BY <1>1, <3>1 DEF PyShut
  <2> QED BY <1>1, <1>3, <2>1, <2>2 DEF PyShut
<1>10. \A g \in PyFlusher : ~PyPosting(g)' /\ (PyBusy(g)' => g = f)
  BY <1>4, <1>6, <1>7 DEF PyPosting, PyBusy
<1>11. pyOp.at = "done" /\ ~PyRunning'
  <2>1. pyOp.at = "done"
    BY <1>1 DEF PySettle, PyLoses, PyHeard, PyLocked, PyCounting
  <2> QED BY <1>3, <2>1 DEF PyRunning
<1>12. PyLine(b + k, n - k, k)'
  <2>1. pyAdmitted' = (b + k) + (n - k) /\ pyAdmitted' =< MaxPyRecords
    BY <1>1, <1>2, <1>3 DEF PyLine
  <2> QED BY <1>2, <1>3, <1>5, <1>10, <1>11, <2>1 DEF PyLine
<1>13. ~PyCounting'
  BY <1>10 DEF PyCounting, PyPosting, PyAt
<1>14. PyLocked(n - k, k)'
  <2>1. pyFlush'[f].left =< n - k
    BY <1>2, <1>4, <1>6, <1>7
  <2> QED BY <1>10, <1>13, <2>1 DEF PyLocked
<1>15. PyBooks(b + k, n - k, k)'
  <2>1. PICK z \in 0..k : z = pyOp.rejected
    BY <1>2
  <2>2. PICK c \in Nat : c = Cardinality((1..b) \cap pyStored)
    BY <1>2, PyCounts
  <2>3. PICK d \in Nat : d = Cardinality((1..(b + k)) \cap pyStored)
    BY <1>5, PyCounts
  <2>4. \A r \in pyStored : r =< (b + k) + PyChunk
    <3>1. \A r \in pyStored : r \in Nat /\ r =< b + PyChunk
      BY <1>1, <1>2 DEF PyBooks, PyTyped
    <3> QED BY <1>2, <3>1
  <2>5. pyDelivered' + pyDropped' = b + k /\ pyDelivered' =< d
    <3>1. CASE PySettle(f)
      <4>1. PyCounting /\ pyOp.outcome = "answered"
        BY <1>1, <3>1 DEF PySettle, PyCounting, PyLocked
      <4>2. pyDelivered + pyDropped = b + k /\ pyDelivered =< c + (k - z)
        BY <1>1, <2>1, <2>2, <4>1 DEF PyBooks
      <4>3. (b + z + 1)..(b + k) \subseteq pyStored
        BY <1>1, <1>3, <1>11, <2>1, <4>1 DEF PyBooks, PyPosting
      <4>4. c + (k - z) =< d
        BY <1>2, <2>1, <2>2, <2>3, <4>3, PyAddsUp
      <4>5. pyDelivered' = pyDelivered /\ pyDropped' = pyDropped
        BY <3>1 DEF PySettle
      <4> QED BY <1>2, <2>1, <2>2, <2>3, <4>2, <4>4, <4>5
    <3>2. CASE PyLoses(f)
      <4>1. pyFlush[f].at = "post" /\ pyDropped' = pyDropped + k /\ pyDelivered' = pyDelivered
        BY <1>2, <3>2 DEF PyLoses, PyHeard, PyAt
      <4>2. ~PyCounting
        BY <1>4, <4>1 DEF PyCounting, PyAt, PyBusy
      <4>3. pyDelivered + pyDropped = b + 0 /\ pyDelivered =< c + 0
        BY <1>1, <2>2, <4>2 DEF PyBooks
      <4>4. c + (k - k) =< d
        <5>1. k \in 0..k /\ (b + k + 1)..(b + k) \subseteq pyStored
          BY <1>2
        <5> QED BY <1>2, <2>2, <2>3, <5>1, PyAddsUp
      <4> QED BY <1>2, <2>2, <2>3, <4>1, <4>3, <4>4
    <3> QED BY <3>1, <3>2
  <2>6. pyDelivered' =< d + 0 /\ pyDelivered' + pyDropped' = (b + k) + 0
    BY <1>2, <2>3, <2>5
  <2> QED BY <1>3, <1>10, <1>13, <2>3, <2>4, <2>6 DEF PyBooks
<1> QED BY <1>8, <1>9, <1>12, <1>14, <1>15 DEF PyHolds

(* What no flush is part of.                                               *)
LEMMA PyStays ==
  ASSUME NEW b, NEW n, NEW k, PyHolds(b, n, k),
         PyBackoffEnds \/ PyClose \/ PyJoin \/ PyClosed \/ UNCHANGED pyVars
  PROVE  PyHolds(b, n, k)'
<1>1. PyTyped /\ PyShut /\ PyLocked(n, k) /\ pyOp \in PyRequest
  BY DEF PyHolds, PyTyped
<1>2. UNCHANGED <<pyQueue, pyAdmitted, pyFlush, pyAttempts, pyDelivered, pyDropped, pyStored>>
  BY DEF PyBackoffEnds, PyClose, PyJoin, PyClosed, pyVars
<1>3. /\ pyOp' \in PyRequest /\ pyOp'.at = pyOp.at /\ pyOp'.chunk = pyOp.chunk
      /\ pyOp'.outcome = pyOp.outcome /\ pyOp'.rejected = pyOp.rejected
  <2>1. pyOp' = pyOp \/ pyOp' = [pyOp EXCEPT !.cancelled = @ \/ PyRunning]
    BY DEF PyBackoffEnds, PyClose, PyJoin, PyClosed, pyVars
  <2>2. CASE pyOp' = pyOp
    BY <1>1, <2>2
  <2>3. CASE pyOp' = [pyOp EXCEPT !.cancelled = @ \/ PyRunning]
    <3>1. PyRunning \in BOOLEAN
      BY DEF PyRunning
    <3> QED BY <1>1, <2>3, <3>1, PyCancels
  <2> QED BY <2>1, <2>2, <2>3
<1>4. PyTyped' /\ PyShut'
  <2>1. pyFlush["closer"].at # "off" => pyClosing = "flush"
    BY <1>1 DEF PyShut
  <2>2. CASE PyBackoffEnds \/ UNCHANGED pyVars
    <3>1. UNCHANGED <<pyState, pyStop, pyClosing>> /\ (pyGated' = FALSE \/ pyGated' = pyGated)
      BY <2>2 DEF PyBackoffEnds, pyVars
    <3> QED BY <1>1, <1>2, <1>3, <3>1 DEF PyTyped, PyShut
  <2>3. CASE PyClose
    BY <1>1, <1>2, <1>3, <2>1, <2>3 DEF PyTyped, PyShut, PyClose
  <2>4. CASE PyJoin
    BY <1>1, <1>2, <1>3, <2>1, <2>4 DEF PyTyped, PyShut, PyJoin, PyJoined, PyAt
  <2>5. CASE PyClosed
    BY <1>1, <1>2, <1>3, <2>1, <2>5 DEF PyTyped, PyShut, PyClosed
  <2> QED BY <2>2, <2>3, <2>4, <2>5
<1>5. (\A f \in PyFlusher : PyPosting(f)' <=> PyPosting(f)) /\ (PyCounting' <=> PyCounting)
  BY <1>2 DEF PyPosting, PyCounting, PyAt
<1>6. PyLocked(n, k)'
  BY <1>1, <1>2, <1>3, <1>5 DEF PyLocked, PyBusy
<1> QED BY <1>2, <1>3, <1>4, <1>5, <1>6, PyKeeps

LEMMA PySteps == PyInv /\ [PyNext]_pyVars => PyInv'
<1> SUFFICES ASSUME PyInv, [PyNext]_pyVars PROVE \E b, n, k : PyHolds(b, n, k)'
  BY DEF PyInv
<1>1. PICK b, n, k : PyHolds(b, n, k)
  BY DEF PyInv
<1>2. CASE PyLog
  BY <1>1, <1>2, PyLogs
<1>3. CASE PyTransportEnds
  BY <1>1, <1>3, PyTransported
<1>4. CASE PyBackoffEnds \/ PyClose \/ PyJoin \/ PyClosed \/ UNCHANGED pyVars
  BY <1>1, <1>4, PyStays
<1>5. ASSUME NEW f \in PyFlusher, PyCall(f) \/ PyOwn(f) PROVE \E c, m, l : PyHolds(c, m, l)'
  BY <1>1, <1>5, PyCalls
<1>6. ASSUME NEW f \in PyFlusher, PyDone(f) \/ PyDeadline(f) \/ PyGiveUp(f) \/ PyRetries(f)
      PROVE  \E c, m, l : PyHolds(c, m, l)'
  BY <1>1, <1>6, PyFlushEnds
<1>7. ASSUME NEW f \in PyFlusher, PyPost(f) PROVE \E c, m, l : PyHolds(c, m, l)'
  <2>1. \E j : PyHolds(b, n, j)'
    BY <1>1, <1>7, PyPosts
  <2> QED BY <2>1
<1>8. ASSUME NEW f \in PyFlusher, PyAcknowledged(f) PROVE \E c, m, l : PyHolds(c, m, l)'
  BY <1>1, <1>8, PyAcks
<1>9. ASSUME NEW f \in PyFlusher, PySettle(f) \/ PyLoses(f) PROVE \E c, m, l : PyHolds(c, m, l)'
  BY <1>1, <1>9, PyGoes
<1> QED
  BY <1>2, <1>3, <1>4, <1>5, <1>6, <1>7, <1>8, <1>9 DEF PyNext

LEMMA PyMeans == PyInv => PyTypeOK /\ PySdkSound
<1> SUFFICES ASSUME PyInv PROVE PyTypeOK /\ PySdkSound
  OBVIOUS
<1>1. PICK b, n, k : PyHolds(b, n, k)
  BY DEF PyInv
<1>2. PyTyped /\ PyShut /\ PyLine(b, n, k) /\ PyLocked(n, k) /\ PyBooks(b, n, k) /\ pyOp \in PyRequest
  BY <1>1 DEF PyHolds, PyTyped
<1>3. /\ b \in Nat /\ n \in Nat /\ k \in Nat /\ b + n =< MaxPyRecords /\ MaxPyRecords \in Nat /\ pyAdmitted = b + n
      /\ PyChunk \in Nat /\ Len(pyOp.chunk) = k /\ k =< PyChunk /\ pyDelivered \in Nat /\ pyDropped \in Nat
      /\ pyQueue = PyRun(b, n) /\ Len(pyQueue) = n /\ pyQueue \in Seq(1..MaxPyRecords)
  BY <1>2, PyNumbers DEF PyLine
<1>4. DOMAIN pyQueue = 1..n /\ \A i \in 1..n : pyQueue[i] = b + i
  BY <1>3, PyRunIs
<1>5. PyCounting => k \in 1..n
  BY <1>2 DEF PyCounting, PyAt, PyPosting, PyLine
<1>6. PyTypeOK
  <2>1. pyDelivered =< MaxPyRecords /\ pyDropped =< MaxPyRecords
    <3>1. CASE PyCounting
      <4>1. pyDelivered + pyDropped = b + k /\ k =< n
        BY <1>2, <1>5, <3>1 DEF PyBooks
      <4> QED BY <1>3, <4>1
    <3>2. CASE ~PyCounting
      <4>1. pyDelivered + pyDropped = b + 0
        BY <1>2, <3>2 DEF PyBooks
      <4> QED BY <1>3, <4>1
    <3> QED BY <3>1, <3>2
  <2>2. pyAdmitted \in 0..MaxPyRecords /\ {pyDelivered, pyDropped} \subseteq 0..MaxPyRecords
    BY <1>3, <2>1
  <2>3. /\ pyOp.chunk \in Seq(1..MaxPyRecords) /\ pyOp.at \in {"running", "done"}
        /\ pyOp.outcome \in {"answered", "refused", "failed"} /\ pyOp.rejected \in 0..PyChunk
    BY <1>2 DEF PyRequest
  <2> QED BY <1>2, <1>3, <2>2, <2>3 DEF PyTyped, PyWork, PyTypeOK
<1>7. PyAccounted
  <2> DEFINE inHand == IF \E f \in PyFlusher : PyAt(f, "counted") THEN Len(pyOp.chunk) ELSE 0
             gone == {r \in 1..pyAdmitted : \A i \in DOMAIN pyQueue : pyQueue[i] # r}
  <2>1. gone = 1..b
    <3>1. ASSUME NEW r \in 1..pyAdmitted, \A i \in DOMAIN pyQueue : pyQueue[i] # r PROVE r \in 1..b
      <4>1. CASE r > b
        <5>1. r - b \in 1..n /\ b + (r - b) = r
          BY <1>3, <4>1
        <5> QED BY <1>4, <3>1, <5>1
      <4>2. CASE ~(r > b)
        BY <1>3, <4>2
      <4> QED BY <4>1, <4>2
    <3>2. ASSUME NEW r \in 1..b PROVE r \in 1..pyAdmitted /\ \A i \in DOMAIN pyQueue : pyQueue[i] # r
      BY <1>3, <1>4
    <3> QED BY <3>1, <3>2
  <2>2. inHand = IF PyCounting THEN k ELSE 0
    BY <1>3 DEF PyCounting
  <2> HIDE DEF inHand, gone
  <2>3. pyDelivered + pyDropped + Len(pyQueue) = pyAdmitted + inHand
    <3>1. inHand \in Nat /\ pyDelivered + pyDropped = b + inHand
      BY <1>2, <1>3, <2>2 DEF PyBooks
    <3> QED BY <1>3, <3>1
  <2>4. inHand = 0 => pyDelivered =< Cardinality(gone \cap pyStored)
    <3> SUFFICES ASSUME inHand = 0 PROVE pyDelivered =< Cardinality(gone \cap pyStored)
      OBVIOUS
    <3>1. ~PyCounting
      BY <1>3, <1>5, <2>2
    <3>2. pyDelivered =< Cardinality((1..b) \cap pyStored) + 0 /\ Cardinality((1..b) \cap pyStored) \in Nat
      BY <1>2, <1>3, <3>1, PyCounts DEF PyBooks
    <3> QED BY <1>3, <2>1, <3>2
  <2> QED BY <2>3, <2>4 DEF PyAccounted, inHand, gone
<1>8. PyOneTransport
  <2>1. PyRunning => IsPrefix(pyOp.chunk, pyQueue)
    <3> SUFFICES ASSUME PyRunning PROVE IsPrefix(pyOp.chunk, pyQueue)
      OBVIOUS
    <3>1. k \in 1..n /\ pyOp.chunk = PyRun(b, k)
      BY <1>2 DEF PyLine
    <3>2. k \in 0..n /\ k =< n
      BY <1>3, <3>1
    <3>3. SubSeq(pyQueue, 1, k) = pyOp.chunk
      BY <1>3, <3>1, <3>2, PyRunParts
    <3> QED BY <1>3, <3>2, <3>3 DEF IsPrefix
  <2>2. ASSUME NEW i \in DOMAIN pyQueue, pyQueue[i] \in pyStored PROVE i =< PyChunk
    <3>1. i \in 1..n /\ b + i =< b + PyChunk
      BY <1>2, <1>4, <2>2 DEF PyBooks
    <3> QED BY <1>3, <3>1
  <2> QED BY <2>1, <2>2 DEF PyOneTransport
<1>9. PyClosedClean
  <2> SUFFICES ASSUME pyState = "closed" PROVE pyQueue = <<>> /\ ~PyRunning /\ PyAt("worker", "off")
    BY DEF PyClosedClean
  <2>1. pyQueue = <<>> /\ pyFlush["worker"].at = "off"
    BY <1>2 DEF PyShut
  <2>2. n = 0
    BY <1>3, <2>1
  <2>3. ~PyRunning
    BY <1>2, <2>2 DEF PyLine
  <2> QED BY <2>1, <2>3 DEF PyAt
<1> QED BY <1>6, <1>7, <1>8, <1>9 DEF PySdkSound

(* The Python client's log queue, sdk/python/observe_sdk/client.py: what   *)
(* was delivered, dropped and is queued is what was admitted, but while an *)
(* acknowledged chunk is counted; nothing is delivered that the server does*)
(* not have; a request that was given up on still has its records at the   *)
(* head of the queue; and a closed client has nothing under way.           *)
THEOREM PyTheorem == PySpec => [](PyTypeOK /\ PySdkSound)
<1>1. PyInit => PyInv
  BY PyStarts
<1>2. PyInv /\ [PyNext]_pyVars => PyInv'
  BY PySteps
<1>3. PyInv => PyTypeOK /\ PySdkSound
  BY PyMeans
<1> QED BY <1>1, <1>2, <1>3, PTL DEF PySpec

-----------------------------------------------------------------------------
(***************************************************************************)
(* The queue of the browser client.                                        *)
(***************************************************************************)

BqEvent == 1..MaxBrEvents

BqTyped ==
  /\ brAdmitted \in 0..MaxBrEvents /\ brIds \in Nat /\ brDelivered \in Nat /\ brDropped \in Nat
  /\ brTrimmed = 0 /\ brBytes \in Nat
  /\ brBuffer \in Seq(BqEvent) /\ brPending \in Seq(BrRequest) /\ brActive \in BrRequest
  /\ brGate \in BOOLEAN /\ brReplaced \in {"no", "waits", "yes"}
  /\ brFlush \in [at : {"off", "loop", "sent"}, units : 0..BrUnits, unloading : BOOLEAN]
  /\ brDraining \subseteq BrRequest /\ IsFiniteSet(brDraining)
  /\ brSeen \subseteq 1..brIds /\ brAnswered \subseteq brReached /\ brReached \subseteq BqEvent

\* One request is under way at most, and a drain has taken all there was.
BqStage ==
  /\ brFlush.at = "sent" <=> brActive # BrNone
  /\ brFlush.at # "off" => brReplaced # "yes"
  /\ brReplaced # "yes" => brDraining = {}
  /\ brReplaced = "yes" => brBuffer = <<>> /\ brPending = <<>>

\* A request keeps the events its id was given for.
BqFrozen(r) ==
  /\ r.events # <<>> /\ r.id \in 1..brIds
  /\ r.id \in brSeen => ToSet(r.events) \subseteq brReached

BqFrozenNext(r) ==
  /\ r.events # <<>> /\ r.id \in 1..brIds'
  /\ r.id \in brSeen' => ToSet(r.events) \subseteq brReached'

BqApart ==
  /\ \A i \in DOMAIN brPending : BqFrozen(brPending[i]) /\ brPending[i].id # brActive.id
  /\ \A i, j \in DOMAIN brPending : brPending[i].id = brPending[j].id => i = j
  /\ \A r \in brDraining : BqFrozen(r)
  /\ \A r, s \in brDraining : r.id = s.id => r = s
  /\ brActive # BrNone => BqFrozen(brActive)

BqLoad(S) == Len(BrEvents(SetToSeq(S)))
BqActiveWeight == IF brActive = BrNone THEN 0 ELSE BrWeight(brActive)

BqBooks ==
  /\ brDelivered + brDropped + BrQueued + BqLoad(brDraining) = brAdmitted
  /\ brBytes = 2 * Len(brBuffer) + BrWeights(brPending) + BrWeights(SetToSeq(brDraining)) + BqActiveWeight
  /\ brIds + Len(brBuffer) =< brAdmitted
  /\ BrQueued =< BrQueueEvents /\ brBytes =< BrQueueBytes

BqLine == (brActive.events \o BrEvents(brPending)) \o brBuffer

BqRising(s, n) ==
  /\ \A i, j \in DOMAIN s : i < j => s[i] < s[j]
  /\ \A i \in DOMAIN s : s[i] =< n

BqOrder == BqRising(BqLine, brAdmitted)

BqInv == BqTyped /\ BqStage /\ BqApart /\ BqBooks /\ BqOrder
-----------------------------------------------------------------------------
\* The numbers up to the first that has something have not.
LEMMA BqLeast ==
  ASSUME NEW B \in SUBSET Nat, B # {}
  PROVE  \E m \in B : m = 0 \/ (m - 1 \in Nat /\ m - 1 \notin B)
<1>1. PICK m \in B : \A other \in B : ~(<<other, m>> \in OpToRel(<, Nat))
  BY WFMin, NatLessThanWellFounded
<1>2. m = 0 \/ (m - 1 \in Nat /\ m - 1 < m)
  OBVIOUS
<1> QED BY <1>1, <1>2 DEF OpToRel

\* The events of the first requests of p, and of one more.
BqCut(p, c) ==
  /\ c \in [0..Len(p) -> Seq(BqEvent)] /\ c[0] = <<>>
  /\ \A i \in 1..Len(p) : c[i] = c[i - 1] \o p[i].events

LEMMA BqRequestIs ==
  ASSUME NEW r \in BrRequest
  PROVE  /\ r.events \in Seq(BqEvent) /\ Len(r.events) \in Nat /\ r.id \in 0..MaxBrEvents
         /\ r.tries \in 0..BrTries
<1>1. r.events \in Seq(BqEvent) /\ r.id \in 0..MaxBrEvents /\ r.tries \in 0..BrTries
  BY DEF BrRequest, BqEvent
<1> QED BY <1>1, LenProperties

LEMMA BqItem ==
  ASSUME NEW p \in Seq(BrRequest)
  PROVE  /\ Len(p) \in Nat /\ DOMAIN p = 1..Len(p)
         /\ \A i \in 1..Len(p) : p[i] \in BrRequest /\ p[i].events \in Seq(BqEvent)
<1>1. \A i \in 1..Len(p) : p[i] \in BrRequest
  BY ElementOfSeq
<1> QED BY <1>1, LenProperties, BqRequestIs

LEMMA BqCutHas ==
  ASSUME NEW p \in Seq(BrRequest)
  PROVE  \E c : BqCut(p, c)
<1> DEFINE Upto(m, c) == /\ c \in [0..m -> Seq(BqEvent)] /\ c[0] = <<>>
                         /\ \A i \in 1..m : c[i] = c[i - 1] \o p[i].events
           Has(m) == \E c : Upto(m, c)
           B == {m \in 0..Len(p) : ~Has(m)}
<1>0. Len(p) \in Nat /\ \A i \in 1..Len(p) : p[i].events \in Seq(BqEvent)
  BY BqItem
<1>1. B = {}
  <2> SUFFICES ASSUME B # {} PROVE FALSE
    OBVIOUS
  <2>1. PICK m \in B : m = 0 \/ (m - 1 \in Nat /\ m - 1 \notin B)
    <3> HIDE DEF Has
    <3>1. B \in SUBSET Nat
      BY <1>0
    <3> HIDE DEF B
    <3> QED BY <3>1, BqLeast
  <2>2. Has(0)
    <3> DEFINE c == [k \in 0..0 |-> <<>>]
    <3>1. c \in [0..0 -> Seq(BqEvent)] /\ c[0] = <<>> /\ 1..0 = {}
      BY EmptySeq
    <3> HIDE DEF c
    <3>2. Upto(0, c)
      BY <3>1
    <3> QED BY <3>2
  <2>3. m \in 1..Len(p) /\ m - 1 \in Nat /\ Has(m - 1)
    <3> HIDE DEF Has
    <3> QED BY <1>0, <2>1, <2>2
  <2>4. PICK c : Upto(m - 1, c)
    BY <2>3
  <2> DEFINE e == p[m].events
             d == [k \in 0..m |-> IF k = m THEN c[m - 1] \o e ELSE c[k]]
  <2>5. e \in Seq(BqEvent) /\ c[m - 1] \in Seq(BqEvent)
    <3>1. m - 1 \in 0..(m - 1)
      BY <2>3
    <3> QED BY <1>0, <2>3, <2>4, <3>1
  <2>6. c[m - 1] \o e \in Seq(BqEvent)
    <3> HIDE DEF e
    <3> QED BY <2>5, ConcatProperties
  <2>7. \A k \in 0..m : k # m => k \in 0..(m - 1) /\ c[k] \in Seq(BqEvent)
    <3>1. \A k \in 0..m : k # m => k \in 0..(m - 1)
      BY <2>3
    <3> QED BY <2>4, <3>1
  <2>8. d \in [0..m -> Seq(BqEvent)] /\ d[0] = <<>>
    <3>1. 0 \in 0..m /\ 0 # m
      BY <2>3
    <3> HIDE DEF e
    <3> QED BY <2>4, <2>6, <2>7, <3>1
  <2>9. ASSUME NEW i \in 1..m PROVE d[i] = d[i - 1] \o p[i].events
    <3>1. i \in 0..m /\ i - 1 \in 0..m /\ i - 1 # m /\ (i # m => i \in 1..(m - 1))
      BY <2>3
    <3>2. d[i - 1] = c[i - 1]
      BY <3>1
    <3>3. CASE i = m
      BY <3>1, <3>2, <3>3
    <3>4. CASE i # m
      BY <2>4, <3>1, <3>2, <3>4
    <3> QED BY <3>3, <3>4
  <2> HIDE DEF d
  <2>10. Has(m)
    BY <2>8, <2>9
  <2> HIDE DEF Has
  <2> QED BY <2>1, <2>10
<1>2. Has(Len(p))
  <2> HIDE DEF Has
  <2> QED BY <1>0, <1>1
<1> QED BY <1>2 DEF BqCut

LEMMA BqCutIs ==
  ASSUME NEW p \in Seq(BrRequest), NEW c, BqCut(p, c)
  PROVE  BrEvents(p) = c[Len(p)]
<1> DEFINE s == [i \in DOMAIN p |-> p[i].events]
           n == Len(p)
<1>1. n \in Nat /\ DOMAIN p = 1..n /\ Len(s) = n /\ \A i \in 1..n : s[i] = p[i].events /\ s[i] \in Seq(BqEvent)
  <2>1. n \in Nat /\ DOMAIN p = 1..n /\ \A i \in 1..n : p[i].events \in Seq(BqEvent)
    BY BqItem
  <2>2. DOMAIN s = 1..n /\ \A i \in 1..n : s[i] = p[i].events
    BY <2>1
  <2>3. s \in Seq(Seq(BqEvent))
    <3>1. s \in [1..n -> Seq(BqEvent)]
      BY <2>1
    <3> HIDE DEF s, n
    <3> QED BY <2>1, <3>1, SeqDef
  <2> HIDE DEF s, n
  <2>4. Len(s) = n
    BY <2>1, <2>2, <2>3, LenProperties
  <2> QED BY <2>1, <2>2, <2>4
<1>2. BrEvents(p) = FlattenSeq(s)
  BY DEF BrEvents
<1>3. c \in [0..n -> Seq(BqEvent)] /\ c[0] = <<>> /\ \A i \in 1..n : c[i] = c[i - 1] \o s[i]
  BY <1>1 DEF BqCut
<1>4. CASE n = 0
  <2>1. s = <<>>
    BY <1>1, <1>4
  <2>2. FlattenSeq(s) = s
    BY <1>1, <1>4 DEF FlattenSeq
  <2> QED BY <1>2, <1>3, <1>4, <2>1, <2>2
<1>5. CASE n # 0
  <2> DEFINE flatten[i \in 1..Len(s)] == IF i = 1 THEN s[i] ELSE flatten[i - 1] \o s[i]
  <2>1. FlattenSeq(s) = flatten[n]
    BY <1>1, <1>5 DEF FlattenSeq
  <2>2. flatten = [i \in 1..Len(s) |-> IF i = 1 THEN s[i] ELSE flatten[i - 1] \o s[i]]
    <3>1. \E f : f = [i \in 1..Len(s) |-> IF i = 1 THEN s[i] ELSE f[i - 1] \o s[i]]
      <4> HIDE DEF s, n
      <4> DEFINE f == [i \in 1..Len(s) |-> c[i]]
      <4>1. ASSUME NEW i \in 1..Len(s) PROVE f[i] = IF i = 1 THEN s[i] ELSE f[i - 1] \o s[i]
        <5>1. i \in 1..n /\ (i # 1 => i - 1 \in 1..Len(s))
          BY <1>1
        <5>2. CASE i = 1
          <6>1. i - 1 = 0 /\ f[i] = c[i]
            BY <5>2
          <6> HIDE DEF f
          <6>2. c[i] = c[i - 1] \o s[i] /\ s[i] \in Seq(BqEvent)
            BY <1>1, <1>3, <5>1
          <6>3. c[i] = s[i]
            BY <1>3, <6>1, <6>2, ConcatEmptySeq
          <6> QED BY <5>2, <6>1, <6>3
        <5>3. CASE i # 1
          BY <1>3, <5>1, <5>3
        <5> QED BY <5>2, <5>3
      <4>2. f = [i \in 1..Len(s) |-> f[i]]
        OBVIOUS
      <4> HIDE DEF f
      <4>3. f = [i \in 1..Len(s) |-> IF i = 1 THEN s[i] ELSE f[i - 1] \o s[i]]
        BY <4>1, <4>2
      <4> QED BY <4>3
    <3> HIDE DEF s, n
    <3> QED BY <3>1
  <2> HIDE DEF flatten, s, n
  <2> DEFINE B == {k \in 1..n : flatten[k] # c[k]}
  <2>3. B = {}
    <3> SUFFICES ASSUME B # {} PROVE FALSE
      OBVIOUS
    <3>1. PICK m \in B : m = 0 \/ (m - 1 \in Nat /\ m - 1 \notin B)
      <4>1. B \in SUBSET Nat
        BY <1>1
      <4> HIDE DEF B
      <4> QED BY <4>1, BqLeast
    <3>2. m \in 1..n /\ m \in 1..Len(s) /\ c[m] = c[m - 1] \o s[m] /\ flatten[m] # c[m]
      BY <1>1, <1>3, <3>1
    <3>3. flatten[m] = IF m = 1 THEN s[m] ELSE flatten[m - 1] \o s[m]
      BY <2>2, <3>2
    <3>4. CASE m = 1
      <4>1. s[m] \in Seq(BqEvent) /\ m - 1 = 0
        BY <1>1, <3>2, <3>4
      <4>2. c[m] = s[m]
        BY <1>3, <3>2, <4>1, ConcatEmptySeq
      <4> QED BY <3>2, <3>3, <3>4, <4>2
    <3>5. CASE m # 1
      <4>1. m - 1 \in 1..n /\ m - 1 \notin B
        BY <1>1, <3>1, <3>2, <3>5
      <4>2. flatten[m - 1] = c[m - 1]
        BY <4>1
      <4> QED BY <3>2, <3>3, <3>5, <4>2
    <3> QED BY <3>4, <3>5
  <2>4. n \in 1..n
    BY <1>1, <1>5
  <2> QED BY <1>2, <2>1, <2>3, <2>4 DEF n
<1> QED BY <1>4, <1>5

-----------------------------------------------------------------------------
\* What requests hold together.
LEMMA BqEventsAre ==
  ASSUME NEW p \in Seq(BrRequest)
  PROVE  BrEvents(p) \in Seq(BqEvent) /\ Len(BrEvents(p)) \in Nat
<1>1. PICK c : BqCut(p, c)
  BY BqCutHas
<1>2. BrEvents(p) = c[Len(p)]
  BY <1>1, BqCutIs
<1>3. Len(p) \in 0..Len(p)
  BY BqItem
<1> QED BY <1>1, <1>2, <1>3, LenProperties DEF BqCut

LEMMA BqEventsOfNone == BrEvents(<<>>) = <<>>
<1>1. <<>> \in Seq(BrRequest) /\ Len(<<>>) = 0
  BY EmptySeq
<1>2. PICK c : BqCut(<<>>, c)
  BY <1>1, BqCutHas
<1>3. BrEvents(<<>>) = c[Len(<<>>)]
  BY <1>1, <1>2, BqCutIs
<1> QED BY <1>1, <1>2, <1>3 DEF BqCut

LEMMA BqEventsOfOne ==
  ASSUME NEW r \in BrRequest
  PROVE  BrEvents(<<r>>) = r.events
<1> DEFINE p == <<r>>
<1>1. p \in Seq(BrRequest) /\ Len(p) = 1 /\ p[1] = r
  OBVIOUS
<1> HIDE DEF p
<1>2. PICK c : BqCut(p, c)
  BY <1>1, BqCutHas
<1>3. BrEvents(p) = c[1]
  BY <1>1, <1>2, BqCutIs
<1>4. c[1] = c[1 - 1] \o p[1].events /\ c[0] = <<>>
  <2>1. 1 \in 1..Len(p)
    BY <1>1
  <2> QED BY <1>2, <2>1 DEF BqCut
<1>5. r.events \in Seq(BqEvent)
  BY BqRequestIs
<1>6. 1 - 1 = 0
  OBVIOUS
<1> QED BY <1>1, <1>3, <1>4, <1>5, <1>6, ConcatEmptySeq DEF p

LEMMA BqEventsJoin ==
  ASSUME NEW p \in Seq(BrRequest), NEW q \in Seq(BrRequest)
  PROVE  /\ BrEvents(p \o q) = BrEvents(p) \o BrEvents(q)
         /\ Len(BrEvents(p \o q)) = Len(BrEvents(p)) + Len(BrEvents(q))
<1>1. PICK c : BqCut(p, c)
  BY BqCutHas
<1>2. PICK d : BqCut(q, d)
  BY BqCutHas
<1> DEFINE n == Len(p)
           m == Len(q)
           pq == p \o q
           e == [k \in 0..(n + m) |-> IF k =< n THEN c[k] ELSE c[n] \o d[k - n]]
<1>3. /\ n \in Nat /\ m \in Nat /\ pq \in Seq(BrRequest) /\ Len(pq) = n + m
      /\ \A i \in 1..(n + m) : pq[i] = IF i =< n THEN p[i] ELSE q[i - n]
      /\ \A i \in 1..m : q[i].events \in Seq(BqEvent)
  BY BqItem, ConcatProperties
<1>4. /\ c \in [0..n -> Seq(BqEvent)] /\ c[0] = <<>> /\ \A i \in 1..n : c[i] = c[i - 1] \o p[i].events
      /\ d \in [0..m -> Seq(BqEvent)] /\ d[0] = <<>> /\ \A i \in 1..m : d[i] = d[i - 1] \o q[i].events
  BY <1>1, <1>2 DEF BqCut
<1>5. BrEvents(p) = c[n] /\ BrEvents(q) = d[m]
  BY <1>1, <1>2, BqCutIs
<1> HIDE DEF n, m, pq
<1>6. c[n] \in Seq(BqEvent) /\ \A k \in 0..m : d[k] \in Seq(BqEvent) /\ c[n] \o d[k] \in Seq(BqEvent)
  <2>1. n \in 0..n
    BY <1>3
  <2> QED BY <1>4, <2>1, ConcatProperties
<1>7. c[n] \o d[0] = c[n]
  BY <1>4, <1>6, ConcatEmptySeq
<1>8. BqCut(pq, e)
  <2>1. \A k \in 0..(n + m) : (k =< n => k \in 0..n) /\ (~(k =< n) => k - n \in 0..m)
    BY <1>3
  <2>2. e \in [0..(n + m) -> Seq(BqEvent)]
    BY <1>4, <1>6, <2>1
  <2>3. e[0] = <<>>
    <3>1. 0 \in 0..(n + m) /\ 0 =< n
      BY <1>3
    <3> QED BY <1>4, <3>1
  <2>4. ASSUME NEW i \in 1..(n + m) PROVE e[i] = e[i - 1] \o pq[i].events
    <3>1. i \in 0..(n + m) /\ i - 1 \in 0..(n + m)
      BY <1>3
    <3>2. CASE i =< n
      <4>1. i \in 1..n /\ i - 1 =< n
        BY <1>3, <3>2
      <4>2. e[i] = c[i] /\ e[i - 1] = c[i - 1] /\ pq[i] = p[i]
        BY <1>3, <3>1, <3>2, <4>1
      <4> HIDE DEF e
      <4> QED BY <1>4, <4>1, <4>2
    <3>3. CASE ~(i =< n)
      <4>1. i - n \in 1..m /\ i - n - 1 \in 0..m /\ (i - 1) - n = i - n - 1 /\ (i - 1 =< n => i - 1 = n /\ i - n - 1 = 0)
        BY <1>3, <3>3
      <4>2. e[i] = c[n] \o d[i - n] /\ pq[i] = q[i - n]
        BY <1>3, <3>1, <3>3
      <4>3. e[i - 1] = c[n] \o d[i - n - 1]
        <5>1. CASE i - 1 =< n
          <6>1. e[i - 1] = c[n]
            BY <3>1, <4>1, <5>1
          <6> HIDE DEF e
          <6> QED BY <1>7, <4>1, <5>1, <6>1
        <5>2. CASE ~(i - 1 =< n)
          BY <3>1, <4>1, <5>2
        <5> QED BY <5>1, <5>2
      <4> HIDE DEF e
      <4>4. d[i - n] = d[i - n - 1] \o q[i - n].events /\ d[i - n - 1] \in Seq(BqEvent) /\ q[i - n].events \in Seq(BqEvent)
        BY <1>3, <1>4, <4>1
      <4>5. c[n] \o (d[i - n - 1] \o q[i - n].events) = (c[n] \o d[i - n - 1]) \o q[i - n].events
        <5> DEFINE x == c[n]
                   y == d[i - n - 1]
                   z == q[i - n].events
        <5>1. x \in Seq(BqEvent) /\ y \in Seq(BqEvent) /\ z \in Seq(BqEvent)
          BY <1>6, <4>4
        <5> HIDE DEF x, y, z
        <5>2. (x \o y) \o z = x \o (y \o z)
          BY <5>1, ConcatAssociative
        <5> QED BY <5>2 DEF x, y, z
      <4> QED BY <4>2, <4>3, <4>4, <4>5
    <3> QED BY <3>2, <3>3
  <2> HIDE DEF e
  <2> QED BY <1>3, <2>2, <2>3, <2>4 DEF BqCut
<1>9. BrEvents(pq) = e[n + m]
  <2> HIDE DEF e
  <2> QED BY <1>3, <1>8, BqCutIs
<1>10. e[n + m] = c[n] \o d[m]
  <2>1. n + m \in 0..(n + m) /\ (n + m) - n = m /\ (n + m =< n => m = 0 /\ n + m = n)
    BY <1>3
  <2>2. CASE n + m =< n
    <3>1. e[n + m] = c[n] /\ m = 0
      BY <2>1, <2>2
    <3> HIDE DEF e
    <3> QED BY <1>7, <3>1
  <2>3. CASE ~(n + m =< n)
    BY <2>1, <2>3
  <2> QED BY <2>2, <2>3
<1> HIDE DEF e
<1>11. BrEvents(p \o q) = BrEvents(p) \o BrEvents(q)
  BY <1>5, <1>9, <1>10 DEF pq
<1> QED BY <1>11, BqEventsAre, ConcatProperties

LEMMA BqHead ==
  ASSUME NEW p \in Seq(BrRequest), p # <<>>
  PROVE  /\ Head(p) \in BrRequest /\ Tail(p) \in Seq(BrRequest) /\ Len(p) = Len(Tail(p)) + 1
         /\ 1 \in DOMAIN p /\ Head(p) = p[1]
         /\ \A i \in DOMAIN Tail(p) : i + 1 \in DOMAIN p /\ i + 1 # 1 /\ i \in Nat /\ Tail(p)[i] = p[i + 1]
         /\ BrEvents(p) = Head(p).events \o BrEvents(Tail(p))
         /\ Len(BrEvents(p)) = Len(Head(p).events) + Len(BrEvents(Tail(p)))
<1>1. /\ Head(p) \in BrRequest /\ Tail(p) \in Seq(BrRequest) /\ Len(Tail(p)) = Len(p) - 1
      /\ \A i \in 1..Len(Tail(p)) : Tail(p)[i] = p[i + 1]
  BY HeadTailProperties
<1>2. Len(p) \in Nat /\ Len(p) # 0 /\ DOMAIN p = 1..Len(p) /\ Head(p) = p[1]
  BY LenProperties, EmptySeq
<1>3. Len(Tail(p)) \in Nat /\ DOMAIN Tail(p) = 1..Len(Tail(p))
  BY <1>1, LenProperties
<1>4. /\ 1 \in DOMAIN p /\ Len(p) = Len(Tail(p)) + 1
      /\ \A i \in DOMAIN Tail(p) : i + 1 \in DOMAIN p /\ i + 1 # 1 /\ i \in Nat /\ Tail(p)[i] = p[i + 1]
  BY <1>1, <1>2, <1>3
<1>5. p = <<Head(p)>> \o Tail(p)
  <2> DEFINE h == <<Head(p)>>
             t == Tail(p)
  <2>1. h \in Seq(BrRequest) /\ Len(h) = 1 /\ h[1] = p[1]
    BY <1>1, <1>2
  <2> HIDE DEF h, t
  <2>2. t \in Seq(BrRequest) /\ Len(t) = Len(p) - 1 /\ \A i \in 1..Len(t) : t[i] = p[i + 1]
    BY <1>1 DEF t
  <2>3. /\ h \o t \in Seq(BrRequest) /\ Len(h \o t) = Len(h) + Len(t)
        /\ \A i \in 1..(Len(h) + Len(t)) : (h \o t)[i] = IF i =< Len(h) THEN h[i] ELSE t[i - Len(h)]
    <3>1. h \in Seq(BrRequest) /\ t \in Seq(BrRequest)
      BY <2>1, <2>2
    <3> QED BY ONLY <3>1, ConcatProperties
  <2>4. Len(h) + Len(t) = Len(p)
    BY <1>2, <2>1, <2>2
  <2>5. ASSUME NEW i \in 1..Len(p) PROVE (h \o t)[i] = p[i]
    <3>1. CASE i = 1
      BY <2>1, <2>3, <2>4, <3>1
    <3>2. CASE i # 1
      <4>1. ~(i =< Len(h)) /\ i - Len(h) \in 1..Len(t) /\ (i - Len(h)) + 1 = i
        BY <1>2, <2>1, <2>2, <3>2
      <4> QED BY <2>2, <2>3, <2>4, <4>1
    <3> QED BY <3>1, <3>2
  <2>6. h \o t = p
    BY <2>3, <2>4, <2>5, SeqEqual
  <2> QED BY <2>6 DEF h, t
<1>6. <<Head(p)>> \in Seq(BrRequest) /\ BrEvents(<<Head(p)>>) = Head(p).events
  BY <1>1, BqEventsOfOne
<1>7. /\ BrEvents(<<Head(p)>> \o Tail(p)) = BrEvents(<<Head(p)>>) \o BrEvents(Tail(p))
      /\ Len(BrEvents(<<Head(p)>> \o Tail(p))) = Len(BrEvents(<<Head(p)>>)) + Len(BrEvents(Tail(p)))
  BY <1>1, <1>6, BqEventsJoin
<1> QED BY <1>1, <1>2, <1>4, <1>5, <1>6, <1>7

\* Requests that all have events are no more than their events.
LEMMA BqNoMore ==
  ASSUME NEW p \in Seq(BrRequest), \A i \in DOMAIN p : p[i].events # <<>>
  PROVE  Len(p) =< Len(BrEvents(p))
<1>1. PICK c : BqCut(p, c)
  BY BqCutHas
<1>2. BrEvents(p) = c[Len(p)]
  BY <1>1, BqCutIs
<1>3. /\ Len(p) \in Nat /\ DOMAIN p = 1..Len(p)
      /\ \A i \in 1..Len(p) : /\ p[i].events \in Seq(BqEvent) /\ Len(p[i].events) \in Nat
                              /\ Len(p[i].events) >= 1
  <2>1. /\ Len(p) \in Nat /\ DOMAIN p = 1..Len(p)
        /\ \A i \in 1..Len(p) : p[i].events \in Seq(BqEvent) /\ p[i].events # <<>>
    BY BqItem
  <2>2. \A i \in 1..Len(p) : Len(p[i].events) \in Nat \ {0}
    BY <2>1, EmptySeq
  <2> QED BY <2>1, <2>2
<1>4. c \in [0..Len(p) -> Seq(BqEvent)] /\ c[0] = <<>> /\ \A i \in 1..Len(p) : c[i] = c[i - 1] \o p[i].events
  BY <1>1 DEF BqCut
<1> DEFINE B == {k \in 0..Len(p) : ~(k =< Len(c[k]))}
<1>5. B = {}
  <2> SUFFICES ASSUME B # {} PROVE FALSE
    OBVIOUS
  <2>1. PICK m \in B : m = 0 \/ (m - 1 \in Nat /\ m - 1 \notin B)
    <3>1. B \in SUBSET Nat
      BY <1>3
    <3> HIDE DEF B
    <3> QED BY <3>1, BqLeast
  <2>2. m # 0
    <3>1. Len(c[0]) = 0
      BY <1>4, EmptySeq
    <3> QED BY <2>1, <3>1
  <2>3. m \in 1..Len(p) /\ m - 1 \in 0..Len(p) /\ m - 1 \notin B /\ ~(m =< Len(c[m]))
    BY <1>3, <2>1, <2>2
  <2>4. m - 1 =< Len(c[m - 1])
    BY <2>3
  <2>5. c[m - 1] \in Seq(BqEvent) /\ c[m] = c[m - 1] \o p[m].events
    BY <1>4, <2>3
  <2>6. Len(c[m]) = Len(c[m - 1]) + Len(p[m].events) /\ Len(c[m - 1]) \in Nat
    BY <1>3, <2>3, <2>5, ConcatProperties, LenProperties
  <2>7. Len(p[m].events) \in Nat /\ Len(p[m].events) >= 1 /\ m \in Nat
    BY <1>3, <2>3
  <2> HIDE DEF B
  <2>8. \A x, y, z, w \in Nat : x - 1 =< y /\ z >= 1 /\ w = y + z => x =< w
    OBVIOUS
  <2>9. Len(c[m]) \in Nat
    <3>1. c[m] \in Seq(BqEvent)
      BY <1>4, <2>3
    <3> QED BY <3>1, LenProperties
  <2> QED BY ONLY <2>3, <2>4, <2>6, <2>7, <2>8, <2>9
<1>6. Len(p) \in 0..Len(p)
  BY <1>3
<1> QED BY <1>2, <1>5, <1>6

-----------------------------------------------------------------------------
\* The order in which requests are listed does not change what they hold.
BqListed(f) == \A i, j \in DOMAIN f : f[i] = f[j] => i = j

LEMMA BqWithout ==
  ASSUME NEW t \in Seq(BrRequest), BqListed(t), NEW k \in DOMAIN t
  PROVE  \E u \in Seq(BrRequest) :
           /\ BqListed(u) /\ ToSet(u) = ToSet(t) \ {t[k]} /\ Len(t) = Len(u) + 1
           /\ Len(BrEvents(t)) = Len(BrEvents(u)) + Len(t[k].events)
<1> DEFINE n == Len(t)
           a == SubSeq(t, 1, k - 1)
           b == SubSeq(t, k + 1, n)
           r == t[k]
           u == a \o b
<1>1. n \in Nat /\ DOMAIN t = 1..n /\ k \in 1..n /\ r \in BrRequest /\ \A i \in 1..n : t[i] \in BrRequest
  BY BqItem
<1>2. a \in Seq(BrRequest) /\ Len(a) = k - 1 /\ \A i \in 1..(k - 1) : a[i] = t[i]
  <2>1. 1 \in Int /\ k - 1 \in Int /\ (\A i \in 1..(k - 1) : t[i] \in BrRequest) /\ (k - 1) - 1 + 1 = k - 1
    BY <1>1
  <2>2. /\ SubSeq(t, 1, k - 1) \in Seq(BrRequest)
        /\ Len(SubSeq(t, 1, k - 1)) = IF 1 =< k - 1 THEN (k - 1) - 1 + 1 ELSE 0
        /\ \A i \in 1..((k - 1) - 1 + 1) : SubSeq(t, 1, k - 1)[i] = t[1 + i - 1]
    BY ONLY <2>1, SubSeqProperties
  <2>3. \A i \in 1..(k - 1) : 1 + i - 1 = i
    BY <1>1
  <2> HIDE DEF n, r
  <2>4. (IF 1 =< k - 1 THEN (k - 1) - 1 + 1 ELSE 0) = k - 1
    BY <1>1
  <2> QED BY <2>1, <2>2, <2>3, <2>4
<1>3. b \in Seq(BrRequest) /\ Len(b) = n - k /\ \A i \in 1..(n - k) : b[i] = t[k + i]
  <2> HIDE DEF n
  <2>1. k + 1 \in Int /\ n \in Int /\ (\A i \in (k + 1)..n : t[i] \in BrRequest) /\ n - (k + 1) + 1 = n - k
    BY <1>1
  <2>2. /\ SubSeq(t, k + 1, n) \in Seq(BrRequest)
        /\ Len(SubSeq(t, k + 1, n)) = IF k + 1 =< n THEN n - (k + 1) + 1 ELSE 0
        /\ \A i \in 1..(n - (k + 1) + 1) : SubSeq(t, k + 1, n)[i] = t[(k + 1) + i - 1]
    BY ONLY <2>1, SubSeqProperties
  <2>3. \A i \in 1..(n - k) : (k + 1) + i - 1 = k + i
    BY <1>1
  <2>4. (IF k + 1 =< n THEN n - (k + 1) + 1 ELSE 0) = n - k
    BY <1>1
  <2> QED BY <2>1, <2>2, <2>3, <2>4
<1> HIDE DEF a, b, n, r
<1>4. /\ u \in Seq(BrRequest) /\ Len(u) = n - 1
      /\ \A i \in 1..(n - 1) : u[i] = IF i =< k - 1 THEN t[i] ELSE t[i + 1]
  <2>1. /\ u \in Seq(BrRequest) /\ Len(u) = Len(a) + Len(b)
        /\ \A i \in 1..(Len(a) + Len(b)) : u[i] = IF i =< Len(a) THEN a[i] ELSE b[i - Len(a)]
    BY <1>2, <1>3, ConcatProperties
  <2> HIDE DEF u
  <2>2. Len(a) + Len(b) = n - 1
    BY <1>1, <1>2, <1>3
  <2>3. ASSUME NEW i \in 1..(n - 1) PROVE u[i] = IF i =< k - 1 THEN t[i] ELSE t[i + 1]
    <3>1. CASE i =< k - 1
      <4>1. i \in 1..(k - 1)
        BY <1>1, <3>1
      <4> QED BY <1>2, <2>1, <2>2, <3>1, <4>1
    <3>2. CASE ~(i =< k - 1)
      <4>1. i - (k - 1) \in 1..(n - k) /\ k + (i - (k - 1)) = i + 1
        BY <1>1, <3>2
      <4> QED BY <1>2, <1>3, <2>1, <2>2, <3>2, <4>1
    <3> QED BY <3>1, <3>2
  <2> QED BY <2>1, <2>2, <2>3
<1>5. Len(BrEvents(t)) = Len(BrEvents(u)) + Len(r.events)
  <2> DEFINE c == <<r>>
  <2>1. t = (a \o c) \o b
    <3>1. c \in Seq(BrRequest) /\ Len(c) = 1 /\ c[1] = r
      BY <1>1
    <3> HIDE DEF c
    <3> DEFINE ac == a \o c
    <3>2. ac \in Seq(BrRequest) /\ Len(ac) = k /\ \A i \in 1..k : ac[i] = t[i]
      <4>1. /\ ac \in Seq(BrRequest) /\ Len(ac) = Len(a) + Len(c)
            /\ \A i \in 1..(Len(a) + Len(c)) : ac[i] = IF i =< Len(a) THEN a[i] ELSE c[i - Len(a)]
        BY <1>2, <3>1, ConcatProperties
      <4> HIDE DEF ac
      <4>2. Len(a) + Len(c) = k
        BY <1>1, <1>2, <3>1
      <4>3. ASSUME NEW i \in 1..k PROVE ac[i] = t[i]
        <5>1. CASE i =< k - 1
          <6>1. i \in 1..(k - 1)
            BY <1>1, <5>1
          <6> QED BY <1>2, <4>1, <4>2, <5>1, <6>1
        <5>2. CASE ~(i =< k - 1)
          <6>1. i = k /\ i - (k - 1) = 1
            BY <1>1, <5>2
          <6>2. ac[i] = c[1]
            BY <1>2, <4>1, <4>2, <5>2, <6>1
          <6> QED BY <3>1, <6>1, <6>2 DEF r
        <5> QED BY <5>1, <5>2
      <4> QED BY <4>1, <4>2, <4>3
    <3> HIDE DEF ac
    <3>3. /\ ac \o b \in Seq(BrRequest) /\ Len(ac \o b) = Len(ac) + Len(b)
          /\ \A i \in 1..(Len(ac) + Len(b)) : (ac \o b)[i] = IF i =< Len(ac) THEN ac[i] ELSE b[i - Len(ac)]
      BY <1>3, <3>2, ConcatProperties
    <3>4. Len(ac) + Len(b) = n
      BY <1>1, <1>3, <3>2
    <3>5. ASSUME NEW i \in 1..n PROVE (ac \o b)[i] = t[i]
      <4>1. CASE i =< k
        <5>1. i \in 1..k
          BY <1>1, <4>1
        <5> QED BY <3>2, <3>3, <3>4, <4>1, <5>1
      <4>2. CASE ~(i =< k)
        <5>1. i - k \in 1..(n - k) /\ k + (i - k) = i
          BY <1>1, <4>2
        <5> QED BY <1>3, <3>2, <3>3, <3>4, <4>2, <5>1
      <4> QED BY <4>1, <4>2
    <3>6. ac \o b = t
      BY <3>3, <3>4, <3>5, SeqEqual DEF n
    <3> QED BY <3>6 DEF ac
  <2>2. c \in Seq(BrRequest) /\ BrEvents(c) = r.events
    BY <1>1, BqEventsOfOne
  <2> HIDE DEF c
  <2>3. a \o c \in Seq(BrRequest)
    BY <1>2, <2>2, ConcatProperties
  <2>4. /\ Len(BrEvents(t)) = Len(BrEvents(a \o c)) + Len(BrEvents(b))
        /\ Len(BrEvents(a \o c)) = Len(BrEvents(a)) + Len(BrEvents(c))
        /\ Len(BrEvents(u)) = Len(BrEvents(a)) + Len(BrEvents(b))
    BY <1>2, <1>3, <2>1, <2>2, <2>3, BqEventsJoin
  <2>5. Len(BrEvents(a)) \in Nat /\ Len(BrEvents(b)) \in Nat /\ Len(r.events) \in Nat
    BY <1>1, <1>2, <1>3, BqEventsAre, BqRequestIs
  <2> DEFINE x == Len(BrEvents(a))
             y == Len(BrEvents(b))
             z == Len(r.events)
  <2>6. Len(BrEvents(t)) = (x + z) + y /\ Len(BrEvents(u)) = x + y /\ x \in Nat /\ y \in Nat /\ z \in Nat
    BY <2>2, <2>4, <2>5
  <2> HIDE DEF x, y, z
  <2>7. Len(BrEvents(t)) = (x + y) + z
    BY ONLY <2>6
  <2> QED BY <2>6, <2>7 DEF z
<1> HIDE DEF u
<1>6. DOMAIN u = 1..(n - 1)
  BY <1>4, LenProperties
<1>7. BqListed(u)
  <2> SUFFICES ASSUME NEW i \in 1..(n - 1), NEW j \in 1..(n - 1), u[i] = u[j]
               PROVE  i = j
    BY <1>6 DEF BqListed
  <2> DEFINE at(x) == IF x =< k - 1 THEN x ELSE x + 1
  <2>1. at(i) \in 1..n /\ at(j) \in 1..n /\ u[i] = t[at(i)] /\ u[j] = t[at(j)]
    BY <1>1, <1>4
  <2>2. at(i) = at(j)
    <3> HIDE DEF at
    <3> QED BY <1>1, <2>1 DEF BqListed
  <2> QED BY <1>1, <2>2
<1>8. ToSet(u) = ToSet(t) \ {r}
  <2>1. ASSUME NEW x \in ToSet(u) PROVE x \in ToSet(t) /\ x # r
    <3>1. PICK i \in 1..(n - 1) : x = u[i]
      BY <1>6 DEF ToSet
    <3> DEFINE at == IF i =< k - 1 THEN i ELSE i + 1
    <3>2. at \in 1..n /\ x = t[at] /\ at # k
      BY <1>1, <1>4, <3>1
    <3> HIDE DEF at
    <3> QED BY <1>1, <3>2 DEF BqListed, ToSet, r
  <2>2. ASSUME NEW x \in ToSet(t), x # r PROVE x \in ToSet(u)
    <3>1. PICK i \in 1..n : x = t[i]
      BY <1>1 DEF ToSet
    <3>2. i # k
      BY <2>2, <3>1 DEF r
    <3>3. CASE i < k
      <4>1. i \in 1..(n - 1) /\ i =< k - 1
        BY <1>1, <3>3
      <4> QED BY <1>4, <1>6, <3>1, <4>1 DEF ToSet
    <3>4. CASE ~(i < k)
      <4>1. i - 1 \in 1..(n - 1) /\ ~(i - 1 =< k - 1) /\ (i - 1) + 1 = i
        BY <1>1, <3>2, <3>4
      <4>2. u[i - 1] = t[i]
        BY <1>4, <4>1
      <4> QED BY <1>6, <3>1, <4>1, <4>2 DEF ToSet
    <3> QED BY <3>3, <3>4
  <2> QED BY <2>1, <2>2
<1>9. n = Len(u) + 1
  BY <1>1, <1>4
<1> QED BY <1>4, <1>5, <1>7, <1>8, <1>9 DEF n, r

LEMMA BqSame ==
  ASSUME NEW f \in Seq(BrRequest), NEW t \in Seq(BrRequest), BqListed(f), BqListed(t), ToSet(f) = ToSet(t)
  PROVE  Len(f) = Len(t) /\ Len(BrEvents(f)) = Len(BrEvents(t))
<1> DEFINE Alike(x, y) == BqListed(x) /\ BqListed(y) /\ ToSet(x) = ToSet(y)
                            => Len(x) = Len(y) /\ Len(BrEvents(x)) = Len(BrEvents(y))
           Fine(m) == \A x, y \in Seq(BrRequest) : Len(x) = m => Alike(x, y)
           B == {m \in Nat : ~Fine(m)}
<1>1. B = {}
  <2> SUFFICES ASSUME B # {} PROVE FALSE
    OBVIOUS
  <2>1. PICK m \in B : m = 0 \/ (m - 1 \in Nat /\ m - 1 \notin B)
    <3> HIDE DEF Fine
    <3> QED BY BqLeast
  <2>2. PICK x \in Seq(BrRequest), y \in Seq(BrRequest) : Len(x) = m /\ ~Alike(x, y)
    <3> HIDE DEF Alike
    <3> QED BY <2>1
  <2>3. /\ BqListed(x) /\ BqListed(y) /\ ToSet(x) = ToSet(y)
        /\ ~(Len(x) = Len(y) /\ Len(BrEvents(x)) = Len(BrEvents(y)))
    BY <2>2
  <2>4. Len(y) \in Nat /\ DOMAIN x = 1..m /\ DOMAIN y = 1..Len(y) /\ m \in Nat
    BY <2>1, <2>2, BqItem
  <2> HIDE DEF Alike
  <2>5. m # 0
    <3> SUFFICES ASSUME m = 0 PROVE FALSE
      OBVIOUS
    <3>1. ToSet(x) = {}
      BY <2>4 DEF ToSet
    <3>2. Len(y) = 0
      <4>1. 1 \notin DOMAIN y
        BY <2>3, <3>1 DEF ToSet
      <4> QED BY <2>4, <4>1
    <3>3. x = <<>> /\ y = <<>>
      BY <2>2, <3>2, EmptySeq
    <3> QED BY <2>3, <3>3
  <2>6. m \in DOMAIN x /\ m - 1 \in Nat /\ Fine(m - 1)
    <3> HIDE DEF Fine
    <3> QED BY <2>1, <2>4, <2>5
  <2>7. PICK k \in DOMAIN y : y[k] = x[m]
    BY <2>3, <2>6 DEF ToSet
  <2>8. PICK u \in Seq(BrRequest) :
          /\ BqListed(u) /\ ToSet(u) = ToSet(x) \ {x[m]} /\ Len(x) = Len(u) + 1
          /\ Len(BrEvents(x)) = Len(BrEvents(u)) + Len(x[m].events)
    BY <2>3, <2>6, BqWithout
  <2>9. PICK v \in Seq(BrRequest) :
          /\ BqListed(v) /\ ToSet(v) = ToSet(y) \ {y[k]} /\ Len(y) = Len(v) + 1
          /\ Len(BrEvents(y)) = Len(BrEvents(v)) + Len(y[k].events)
    BY <2>3, <2>7, BqWithout
  <2>10. Len(u) = m - 1
    <3>1. Len(u) \in Nat
      BY BqItem
    <3> QED BY <2>2, <2>4, <2>8, <3>1
  <2>11. Alike(u, v)
    BY <2>6, <2>10
  <2>12. Len(u) = Len(v) /\ Len(BrEvents(u)) = Len(BrEvents(v))
    BY <2>3, <2>7, <2>8, <2>9, <2>11 DEF Alike
  <2> QED BY <2>3, <2>7, <2>8, <2>9, <2>12
<1>2. Len(f) \in Nat
  BY BqItem
<1> HIDE DEF Alike
<1>3. Fine(Len(f))
  <2> HIDE DEF Fine
  <2> QED BY <1>1, <1>2
<1>4. Alike(f, t)
  BY <1>3
<1> QED BY <1>4 DEF Alike

LEMMA BqList ==
  ASSUME NEW S \in SUBSET BrRequest, IsFiniteSet(S)
  PROVE  SetToSeq(S) \in Seq(BrRequest) /\ BqListed(SetToSeq(S)) /\ ToSet(SetToSeq(S)) = S
<1> DEFINE n == Cardinality(S)
           f == SetToSeq(S)
<1>1. n \in Nat /\ ExistsBijection(1..n, S)
  BY FS_CardinalityType
<1>2. \E g \in [1..n -> S] : IsInjective(g)
  BY <1>1 DEF ExistsBijection, Bijection, Injection
<1>3. f \in [1..n -> S] /\ IsInjective(f)
  BY <1>2 DEF SetToSeq
<1> HIDE DEF f
<1>4. f \in Injection(1..n, S)
  BY <1>3 DEF Injection
<1>5. IsFiniteSet(1..n) /\ Cardinality(1..n) = n
  <2>1. 1 \in Int /\ n \in Int
    BY <1>1
  <2>2. IsFiniteSet(1..n) /\ Cardinality(1..n) = IF 1 > n THEN 0 ELSE n - 1 + 1
    BY <2>1, FS_Interval
  <2> HIDE DEF n
  <2>3. (IF 1 > n THEN 0 ELSE n - 1 + 1) = n
    BY <1>1
  <2> QED BY <2>2, <2>3
<1>6. f \in Surjection(1..n, S)
  BY <1>4, <1>5, FS_Injection
<1> HIDE DEF n
<1>7. DOMAIN f = 1..n /\ \A r \in S : \E i \in 1..n : f[i] = r
  BY <1>3, <1>6 DEF Surjection
<1>8. f \in Seq(BrRequest)
  <2>1. f \in [1..n -> BrRequest]
    BY <1>3
  <2> QED BY <1>1, <2>1, SeqDef
<1>9. ToSet(f) = S
  BY <1>3, <1>7 DEF ToSet
<1>10. BqListed(f)
  BY <1>3 DEF IsInjective, BqListed
<1> QED BY <1>8, <1>9, <1>10 DEF f

\* The events of a set of requests, however they are listed.
LEMMA BqLoadOf ==
  ASSUME NEW S \in SUBSET BrRequest, IsFiniteSet(S)
  PROVE  /\ BqLoad(S) \in Nat /\ BrWeights(SetToSeq(S)) \in Nat
         /\ S = {} => BqLoad(S) = 0 /\ BrWeights(SetToSeq(S)) = 0
         /\ \A f \in Seq(BrRequest) : BqListed(f) /\ ToSet(f) = S =>
              BqLoad(S) = Len(BrEvents(f)) /\ BrWeights(SetToSeq(S)) = BrWeights(f)
         /\ \A r \in S : /\ BqLoad(S) = BqLoad(S \ {r}) + Len(r.events)
                         /\ BrWeights(SetToSeq(S)) = BrWeights(SetToSeq(S \ {r})) + BrWeight(r)
<1> DEFINE f == SetToSeq(S)
<1>1. f \in Seq(BrRequest) /\ BqListed(f) /\ ToSet(f) = S
  BY BqList
<1> HIDE DEF f
<1>2. Len(BrEvents(f)) \in Nat /\ Len(f) \in Nat
  BY <1>1, BqEventsAre, LenProperties
<1>3. BqLoad(S) = Len(BrEvents(f)) /\ BrWeights(SetToSeq(S)) = Len(BrEvents(f)) + Len(f)
  BY DEF BqLoad, BrWeights, f
<1>4. BqLoad(S) \in Nat /\ BrWeights(SetToSeq(S)) \in Nat
  BY <1>2, <1>3
<1>5. S = {} => BqLoad(S) = 0 /\ BrWeights(SetToSeq(S)) = 0
  <2> SUFFICES ASSUME S = {} PROVE Len(BrEvents(f)) = 0 /\ Len(f) = 0
    BY <1>3
  <2>1. Len(f) = 0
    <3>1. DOMAIN f = {}
      BY <1>1 DEF ToSet
    <3>2. DOMAIN f = 1..Len(f)
      BY <1>1, LenProperties
    <3> QED BY <1>2, <3>1, <3>2
  <2>2. f = <<>>
    BY <1>1, <2>1, EmptySeq
  <2> QED BY <2>1, <2>2, BqEventsOfNone
<1>6. ASSUME NEW g \in Seq(BrRequest), BqListed(g), ToSet(g) = S
      PROVE  BqLoad(S) = Len(BrEvents(g)) /\ BrWeights(SetToSeq(S)) = BrWeights(g)
  <2>1. Len(f) = Len(g) /\ Len(BrEvents(f)) = Len(BrEvents(g))
    BY <1>1, <1>6, BqSame
  <2> QED BY <1>3, <2>1 DEF BrWeights
<1>7. ASSUME NEW r \in S
      PROVE  /\ BqLoad(S) = BqLoad(S \ {r}) + Len(r.events)
             /\ BrWeights(SetToSeq(S)) = BrWeights(SetToSeq(S \ {r})) + BrWeight(r)
  <2>1. PICK k \in DOMAIN f : f[k] = r
    BY <1>1 DEF ToSet
  <2>2. PICK u \in Seq(BrRequest) :
          /\ BqListed(u) /\ ToSet(u) = ToSet(f) \ {f[k]} /\ Len(f) = Len(u) + 1
          /\ Len(BrEvents(f)) = Len(BrEvents(u)) + Len(f[k].events)
    BY <1>1, BqWithout
  <2> DEFINE g == SetToSeq(S \ {r})
  <2>3. g \in Seq(BrRequest) /\ BqListed(g) /\ ToSet(g) = S \ {r}
    <3>1. S \ {r} \in SUBSET BrRequest /\ IsFiniteSet(S \ {r})
      BY FS_Subset
    <3> QED BY <3>1, BqList
  <2>4. BqLoad(S \ {r}) = Len(BrEvents(g)) /\ BrWeights(SetToSeq(S \ {r})) = Len(BrEvents(g)) + Len(g)
    BY DEF BqLoad, BrWeights
  <2> HIDE DEF g
  <2>5. Len(u) = Len(g) /\ Len(BrEvents(u)) = Len(BrEvents(g))
    BY <1>1, <2>1, <2>2, <2>3, BqSame
  <2>6. Len(u) \in Nat /\ Len(BrEvents(u)) \in Nat /\ Len(r.events) \in Nat
    <3>1. r \in BrRequest
      OBVIOUS
    <3> QED BY <3>1, BqItem, BqEventsAre, BqRequestIs
  <2>7. BqLoad(S) = BqLoad(S \ {r}) + Len(r.events)
    BY <1>3, <2>1, <2>2, <2>4, <2>5
  <2> DEFINE x == Len(BrEvents(u))
             y == Len(r.events)
             z == Len(u)
  <2>8. /\ BrWeights(SetToSeq(S)) = (x + y) + (z + 1) /\ BrWeights(SetToSeq(S \ {r})) = x + z
        /\ BrWeight(r) = y + 1 /\ x \in Nat /\ y \in Nat /\ z \in Nat
    BY <1>3, <2>1, <2>2, <2>4, <2>5, <2>6 DEF BrWeight
  <2> HIDE DEF x, y, z
  <2>9. BrWeights(SetToSeq(S)) = BrWeights(SetToSeq(S \ {r})) + BrWeight(r)
    BY ONLY <2>8
  <2> QED BY <2>7, <2>9
<1> QED BY <1>4, <1>5, <1>6, <1>7

-----------------------------------------------------------------------------
(* Packing: every request but the last takes BrPerRequest events.          *)

LEMMA BqMult ==
  /\ \A i, j, P \in Nat : i =< j => i * P =< j * P
  /\ \A i, P \in Int : (i - 1) * P = i * P - P /\ P * i = i * P
  OBVIOUS

LEMMA BqCeil ==
  ASSUME NEW x \in Nat, NEW P \in Nat, P > 0
  PROVE  (x \div P) \in Nat /\ (x \div P) * P =< x /\ x < (x \div P) * P + P
<1> DEFINE n == x \div P
           r == x % P
<1>1. n \in Int /\ r \in 0..(P - 1) /\ x = P * n + r
  OBVIOUS
<1> HIDE DEF n, r
<1>2. n >= 0
  <2> SUFFICES ASSUME n =< -1 PROVE FALSE
    BY <1>1
  <2>1. P * n =< P * (-1)
    BY <1>1
  <2> QED BY <1>1, <2>1
<1>3. P * n = n * P
  BY <1>1
<1> QED BY <1>1, <1>2, <1>3 DEF n

LEMMA BqPacks ==
  ASSUME BqTyped, brIds + Len(brBuffer) =< brAdmitted
  PROVE  /\ BrPacked \in Seq(BrRequest) /\ Len(BrPacked) \in Nat /\ Len(BrPacked) =< Len(brBuffer)
         /\ BrEvents(BrPacked) = brBuffer
         /\ \A i \in DOMAIN BrPacked : /\ BrPacked[i].events # <<>> /\ BrPacked[i].id = brIds + i
                                       /\ i \in 1..Len(BrPacked)
<1> DEFINE L == Len(brBuffer)
           P == BrPerRequest
           n == (L + P - 1) \div P
           hi(k) == IF k = n THEN L ELSE k * P
           ev(i) == SubSeq(brBuffer, (i - 1) * P + 1, hi(i))
           p == [i \in 1..n |-> [id |-> brIds + i, tries |-> 0, events |-> ev(i)]]
           c == [k \in 0..n |-> SubSeq(brBuffer, 1, hi(k))]
<1>1. /\ P \in Nat /\ P > 0 /\ L \in Nat /\ brIds \in Nat /\ brBuffer \in Seq(BqEvent) /\ DOMAIN brBuffer = 1..L
      /\ brIds + L =< MaxBrEvents /\ MaxBrEvents \in Nat /\ BrTries \in Nat
  BY BrAssumption, LenProperties DEF BqTyped
<1>2. BrPacked = p
  BY DEF BrPacked
<1>3. n \in Nat /\ n * P =< L + P - 1 /\ L + P - 1 < n * P + P
  <2>1. L + P - 1 \in Nat
    BY <1>1
  <2> HIDE DEF L, P
  <2> QED BY <1>1, <2>1, BqCeil
<1> HIDE DEF n, L, P
<1>4. n * P \in Nat /\ L =< n * P /\ (n # 0 => (n - 1) * P < L)
  <2>1. n * P \in Nat /\ (n - 1) * P = n * P - P
    BY <1>1, <1>3, BqMult
  <2> QED BY <1>1, <1>3, <2>1
<1>5. n =< L /\ (n = 0 => L = 0)
  <2>1. n = 0 => L = 0
    <3>1. 0 * P = 0
      BY <1>1
    <3> QED BY <1>1, <1>4, <3>1
  <2>2. n # 0 => n - 1 \in Nat /\ n - 1 =< (n - 1) * P
    <3> SUFFICES ASSUME n # 0 PROVE n - 1 \in Nat /\ n - 1 =< (n - 1) * P
      OBVIOUS
    <3>1. n - 1 \in Nat
      BY <1>3
    <3>2. \A i, q \in Nat : q > 0 => i =< i * q
      OBVIOUS
    <3> QED BY <1>1, <3>1, <3>2
  <2>3. (n - 1) * P \in Int
    BY <1>1, <1>3
  <2> QED BY <1>1, <1>3, <1>4, <2>1, <2>2, <2>3
<1>6. ASSUME NEW i \in 1..n
      PROVE  /\ (i - 1) * P \in Nat /\ hi(i) \in Nat /\ (i - 1) * P < hi(i) /\ hi(i) =< L /\ hi(i - 1) = (i - 1) * P
  <2>1. i \in Nat /\ i - 1 \in Nat /\ i - 1 # n /\ n - 1 \in Nat /\ i - 1 =< n - 1
    BY <1>3
  <2>2. (i - 1) * P \in Nat /\ i * P \in Nat /\ (i - 1) * P = i * P - P /\ (i - 1) * P =< (n - 1) * P
        /\ (n - 1) * P \in Nat
    BY <1>1, <2>1, BqMult
  <2>3. hi(i - 1) = (i - 1) * P
    BY <2>1
  <2>4. CASE i = n
    BY <1>1, <1>4, <2>2, <2>3, <2>4
  <2>5. CASE i # n
    <3>1. i =< n - 1
      BY <1>3, <2>1, <2>5
    <3>2. i * P =< (n - 1) * P
      BY <1>1, <2>1, <3>1, BqMult
    <3>3. hi(i) = i * P
      BY <2>5
    <3> HIDE DEF hi
    <3> QED BY <1>1, <1>4, <2>2, <2>3, <3>2, <3>3
  <2> QED BY <2>4, <2>5
<1>7. hi(0) = 0 /\ hi(n) = L
  <2>1. 0 * P = 0
    BY <1>1
  <2> QED BY <1>5, <2>1
<1>8. ASSUME NEW i \in 1..n
      PROVE  ev(i) \in Seq(BqEvent) /\ Len(ev(i)) \in Nat \ {0} /\ ev(i) # <<>>
  <2> DEFINE lo == (i - 1) * P
             up == hi(i)
  <2>1. lo \in Nat /\ up \in Nat /\ lo < up /\ up =< L
    BY <1>6
  <2> HIDE DEF lo, up
  <2>2. lo + 1 \in Int /\ up \in Int /\ \A j \in (lo + 1)..up : brBuffer[j] \in BqEvent
    <3>1. \A j \in 1..L : brBuffer[j] \in BqEvent
      BY <1>1, ElementOfSeq DEF L
    <3> QED BY <1>1, <2>1, <3>1
  <2>3. /\ SubSeq(brBuffer, lo + 1, up) \in Seq(BqEvent)
        /\ Len(SubSeq(brBuffer, lo + 1, up)) = IF lo + 1 =< up THEN up - (lo + 1) + 1 ELSE 0
    BY ONLY <2>2, SubSeqProperties
  <2>4. lo + 1 =< up /\ up - (lo + 1) + 1 \in Nat \ {0}
    BY <2>1
  <2>5. SubSeq(brBuffer, lo + 1, up) # <<>>
    BY <2>3, <2>4, EmptySeq
  <2> QED BY <2>3, <2>4, <2>5 DEF lo, up
<1>9. p \in Seq(BrRequest) /\ Len(p) = n /\ DOMAIN p = 1..n
      /\ \A i \in 1..n : p[i].events = ev(i) /\ p[i].id = brIds + i
  <2>1. ASSUME NEW i \in 1..n PROVE [id |-> brIds + i, tries |-> 0, events |-> ev(i)] \in BrRequest
    <3>1. ev(i) \in Seq(1..MaxBrEvents)
      BY <1>8 DEF BqEvent
    <3>2. brIds + i \in 0..MaxBrEvents /\ 0 \in 0..BrTries
      BY <1>1, <1>3, <1>5
    <3> HIDE DEF ev
    <3> QED BY <3>1, <3>2 DEF BrRequest
  <2> HIDE DEF ev
  <2>2. p \in [1..n -> BrRequest]
    BY <2>1
  <2>3. \A i \in 1..n : p[i].events = ev(i) /\ p[i].id = brIds + i
    OBVIOUS
  <2> HIDE DEF p
  <2>4. p \in Seq(BrRequest)
    BY <1>3, <2>2, SeqDef
  <2>5. Len(p) = n
    BY <1>3, <2>2, <2>4, LenProperties
  <2> QED BY <2>2, <2>3, <2>4, <2>5
<1>10. BqCut(p, c)
  <2>1. ASSUME NEW k \in 0..n PROVE hi(k) \in 0..L
    <3>1. CASE k = 0
      BY <1>1, <1>7, <3>1
    <3>2. CASE k # 0
      <4>1. k \in 1..n
        BY <1>3, <3>2
      <4>2. hi(k) \in Nat /\ hi(k) =< L
        BY <1>6, <4>1
      <4> HIDE DEF hi
      <4> QED BY <1>1, <4>2
    <3> QED BY <3>1, <3>2
  <2> HIDE DEF hi
  <2>2. ASSUME NEW k \in 0..n PROVE SubSeq(brBuffer, 1, hi(k)) \in Seq(BqEvent)
    <3>1. 1 \in Int /\ hi(k) \in Int /\ \A j \in 1..hi(k) : brBuffer[j] \in BqEvent
      <4>1. \A j \in 1..L : brBuffer[j] \in BqEvent
        BY <1>1, ElementOfSeq DEF L
      <4> QED BY <1>1, <2>1, <4>1
    <3> QED BY ONLY <3>1, SubSeqProperties
  <2>3. c \in [0..n -> Seq(BqEvent)]
    BY <2>2
  <2>4. c[0] = <<>>
    <3>1. 0 \in 0..n /\ hi(0) < 1
      BY <1>3, <1>7
    <3>2. SubSeq(brBuffer, 1, hi(0)) = <<>>
      <4>1. 1 \in Int /\ hi(0) \in Int
        BY <1>7
      <4> QED BY <3>1, <4>1, SubSeqEmpty
    <3> QED BY <3>1, <3>2
  <2>5. ASSUME NEW i \in 1..n PROVE c[i] = c[i - 1] \o p[i].events
    <3> DEFINE lo == (i - 1) * P
               up == hi(i)
    <3>1. lo \in Nat /\ up \in Nat /\ lo < up /\ up =< L /\ hi(i - 1) = lo
      BY <1>6
    <3>2. i \in 0..n /\ i - 1 \in 0..n
      BY <1>3
    <3>3. c[i] = SubSeq(brBuffer, 1, up) /\ c[i - 1] = SubSeq(brBuffer, 1, lo)
      BY <3>1, <3>2
    <3>4. p[i].events = SubSeq(brBuffer, lo + 1, up)
      BY <1>9
    <3> HIDE DEF lo, up, c, p
    <3>5. SubSeq(brBuffer, 1, lo) \o SubSeq(brBuffer, lo + 1, up) = SubSeq(brBuffer, 1, up)
      <4>1. /\ 1 \in 1..(Len(brBuffer) + 1) /\ lo \in (1 - 1)..Len(brBuffer) /\ up \in lo..Len(brBuffer)
        BY <1>1, <3>1 DEF L
      <4> QED BY <1>1, <4>1, ConcatAdjacentSubSeq
    <3> QED BY <3>3, <3>4, <3>5
  <2> HIDE DEF c, p
  <2> QED BY <1>9, <2>3, <2>4, <2>5 DEF BqCut
<1>11. BrEvents(p) = brBuffer
  <2>1. BrEvents(p) = c[n]
    <3> HIDE DEF p, c
    <3> QED BY <1>9, <1>10, BqCutIs
  <2>2. c[n] = SubSeq(brBuffer, 1, L)
    <3>1. n \in 0..n
      BY <1>3
    <3> HIDE DEF hi
    <3> QED BY <1>7, <3>1
  <2>3. SubSeq(brBuffer, 1, L) = brBuffer
    BY <1>1, SubSeqFull DEF L
  <2> HIDE DEF p, c
  <2> QED BY <2>1, <2>2, <2>3
<1> HIDE DEF p, ev
<1> QED BY <1>2, <1>3, <1>5, <1>8, <1>9, <1>11 DEF L

-----------------------------------------------------------------------------
\* trimPending finds nothing to trim in requests that fit.
LEMMA BqUntrimmed ==
  ASSUME NEW p \in Seq(BrRequest), NEW b \in Nat, Len(p) =< BrRequests, b =< BrQueueBytes
  PROVE  BrKept(p, b) = [pending |-> p, bytes |-> b, lost |-> 0]
<1> DEFINE L == Len(p)
           Fits(n) == /\ L - n =< BrRequests
                      /\ b - BrWeights(SubSeq(p, 1, n)) =< BrQueueBytes
           K == {k \in 0..L : Fits(k) \/ k = L}
           n == Min(K)
<1>1. L \in Nat
  BY LenProperties
<1>2. SubSeq(p, 1, 0) = <<>>
  <2>1. 1 \in Int /\ 0 \in Int /\ 0 < 1
    OBVIOUS
  <2> QED BY <2>1, SubSeqEmpty
<1>3. BrWeights(<<>>) = 0 /\ Len(BrEvents(<<>>)) = 0
  <2>1. Len(<<>>) = 0
    OBVIOUS
  <2> QED BY <2>1, BqEventsOfNone DEF BrWeights
<1>4. Fits(0)
  <2>1. L - 0 =< BrRequests
    BY <1>1
  <2>2. b - 0 =< BrQueueBytes
    OBVIOUS
  <2> QED BY <1>2, <1>3, <2>1, <2>2
<1>5. 0 \in K
  <2> HIDE DEF Fits, L
  <2> QED BY <1>1, <1>4
<1>6. n = 0
  <2>1. K \in SUBSET Nat
    BY <1>1
  <2> HIDE DEF K
  <2>2. \E x \in K : \A y \in K : x =< y
    <3>1. \A y \in K : 0 =< y
      BY <2>1
    <3> QED BY <1>5, <3>1
  <2>3. n \in K /\ \A y \in K : n =< y
    BY <2>2 DEF Min
  <2> HIDE DEF n
  <2>4. n =< 0
    BY <1>5, <2>3
  <2> QED BY <2>1, <2>3, <2>4
<1>7. BrKept(p, b) = [pending |-> SubSeq(p, n + 1, L), bytes |-> b - BrWeights(SubSeq(p, 1, n)),
                      lost |-> Len(BrEvents(SubSeq(p, 1, n)))]
  BY DEF BrKept
<1>8. SubSeq(p, 1, L) = p
  BY SubSeqFull
<1>9. 0 + 1 = 1 /\ b - 0 = b
  OBVIOUS
<1> HIDE DEF n, L
<1> QED BY <1>2, <1>3, <1>6, <1>7, <1>8, <1>9

\* The numbers of a state.
LEMMA BqCounts ==
  ASSUME BqInv
  PROVE  /\ Len(brBuffer) \in Nat /\ Len(brPending) \in Nat
         /\ Len(BrEvents(brPending)) \in Nat /\ Len(brActive.events) \in Nat
         /\ BqLoad(brDraining) \in Nat /\ BrWeights(SetToSeq(brDraining)) \in Nat
         /\ BrEvents(brPending) \in Seq(BqEvent) /\ brActive.events \in Seq(BqEvent)
         /\ brActive.id \in 0..brIds /\ (brActive # BrNone => brActive.id # 0)
         /\ brDraining = {} => BqLoad(brDraining) = 0 /\ BrWeights(SetToSeq(brDraining)) = 0
<1>1. /\ brBuffer \in Seq(BqEvent) /\ brPending \in Seq(BrRequest) /\ brActive \in BrRequest
      /\ brDraining \in SUBSET BrRequest /\ IsFiniteSet(brDraining) /\ brIds \in Nat
  BY DEF BqInv, BqTyped
<1>2. brActive.id \in 0..brIds /\ (brActive # BrNone => brActive.id # 0)
  <2>1. CASE brActive = BrNone
    BY <1>1, <2>1 DEF BrNone
  <2>2. CASE brActive # BrNone
    <3>1. brActive.id \in 1..brIds
      BY <2>2 DEF BqInv, BqApart, BqFrozen
    <3> QED BY <1>1, <3>1
  <2> QED BY <2>1, <2>2
<1>3. Len(brBuffer) \in Nat /\ Len(brPending) \in Nat
  BY <1>1, LenProperties
<1>4. /\ Len(BrEvents(brPending)) \in Nat /\ BrEvents(brPending) \in Seq(BqEvent)
  BY <1>1, BqEventsAre
<1>5. Len(brActive.events) \in Nat /\ brActive.events \in Seq(BqEvent)
  BY <1>1, BqRequestIs
<1>6. /\ BqLoad(brDraining) \in Nat /\ BrWeights(SetToSeq(brDraining)) \in Nat
      /\ brDraining = {} => BqLoad(brDraining) = 0 /\ BrWeights(SetToSeq(brDraining)) = 0
  BY <1>1, BqLoadOf
<1> QED BY <1>2, <1>3, <1>4, <1>5, <1>6

\* The requests there are once the buffer is packed.
BqTaken == brPending \o BrPacked

LEMMA BqTakes ==
  ASSUME BqInv
  PROVE  /\ BqTaken \in Seq(BrRequest) /\ Len(BrPacked) \in Nat /\ Len(BrPacked) =< Len(brBuffer)
         /\ BrEvents(BqTaken) = BrEvents(brPending) \o brBuffer
         /\ Len(BrEvents(BqTaken)) = Len(BrEvents(brPending)) + Len(brBuffer)
         /\ BrRepacked \in Nat /\ BrRepacked =< BrQueueBytes
         /\ BrRepacked = BrWeights(BqTaken) + BrWeights(SetToSeq(brDraining)) + BqActiveWeight
         /\ Len(BqTaken) =< BrRequests
         /\ \A i \in DOMAIN BqTaken :
              /\ BqTaken[i].events # <<>> /\ BqTaken[i].id \in 1..(brIds + Len(BrPacked))
              /\ BqTaken[i].id \in brSeen => ToSet(BqTaken[i].events) \subseteq brReached
              /\ BqTaken[i].id # brActive.id
         /\ \A i, j \in DOMAIN BqTaken : BqTaken[i].id = BqTaken[j].id => i = j
         /\ brBuffer = <<>> => BrPacked = <<>> /\ BqTaken = brPending /\ BrRepacked = brBytes
<1> DEFINE p == brPending
           q == BrPacked
           a == Len(p)
           c == Len(q)
<1>1. /\ BqTyped /\ brIds + Len(brBuffer) =< brAdmitted /\ p \in Seq(BrRequest)
      /\ brSeen \subseteq 1..brIds /\ brIds \in Nat
  BY DEF BqInv, BqBooks, BqTyped
<1>2. /\ q \in Seq(BrRequest) /\ c \in Nat /\ c =< Len(brBuffer) /\ BrEvents(q) = brBuffer
      /\ \A i \in DOMAIN q : q[i].events # <<>> /\ q[i].id = brIds + i /\ i \in 1..c
  BY <1>1, BqPacks
<1>3. /\ a \in Nat /\ Len(BrEvents(p)) \in Nat /\ Len(brBuffer) \in Nat /\ brActive.id \in 0..brIds
      /\ BrWeights(SetToSeq(brDraining)) \in Nat /\ Len(brActive.events) \in Nat
  BY BqCounts
<1>4. /\ DOMAIN p = 1..a /\ DOMAIN q = 1..c
      /\ \A i \in 1..a : BqFrozen(p[i]) /\ p[i].id # brActive.id
      /\ \A i, j \in 1..a : p[i].id = p[j].id => i = j
  <2>1. DOMAIN p = 1..a /\ DOMAIN q = 1..c
    BY <1>1, <1>2, LenProperties
  <2> QED BY <2>1 DEF BqInv, BqApart
<1> HIDE DEF p, q
<1>5. /\ p \o q \in Seq(BrRequest) /\ Len(p \o q) = a + c
      /\ \A i \in 1..(a + c) : (p \o q)[i] = IF i =< a THEN p[i] ELSE q[i - a]
  BY <1>1, <1>2, ConcatProperties
<1>6. BqTaken = p \o q
  BY DEF BqTaken, p, q
<1> HIDE DEF a, c
<1>7. DOMAIN BqTaken = 1..(a + c)
  BY <1>5, <1>6, LenProperties
<1>8. /\ BrEvents(BqTaken) = BrEvents(p) \o brBuffer
      /\ Len(BrEvents(BqTaken)) = Len(BrEvents(p)) + Len(brBuffer)
  BY <1>1, <1>2, <1>6, BqEventsJoin
<1>9. ASSUME NEW i \in 1..(a + c)
      PROVE  /\ BqTaken[i].events # <<>> /\ BqTaken[i].id \in 1..(brIds + c)
             /\ BqTaken[i].id \in brSeen => ToSet(BqTaken[i].events) \subseteq brReached
             /\ BqTaken[i].id # brActive.id
             /\ i =< a => BqTaken[i] = p[i] /\ i \in 1..a /\ BqTaken[i].id =< brIds
             /\ ~(i =< a) => BqTaken[i].id = brIds + (i - a) /\ BqTaken[i].id > brIds
  <2>1. CASE i =< a
    <3>1. BqTaken[i] = p[i] /\ i \in 1..a
      BY <1>2, <1>3, <1>5, <1>6, <2>1
    <3>2. BqFrozen(p[i]) /\ p[i].id # brActive.id
      BY <1>4, <3>1
    <3>3. p[i].id \in 1..brIds
      BY <3>2 DEF BqFrozen
    <3>4. p[i].id \in 1..(brIds + c) /\ p[i].id =< brIds
      BY <1>1, <1>2, <3>3
    <3> QED BY <2>1, <3>1, <3>2, <3>4 DEF BqFrozen
  <2>2. CASE ~(i =< a)
    <3>1. BqTaken[i] = q[i - a] /\ i - a \in 1..c
      BY <1>2, <1>3, <1>5, <1>6, <2>2
    <3>2. q[i - a].events # <<>> /\ q[i - a].id = brIds + (i - a)
      BY <1>2, <1>4, <3>1
    <3>3. brIds + (i - a) \in 1..(brIds + c) /\ brIds + (i - a) > brIds
      BY <1>1, <1>2, <1>3, <3>1
    <3>4. brIds + (i - a) \notin brSeen /\ brIds + (i - a) # brActive.id
      BY <1>1, <1>3, <3>1, <3>3
    <3> QED BY <2>2, <3>1, <3>2, <3>3, <3>4
  <2> QED BY <2>1, <2>2
<1>10. ASSUME NEW i \in 1..(a + c), NEW j \in 1..(a + c), BqTaken[i].id = BqTaken[j].id
       PROVE  i = j
  <2>1. CASE i =< a /\ j =< a
    BY <1>4, <1>9, <1>10, <2>1
  <2>2. CASE i =< a /\ ~(j =< a)
    <3>1. BqTaken[i].id =< brIds /\ BqTaken[j].id > brIds
      BY <1>9, <2>2
    <3>2. BqTaken[i].id \in Int /\ BqTaken[j].id \in Int
      BY <1>1, <1>2, <1>9
    <3> QED BY <1>1, <1>10, <3>1, <3>2
  <2>3. CASE ~(i =< a) /\ j =< a
    <3>1. BqTaken[j].id =< brIds /\ BqTaken[i].id > brIds
      BY <1>9, <2>3
    <3>2. BqTaken[i].id \in Int /\ BqTaken[j].id \in Int
      BY <1>1, <1>2, <1>9
    <3> QED BY <1>1, <1>10, <3>1, <3>2
  <2>4. CASE ~(i =< a) /\ ~(j =< a)
    <3>1. BqTaken[i].id = brIds + (i - a) /\ BqTaken[j].id = brIds + (j - a)
      BY <1>9, <2>4
    <3>2. brIds + (i - a) = brIds + (j - a)
      BY <1>10, <3>1
    <3>3. i \in Int /\ j \in Int /\ a \in Int /\ brIds \in Int
      BY <1>1, <1>2, <1>3
    <3> QED BY ONLY <3>2, <3>3
  <2> QED BY <2>1, <2>2, <2>3, <2>4
<1>11. /\ BrRepacked \in Nat /\ BrRepacked =< BrQueueBytes
       /\ BrRepacked = BrWeights(BqTaken) + BrWeights(SetToSeq(brDraining)) + BqActiveWeight
       /\ (brBuffer = <<>> => BrRepacked = brBytes)
  <2> DEFINE ln == Len(brBuffer)
             e == Len(BrEvents(p))
             d == BrWeights(SetToSeq(brDraining))
             w == BqActiveWeight
  <2>1. BrRepacked = brBytes - 2 * ln + (ln + c)
    BY <1>2 DEF BrRepacked, BrReserve, BrWeights, c, q
  <2>2. brBytes = 2 * ln + (e + a) + d + w /\ brBytes =< BrQueueBytes /\ brBytes \in Nat
    BY DEF BqInv, BqBooks, BqTyped, BrWeights, a, p
  <2>3. BrWeights(BqTaken) = (e + ln) + (a + c)
    BY <1>5, <1>6, <1>8 DEF BrWeights
  <2>4. w \in Nat
    BY <1>3 DEF BqActiveWeight, BrWeight
  <2>5. brBuffer = <<>> => ln = 0
    BY EmptySeq
  <2>6. ln \in Nat /\ e \in Nat /\ d \in Nat /\ a \in Nat /\ c \in Nat /\ c =< ln
    BY <1>2, <1>3
  <2>7. BrQueueBytes \in Nat
    BY BrAssumption
  <2> HIDE DEF ln, e, d, w
  <2>8. BrRepacked \in Nat /\ BrRepacked =< BrQueueBytes /\ (ln = 0 => BrRepacked = brBytes)
    BY ONLY <2>1, <2>2, <2>4, <2>6, <2>7
  <2>9. BrRepacked = BrWeights(BqTaken) + d + w
    BY ONLY <2>1, <2>2, <2>3, <2>4, <2>6
  <2> QED BY <2>5, <2>8, <2>9 DEF d, w
<1>12. Len(BqTaken) =< BrRequests
  <2>1. Len(BqTaken) =< Len(BrEvents(BqTaken))
    BY <1>5, <1>6, <1>7, <1>9, BqNoMore
  <2>2. Len(BrEvents(p)) + Len(brBuffer) =< BrQueueEvents
    <3> DEFINE u == Len(brBuffer)
               v == Len(BrEvents(p))
               w == Len(brActive.events)
    <3>1. u + v + w =< BrQueueEvents
      BY DEF BqInv, BqBooks, BrQueued, p
    <3>2. BrQueueEvents \in Nat /\ u \in Nat /\ v \in Nat /\ w \in Nat
      BY <1>3, BrAssumption
    <3> HIDE DEF u, v, w
    <3>3. v + u =< BrQueueEvents
      BY ONLY <3>1, <3>2
    <3> QED BY <3>3 DEF u, v
  <2>3. BrQueueEvents \in Nat /\ BrRequests \in Nat /\ BrQueueEvents =< BrRequests
    BY BrAssumption
  <2> DEFINE t == Len(BqTaken)
             x == Len(BrEvents(p)) + Len(brBuffer)
  <2>4. t \in Nat /\ x \in Nat /\ t =< x /\ x =< BrQueueEvents
    BY <1>2, <1>3, <1>5, <1>6, <1>8, <2>1, <2>2
  <2> HIDE DEF t, x
  <2>5. t =< BrRequests
    BY ONLY <2>3, <2>4
  <2> QED BY <2>5 DEF t
<1>13. brBuffer = <<>> => q = <<>> /\ BqTaken = p
  <2> SUFFICES ASSUME brBuffer = <<>> PROVE q = <<>> /\ BqTaken = p
    OBVIOUS
  <2>1. c = 0
    BY <1>2, EmptySeq
  <2>2. q = <<>>
    BY <1>2, <2>1, EmptySeq DEF c
  <2> QED BY <1>1, <1>6, <2>2, ConcatEmptySeq
<1>14. BqTaken \in Seq(BrRequest)
  BY <1>5, <1>6
<1> HIDE DEF BqTaken
<1> QED BY <1>2, <1>7, <1>8, <1>9, <1>10, <1>11, <1>12, <1>13, <1>14 DEF p, q, a, c

-----------------------------------------------------------------------------
(* What the steps share: a line that grows or shortens, a server that gets *)
(* a request.                                                              *)

LEMMA BqRest ==
  ASSUME NEW a \in Seq(BqEvent), NEW b \in Seq(BqEvent), NEW n, BqRising(a \o b, n)
  PROVE  BqRising(b, n)
<1> DEFINE l == Len(a)
           m == Len(b)
           ab == a \o b
<1>1. l \in Nat /\ m \in Nat /\ DOMAIN b = 1..m
  BY LenProperties
<1>2. ab \in Seq(BqEvent) /\ Len(ab) = l + m /\ \A i \in 1..(l + m) : ab[i] = IF i =< l THEN a[i] ELSE b[i - l]
  BY ConcatProperties
<1>3. DOMAIN ab = 1..(l + m)
  BY <1>2, LenProperties
<1>4. (\A i, j \in 1..(l + m) : i < j => ab[i] < ab[j]) /\ \A i \in 1..(l + m) : ab[i] =< n
  BY <1>3 DEF BqRising
<1> HIDE DEF l, m, ab
<1>5. \A i \in 1..m : i + l \in 1..(l + m) /\ ab[i + l] = b[i]
  <2> SUFFICES ASSUME NEW i \in 1..m PROVE i + l \in 1..(l + m) /\ ab[i + l] = b[i]
    OBVIOUS
  <2>1. i + l \in 1..(l + m) /\ ~(i + l =< l) /\ (i + l) - l = i
    BY <1>1
  <2> QED BY <1>2, <2>1
<1>6. \A i, j \in 1..m : i < j => i + l < j + l
  BY <1>1
<1> QED BY <1>1, <1>4, <1>5, <1>6 DEF BqRising

LEMMA BqMore ==
  ASSUME NEW a \in Seq(BqEvent), NEW n \in Nat, n + 1 \in BqEvent, BqRising(a, n)
  PROVE  BqRising(Append(a, n + 1), n + 1)
<1> DEFINE l == Len(a)
           b == Append(a, n + 1)
<1>1. /\ b \in Seq(BqEvent) /\ Len(b) = l + 1 /\ (\A i \in 1..l : b[i] = a[i]) /\ b[l + 1] = n + 1
  BY AppendProperties
<1>2. l \in Nat /\ DOMAIN a = 1..l /\ DOMAIN b = 1..(l + 1)
  BY <1>1, LenProperties
<1>3. (\A i, j \in 1..l : i < j => a[i] < a[j]) /\ \A i \in 1..l : a[i] =< n /\ a[i] \in Int
  <2>1. \A i \in 1..l : a[i] \in Int
    <3>1. \A i \in 1..l : a[i] \in BqEvent
      BY ElementOfSeq
    <3>2. BqEvent \subseteq Int
      BY BrAssumption DEF BqEvent
    <3> QED BY <3>1, <3>2
  <2> QED BY <1>2, <2>1 DEF BqRising
<1> HIDE DEF l, b
<1>4. \A i \in 1..(l + 1) : i = l + 1 \/ i \in 1..l
  BY <1>2
<1>5. \A i \in 1..(l + 1) : b[i] =< n + 1
  <2> SUFFICES ASSUME NEW i \in 1..(l + 1) PROVE b[i] =< n + 1
    OBVIOUS
  <2>1. CASE i = l + 1
    BY <1>1, <2>1
  <2>2. CASE i \in 1..l
    BY <1>1, <1>3, <2>2
  <2> QED BY <1>4, <2>1, <2>2
<1>6. ASSUME NEW i \in 1..(l + 1), NEW j \in 1..(l + 1), i < j PROVE b[i] < b[j]
  <2>1. i \in 1..l
    BY <1>2, <1>6
  <2>2. CASE j = l + 1
    <3>1. b[i] =< n /\ b[i] \in Int /\ b[j] = n + 1
      BY <1>1, <1>3, <2>1, <2>2
    <3> QED BY <3>1
  <2>3. CASE j \in 1..l
    BY <1>1, <1>3, <1>6, <2>1, <2>3
  <2> QED BY <1>4, <2>2, <2>3
<1> QED BY <1>2, <1>5, <1>6 DEF BqRising, b

LEMMA BqNoLine == \A n : BqRising((<<>> \o <<>>) \o <<>>, n)
<1>1. <<>> \in Seq(BqEvent) /\ DOMAIN <<>> = {}
  OBVIOUS
<1>2. (<<>> \o <<>>) \o <<>> = <<>>
  BY <1>1, ConcatEmptySeq
<1> QED BY <1>1, <1>2 DEF BqRising

LEMMA BqLineIs ==
  ASSUME BqInv
  PROVE  /\ BqLine = brActive.events \o (BrEvents(brPending) \o brBuffer)
         /\ BqLine \in Seq(BqEvent) /\ BrEvents(brPending) \o brBuffer \in Seq(BqEvent)
         /\ brActive = BrNone => BqLine = BrEvents(brPending) \o brBuffer
         /\ (<<>> \o BrEvents(brPending)) \o brBuffer = BrEvents(brPending) \o brBuffer
<1> DEFINE a == brActive.events
           p == BrEvents(brPending)
           b == brBuffer
<1>1. a \in Seq(BqEvent) /\ p \in Seq(BqEvent) /\ b \in Seq(BqEvent)
  BY BqCounts DEF BqInv, BqTyped
<1>2. BqLine = (a \o p) \o b
  BY DEF BqLine
<1>3. brActive = BrNone => a = <<>>
  BY DEF BrNone
<1> HIDE DEF a, p, b
<1>4. (a \o p) \o b = a \o (p \o b)
  BY <1>1, ConcatAssociative
<1>5. p \o b \in Seq(BqEvent)
  BY <1>1, ConcatProperties
<1>6. a \o (p \o b) \in Seq(BqEvent)
  BY <1>1, <1>5, ConcatProperties
<1>7. <<>> \o (p \o b) = p \o b /\ <<>> \o p = p
  BY <1>1, <1>5, ConcatEmptySeq
<1>8. BqLine = a \o (p \o b) /\ BqLine \in Seq(BqEvent) /\ (a = <<>> => BqLine = p \o b) /\ (<<>> \o p) \o b = p \o b
  BY <1>2, <1>4, <1>6, <1>7
<1> QED BY <1>3, <1>5, <1>8 DEF a, p, b

LEMMA BqReaches ==
  ASSUME BqInv, NEW q \in BrRequest, BqFrozen(q), BrFails(q), brIds' = brIds
  PROVE  /\ brSeen' \subseteq 1..brIds' /\ brReached' \subseteq BqEvent /\ brReached \subseteq brReached'
         /\ BrReaches(q) => ToSet(q.events) \subseteq brReached'
         /\ \A r : BqFrozen(r) /\ (r.id = q.id => r.events = q.events) => BqFrozenNext(r)
<1>1. /\ brSeen \subseteq 1..brIds /\ brReached \subseteq BqEvent /\ q.id \in 1..brIds
      /\ q.id \in brSeen => ToSet(q.events) \subseteq brReached
  BY DEF BqInv, BqTyped, BqFrozen
<1>2. ToSet(q.events) \subseteq BqEvent
  <2>1. q.events \in Seq(BqEvent)
    BY BqRequestIs
  <2> QED BY <2>1, ElementOfSeq, LenProperties DEF ToSet
<1>3. brReached \subseteq brReached' /\ (brSeen' = brSeen \/ brSeen' = brSeen \cup {q.id})
      /\ (q.id \in brSeen' => q.id \in brSeen \/ BrReaches(q))
  BY <1>1 DEF BrFails, BrReaches
<1>4. BrReaches(q) => ToSet(q.events) \subseteq brReached'
  BY <1>1 DEF BrReaches
<1>5. brReached' \subseteq BqEvent
  BY <1>1, <1>2 DEF BrFails, BrReaches
<1>6. ASSUME NEW r, BqFrozen(r), r.id = q.id => r.events = q.events
      PROVE  BqFrozenNext(r)
  <2>1. r.events # <<>> /\ r.id \in 1..brIds /\ (r.id \in brSeen => ToSet(r.events) \subseteq brReached)
    BY <1>6 DEF BqFrozen
  <2>2. ASSUME r.id \in brSeen' PROVE ToSet(r.events) \subseteq brReached'
    <3>1. CASE r.id = q.id
      <4>1. r.events = q.events
        BY <1>6, <3>1
      <4> QED BY <1>1, <1>3, <1>4, <2>2, <3>1, <4>1
    <3>2. CASE r.id # q.id
      BY <1>3, <2>1, <2>2, <3>2
    <3> QED BY <3>1, <3>2
  <2> QED BY <2>1, <2>2 DEF BqFrozenNext
<1> QED BY <1>1, <1>3, <1>4, <1>5, <1>6

-----------------------------------------------------------------------------
\* Steps that leave the requests and the events where they are.
LEMMA BqKept ==
  ASSUME BqInv,
         UNCHANGED <<brAdmitted, brBuffer, brPending, brActive, brBytes, brIds, brDraining, brDelivered, brDropped,
                     brTrimmed, brAnswered, brSeen, brReached>>,
         brGate' \in BOOLEAN, brReplaced' \in {"no", "waits", "yes"},
         brFlush' \in [at : {"off", "loop", "sent"}, units : 0..BrUnits, unloading : BOOLEAN],
         BqStage'
  PROVE  BqInv'
<1>1. BqTyped'
  BY DEF BqInv, BqTyped
<1>2. BqApart'
  BY DEF BqInv, BqApart, BqFrozen
<1>3. BqBooks'
  BY DEF BqInv, BqBooks, BrQueued, BqActiveWeight
<1>4. BqOrder'
  BY DEF BqInv, BqOrder, BqLine
<1> QED BY <1>1, <1>2, <1>3, <1>4 DEF BqInv

LEMMA BqStillStep ==
  ASSUME BqInv, BrFlush \/ BrOut \/ BrGateEnds \/ BrReplace \/ UNCHANGED brVars
  PROVE  BqInv'
<1>0. BrUnits \in Nat
  BY BrAssumption
<1>1. /\ brFlush \in [at : {"off", "loop", "sent"}, units : 0..BrUnits, unloading : BOOLEAN]
      /\ brGate \in BOOLEAN /\ brReplaced \in {"no", "waits", "yes"}
      /\ BqStage
  BY DEF BqInv, BqTyped
<1>2. CASE BrFlush
  <2>1. PICK unloading \in BOOLEAN : brFlush' = [at |-> "loop", units |-> BrUnits, unloading |-> unloading]
    BY <1>2 DEF BrFlush
  <2>2. /\ UNCHANGED <<brAdmitted, brBuffer, brPending, brActive, brBytes, brIds, brDraining, brDelivered, brDropped,
                       brTrimmed, brAnswered, brSeen, brReached>>
        /\ brGate' = brGate /\ brReplaced' = brReplaced /\ brFlush.at = "off" /\ brReplaced = "no"
    BY <1>2 DEF BrFlush
  <2>3. brFlush' \in [at : {"off", "loop", "sent"}, units : 0..BrUnits, unloading : BOOLEAN] /\ brFlush'.at = "loop"
    BY <1>0, <2>1
  <2>4. BqStage'
    BY <1>1, <2>2, <2>3 DEF BqStage
  <2> QED BY <1>1, <2>2, <2>3, <2>4, BqKept
<1>3. CASE BrOut
  <2>1. /\ UNCHANGED <<brAdmitted, brBuffer, brPending, brActive, brBytes, brIds, brDraining, brDelivered, brDropped,
                       brTrimmed, brAnswered, brSeen, brReached>>
        /\ brGate' = brGate /\ brReplaced' = brReplaced /\ brFlush.at = "loop" /\ brFlush' = BrIdle
    BY <1>3 DEF BrOut
  <2>2. brFlush' \in [at : {"off", "loop", "sent"}, units : 0..BrUnits, unloading : BOOLEAN] /\ brFlush'.at = "off"
    BY <1>0, <2>1 DEF BrIdle
  <2>3. BqStage'
    BY <1>1, <2>1, <2>2 DEF BqStage
  <2> QED BY <1>1, <2>1, <2>2, <2>3, BqKept
<1>4. CASE BrGateEnds
  <2>1. /\ UNCHANGED <<brAdmitted, brBuffer, brPending, brActive, brBytes, brIds, brDraining, brDelivered, brDropped,
                       brTrimmed, brAnswered, brSeen, brReached>>
        /\ brGate' = FALSE /\ brReplaced' = brReplaced /\ brFlush' = brFlush
    BY <1>4 DEF BrGateEnds
  <2>2. BqStage'
    BY <1>1, <2>1 DEF BqStage
  <2> QED BY <1>1, <2>1, <2>2, BqKept
<1>5. CASE BrReplace
  <2>1. /\ UNCHANGED <<brAdmitted, brBuffer, brPending, brActive, brBytes, brIds, brDraining, brDelivered, brDropped,
                       brTrimmed, brAnswered, brSeen, brReached>>
        /\ brGate' = brGate /\ brReplaced = "no" /\ brReplaced' = "waits" /\ brFlush' = brFlush
    BY <1>5 DEF BrReplace
  <2>2. BqStage'
    BY <1>1, <2>1 DEF BqStage
  <2> QED BY <1>1, <2>1, <2>2, BqKept
<1>6. CASE UNCHANGED brVars
  <2>1. /\ UNCHANGED <<brAdmitted, brBuffer, brPending, brActive, brBytes, brIds, brDraining, brDelivered, brDropped,
                       brTrimmed, brAnswered, brSeen, brReached>>
        /\ brGate' = brGate /\ brReplaced' = brReplaced /\ brFlush' = brFlush
    BY <1>6 DEF brVars
  <2>2. BqStage'
    BY <1>1, <2>1 DEF BqStage
  <2> QED BY <1>1, <2>1, <2>2, BqKept
<1> QED BY <1>2, <1>3, <1>4, <1>5, <1>6

LEMMA BqTrackStep ==
  ASSUME BqInv, BrTrack
  PROVE  BqInv'
<1>1. /\ brReplaced = "no" /\ brAdmitted < MaxBrEvents /\ BrQueued < BrQueueEvents /\ brBytes + 2 =< BrQueueBytes
      /\ brAdmitted' = brAdmitted + 1 /\ brBuffer' = Append(brBuffer, brAdmitted + 1) /\ brBytes' = brBytes + 2
      /\ UNCHANGED <<brPending, brActive, brIds, brFlush, brGate, brReplaced, brDraining, brDelivered, brDropped,
                     brTrimmed, brAnswered, brSeen, brReached>>
  BY DEF BrTrack, BrReserve
<1>2. /\ brAdmitted \in Nat /\ brBuffer \in Seq(BqEvent) /\ MaxBrEvents \in Nat /\ brAdmitted + 1 \in BqEvent
      /\ brBytes \in Nat /\ brAdmitted + 1 \in 0..MaxBrEvents
  BY <1>1, BrAssumption DEF BqInv, BqTyped, BqEvent
<1>3. /\ Append(brBuffer, brAdmitted + 1) \in Seq(BqEvent)
      /\ Len(Append(brBuffer, brAdmitted + 1)) = Len(brBuffer) + 1
      /\ Append(brBuffer, brAdmitted + 1) = brBuffer \o <<brAdmitted + 1>>
  BY <1>2, AppendProperties, AppendIsConcat
<1>4. BqTyped'
  BY <1>1, <1>2, <1>3 DEF BqInv, BqTyped
<1>5. BqStage'
  BY <1>1 DEF BqInv, BqStage
<1>6. BqApart'
  BY <1>1 DEF BqInv, BqApart, BqFrozen
<1>7. BqBooks'
  <2> DEFINE l == Len(brBuffer)
             e == Len(BrEvents(brPending))
             a == Len(brActive.events)
             d == BqLoad(brDraining)
             v == BrWeights(brPending)
             w == BrWeights(SetToSeq(brDraining))
             z == BqActiveWeight
  <2>1. /\ l \in Nat /\ e \in Nat /\ a \in Nat /\ d \in Nat /\ w \in Nat /\ v \in Nat /\ z \in Nat
        /\ brDelivered \in Nat /\ brDropped \in Nat /\ brIds \in Nat
    BY BqCounts DEF BqInv, BqTyped, BrWeights, BqActiveWeight, BrWeight
  <2>2. /\ brDelivered + brDropped + (l + e + a) + d = brAdmitted
        /\ brBytes = 2 * l + v + w + z
        /\ brIds + l =< brAdmitted
    BY DEF BqInv, BqBooks, BrQueued
  <2>3. l + e + a < BrQueueEvents /\ BrQueueEvents \in Nat
    BY <1>1, BrAssumption DEF BrQueued
  <2>4. /\ Len(brBuffer') = l + 1 /\ Len(BrEvents(brPending')) = e /\ Len(brActive'.events) = a
        /\ BqLoad(brDraining') = d /\ BrWeights(brPending') = v /\ BrWeights(SetToSeq(brDraining')) = w
        /\ BqActiveWeight' = z
    BY <1>1, <1>3 DEF BqActiveWeight
  <2> HIDE DEF l, e, a, d, w, v, z
  <2>5. /\ brDelivered + brDropped + ((l + 1) + e + a) + d = brAdmitted + 1
        /\ (l + 1) + e + a =< BrQueueEvents
    BY ONLY <1>2, <2>1, <2>2, <2>3
  <2>6. /\ brBytes + 2 = 2 * (l + 1) + v + w + z
        /\ brIds + (l + 1) =< brAdmitted + 1
    BY ONLY <1>2, <2>1, <2>2
  <2> QED BY <1>1, <2>4, <2>5, <2>6 DEF BqBooks, BrQueued
<1>8. BqOrder'
  <2> DEFINE a == brActive.events \o BrEvents(brPending)
             x == <<brAdmitted + 1>>
  <2>1. a \in Seq(BqEvent) /\ x \in Seq(BqEvent) /\ BqLine = a \o brBuffer /\ BqLine \in Seq(BqEvent)
    <3>1. a \in Seq(BqEvent) /\ BqLine = a \o brBuffer
      BY BqCounts, ConcatProperties DEF BqLine
    <3>2. x \in Seq(BqEvent)
      BY <1>2
    <3> QED BY <3>1, <3>2, BqLineIs
  <2>2. BqLine' = a \o Append(brBuffer, brAdmitted + 1)
    BY <1>1 DEF BqLine
  <2> HIDE DEF a
  <2>3. a \o (brBuffer \o x) = (a \o brBuffer) \o x
    <3> HIDE DEF x
    <3>1. a \in Seq(BqEvent) /\ brBuffer \in Seq(BqEvent) /\ x \in Seq(BqEvent)
      BY <1>2, <2>1
    <3>2. (a \o brBuffer) \o x = a \o (brBuffer \o x)
      BY ONLY <3>1, ConcatAssociative
    <3> QED BY <3>2
  <2>4. BqLine' = Append(BqLine, brAdmitted + 1)
    BY <1>2, <1>3, <2>1, <2>2, <2>3, AppendIsConcat
  <2>5. BqRising(Append(BqLine, brAdmitted + 1), brAdmitted + 1)
    BY <1>2, <2>1, BqMore DEF BqInv, BqOrder
  <2> QED BY <1>1, <2>4, <2>5 DEF BqOrder
<1> QED BY <1>4, <1>5, <1>6, <1>7, <1>8 DEF BqInv

LEMMA BqUnitStep ==
  ASSUME BqInv, BrUnit
  PROVE  BqInv'
<1> DEFINE t == BqTaken
           n == Len(BrPacked)
<1>1. /\ brFlush.at = "loop" /\ brFlush.units > 0 /\ brBuffer' = <<>> /\ brIds' = brIds + n
      /\ UNCHANGED <<brAdmitted, brGate, brReplaced, brDraining, brDelivered, brAnswered, brSeen, brReached>>
  BY DEF BrUnit
<1>2. /\ t \in Seq(BrRequest) /\ n \in Nat /\ n =< Len(brBuffer)
      /\ BrEvents(t) = BrEvents(brPending) \o brBuffer
      /\ Len(BrEvents(t)) = Len(BrEvents(brPending)) + Len(brBuffer)
      /\ BrRepacked \in Nat /\ BrRepacked =< BrQueueBytes
      /\ BrRepacked = BrWeights(t) + BrWeights(SetToSeq(brDraining)) + BqActiveWeight
      /\ Len(t) =< BrRequests
      /\ \A i \in DOMAIN t :
           /\ t[i].events # <<>> /\ t[i].id \in 1..(brIds + n)
           /\ t[i].id \in brSeen => ToSet(t[i].events) \subseteq brReached
           /\ t[i].id # brActive.id
      /\ \A i, j \in DOMAIN t : t[i].id = t[j].id => i = j
      /\ brBuffer = <<>> => BrPacked = <<>> /\ t = brPending /\ BrRepacked = brBytes
  BY BqTakes
<1>3. /\ brActive = BrNone /\ brReplaced # "yes" /\ brDraining = {} /\ brReplaced \in {"no", "waits"}
  BY <1>1 DEF BqInv, BqStage, BqTyped
<1>4. /\ brBytes' = BrRepacked /\ brDropped' = brDropped + 0 /\ brTrimmed' = brTrimmed + 0
      /\ IF t = <<>>
         THEN brFlush' = BrIdle /\ brPending' = t /\ UNCHANGED brActive
         ELSE /\ brFlush' = [brFlush EXCEPT !.at = "sent", !.units = @ - 1]
              /\ brActive' = Head(t) /\ brPending' = Tail(t)
  <2>1. (IF brBuffer = <<>> THEN [pending |-> brPending, bytes |-> brBytes, lost |-> 0]
         ELSE BrKept(brPending \o BrPacked, BrRepacked)) = [pending |-> t, bytes |-> BrRepacked, lost |-> 0]
    <3>1. CASE brBuffer = <<>>
      BY <1>2, <3>1
    <3>2. CASE brBuffer # <<>>
      <4>1. BrKept(t, BrRepacked) = [pending |-> t, bytes |-> BrRepacked, lost |-> 0]
        <5> HIDE DEF t
        <5> QED BY <1>2, BqUntrimmed
      <4> QED BY <3>2, <4>1 DEF BqTaken
    <3> QED BY <3>1, <3>2
  <2> DEFINE k == [pending |-> t, bytes |-> BrRepacked, lost |-> 0]
  <2>2. /\ brBytes' = k.bytes /\ brDropped' = brDropped + k.lost /\ brTrimmed' = brTrimmed + k.lost
        /\ IF k.pending = <<>>
           THEN brFlush' = BrIdle /\ brPending' = k.pending /\ UNCHANGED brActive
           ELSE /\ brFlush' = [brFlush EXCEPT !.at = "sent", !.units = @ - 1]
                /\ brActive' = Head(k.pending) /\ brPending' = Tail(k.pending)
    <3> HIDE DEF t, k
    <3> QED BY <2>1 DEF BrUnit, k
  <2>3. k.pending = t /\ k.bytes = BrRepacked /\ k.lost = 0
    OBVIOUS
  <2> HIDE DEF k, t
  <2> QED BY <2>2, <2>3
<1>5. /\ brDropped \in Nat /\ brTrimmed = 0 /\ brIds \in Nat /\ brAdmitted \in Nat /\ brActive \in BrRequest
      /\ brFlush \in [at : {"off", "loop", "sent"}, units : 0..BrUnits, unloading : BOOLEAN]
      /\ brBuffer \in Seq(BqEvent) /\ brSeen \subseteq 1..brIds /\ BrUnits \in Nat /\ brIds + Len(brBuffer) =< brAdmitted
      /\ brDelivered \in Nat
  BY BrAssumption DEF BqInv, BqTyped, BqBooks
<1>6. brDropped' = brDropped /\ brTrimmed' = 0
  BY <1>4, <1>5
<1>7. BrEvents(brPending) \in Seq(BqEvent) /\ BrEvents(t) \in Seq(BqEvent) /\ BqLine = BrEvents(t)
  <2>1. BqLine = BrEvents(brPending) \o brBuffer
    BY <1>3, BqLineIs
  <2>2. BrEvents(brPending) \in Seq(BqEvent)
    BY BqCounts
  <2> HIDE DEF t
  <2> QED BY <1>2, <2>1, <2>2, BqEventsAre
<1>8. /\ Len(brBuffer) \in Nat /\ Len(BrEvents(brPending)) \in Nat /\ Len(t) \in Nat
      /\ Len(BrNone.events) = 0
      /\ BqLoad({}) = 0 /\ BrWeights(SetToSeq({})) = 0 /\ BqActiveWeight = 0
  <2>1. Len(t) \in Nat
    BY <1>2, LenProperties
  <2> QED BY <1>3, <2>1, BqCounts DEF BrNone, BqActiveWeight
<1>9. \A i \in DOMAIN t : BqFrozenNext(t[i])
  <2> HIDE DEF t
  <2> QED BY <1>1, <1>2 DEF BqFrozenNext
<1>10. brSeen' \subseteq 1..brIds' /\ brIds' \in Nat
  BY <1>1, <1>2, <1>5
<1>11. /\ brDelivered + brDropped + Len(BrEvents(t)) = brAdmitted
       /\ Len(BrEvents(t)) =< BrQueueEvents /\ brIds + n =< brAdmitted /\ BrRepacked = BrWeights(t)
  <2> DEFINE l == Len(brBuffer)
             e == Len(BrEvents(brPending))
             u == Len(BrEvents(t))
             x == BrWeights(t)
  <2>1. /\ l \in Nat /\ e \in Nat /\ u = e + l /\ x \in Nat
    <3>1. BrWeights(t) \in Nat
      <4>1. Len(BrEvents(t)) \in Nat
        BY <1>2, <1>8
      <4> HIDE DEF t
      <4> QED BY <1>8, <4>1 DEF BrWeights
    <3> QED BY <1>2, <1>8, <3>1
  <2>2. /\ brDelivered + brDropped + (l + e + 0) + 0 = brAdmitted /\ l + e + 0 =< BrQueueEvents
    BY <1>3, <1>8 DEF BqInv, BqBooks, BrQueued
  <2>3. BrQueueEvents \in Nat
    BY BrAssumption
  <2>4. BrRepacked = x + 0 + 0
    BY <1>2, <1>3, <1>8
  <2>5. n =< l /\ brIds + l =< brAdmitted
    BY <1>2, <1>5
  <2>6. n \in Nat
    BY <1>2
  <2> HIDE DEF l, e, u, x, n
  <2>7. brDelivered + brDropped + u = brAdmitted /\ u =< BrQueueEvents /\ brIds + n =< brAdmitted /\ BrRepacked = x
    BY ONLY <1>5, <2>1, <2>2, <2>3, <2>4, <2>5, <2>6
  <2> QED BY <2>7 DEF u, x
<1> HIDE DEF n
<1>12. CASE t = <<>>
  <2>1. brFlush' = BrIdle /\ brPending' = <<>> /\ brActive' = BrNone
    BY <1>3, <1>4, <1>12
  <2>2. brFlush' \in [at : {"off", "loop", "sent"}, units : 0..BrUnits, unloading : BOOLEAN] /\ brFlush'.at = "off"
    BY <1>5, <2>1 DEF BrIdle
  <2>3. <<>> \in Seq(BqEvent) /\ <<>> \in Seq(BrRequest) /\ Len(<<>>) = 0 /\ DOMAIN <<>> = {}
    OBVIOUS
  <2>4. BqTyped'
    BY <1>1, <1>2, <1>4, <1>5, <1>6, <1>10, <2>1, <2>2, <2>3 DEF BqInv, BqTyped
  <2>5. BqStage'
    BY <1>1, <1>3, <2>1, <2>2 DEF BqStage
  <2>6. BqApart'
    BY <1>1, <1>3, <2>1, <2>3 DEF BqApart
  <2>7. BqBooks'
    <3>1. Len(BrEvents(t)) = 0 /\ BrWeights(t) = 0
      BY <1>12, <2>3, BqEventsOfNone DEF BrWeights
    <3>2. brDelivered + brDropped + 0 = brAdmitted /\ brIds + n =< brAdmitted /\ BrRepacked = 0
      BY <1>11, <3>1
    <3>3. BrQueued' = 0 /\ BqLoad(brDraining') = 0 /\ BrWeights(SetToSeq(brDraining')) = 0 /\ BqActiveWeight' = 0
            /\ BrWeights(brPending') = 0 /\ Len(brBuffer') = 0
      BY <1>1, <1>3, <1>8, <2>1, <2>3, BqEventsOfNone DEF BrQueued, BqActiveWeight, BrWeights
    <3>4. brDelivered + brDropped + 0 + 0 = brAdmitted /\ brIds + n + 0 =< brAdmitted /\ 0 = 2 * 0 + 0 + 0 + 0
          /\ 0 =< BrQueueEvents /\ 0 =< BrQueueBytes /\ brIds + n \in Nat
      BY <1>2, <1>5, <3>2, BrAssumption DEF n
    <3> QED BY <1>1, <1>4, <1>6, <3>2, <3>3, <3>4 DEF BqBooks
  <2>8. BqOrder'
    <3>1. BqLine' = (<<>> \o <<>>) \o <<>>
      BY <1>1, <2>1, BqEventsOfNone DEF BqLine, BrNone
    <3> QED BY <3>1, BqNoLine DEF BqOrder
  <2> QED BY <2>4, <2>5, <2>6, <2>7, <2>8 DEF BqInv
<1>13. CASE t # <<>>
  <2> DEFINE h == Head(t)
             s == Tail(t)
  <2>1. brFlush' = [brFlush EXCEPT !.at = "sent", !.units = @ - 1] /\ brActive' = h /\ brPending' = s
    BY <1>4, <1>13
  <2>2. brFlush' \in [at : {"off", "loop", "sent"}, units : 0..BrUnits, unloading : BOOLEAN] /\ brFlush'.at = "sent"
    <3>1. brFlush.units - 1 \in 0..BrUnits
      BY <1>1, <1>5
    <3> QED BY <1>5, <2>1, <3>1
  <2>3. /\ h \in BrRequest /\ s \in Seq(BrRequest) /\ Len(t) = Len(s) + 1
        /\ 1 \in DOMAIN t /\ h = t[1]
        /\ \A i \in DOMAIN s : i + 1 \in DOMAIN t /\ i + 1 # 1 /\ i \in Nat /\ s[i] = t[i + 1]
        /\ BrEvents(t) = h.events \o BrEvents(s)
        /\ Len(BrEvents(t)) = Len(h.events) + Len(BrEvents(s))
    <3> HIDE DEF t
    <3> QED BY <1>2, <1>13, BqHead
  <2> HIDE DEF h, s
  <2>4. h # BrNone /\ BqFrozenNext(h)
    <3>1. h.id \in 1..(brIds + n)
      BY <1>2, <2>3 DEF n
    <3>2. h.id # 0
      BY <1>5, <3>1
    <3> QED BY <1>9, <2>3, <3>2 DEF BrNone
  <2>5. BqTyped'
    <3>1. <<>> \in Seq(BqEvent)
      OBVIOUS
    <3> QED BY <1>1, <1>2, <1>4, <1>5, <1>6, <1>10, <2>1, <2>2, <2>3, <3>1 DEF BqInv, BqTyped
  <2>6. BqStage'
    BY <1>1, <1>3, <2>1, <2>2, <2>4 DEF BqStage
  <2>7. BqApart'
    <3>1. \A i \in DOMAIN s : BqFrozenNext(s[i]) /\ s[i].id # h.id
      BY <1>2, <1>9, <2>3
    <3>2. \A i, j \in DOMAIN s : s[i].id = s[j].id => i = j
      <4> SUFFICES ASSUME NEW i \in DOMAIN s, NEW j \in DOMAIN s, s[i].id = s[j].id PROVE i = j
        OBVIOUS
      <4>1. i + 1 = j + 1 /\ i \in Nat /\ j \in Nat
        BY <1>2, <2>3
      <4> QED BY <4>1
    <3> QED BY <1>1, <1>3, <2>1, <2>4, <3>1, <3>2 DEF BqApart, BqFrozen, BqFrozenNext
  <2>8. BqBooks'
    <3> DEFINE a == Len(h.events)
               e == Len(BrEvents(s))
               k == Len(s)
    <3>1. a \in Nat /\ e \in Nat /\ k \in Nat
      BY <2>3, BqRequestIs, BqEventsAre, LenProperties
    <3>2. Len(BrEvents(t)) = a + e /\ BrWeights(t) = (a + e) + (k + 1)
      BY <2>3 DEF BrWeights
    <3>3. /\ Len(brBuffer') = 0 /\ BrQueued' = 0 + e + a /\ BqLoad(brDraining') = 0
          /\ BrWeights(SetToSeq(brDraining')) = 0
          /\ BqActiveWeight' = a + 1 /\ BrWeights(brPending') = e + k
      BY <1>1, <1>3, <1>8, <2>1, <2>4 DEF BrQueued, BqActiveWeight, BrWeight, BrWeights
    <3>4. brIds + n \in Nat /\ BrQueueEvents \in Nat
      BY <1>2, <1>5, BrAssumption DEF n
    <3>5. /\ brDelivered + brDropped + (a + e) = brAdmitted /\ a + e =< BrQueueEvents
          /\ brIds + n =< brAdmitted /\ BrRepacked = (a + e) + (k + 1)
      BY <1>11, <3>2 DEF n
    <3> HIDE DEF a, e, k
    <3>6. /\ brDelivered + brDropped + (0 + e + a) + 0 = brAdmitted /\ 0 + e + a =< BrQueueEvents
          /\ brIds + n + 0 =< brAdmitted
      BY ONLY <1>5, <3>1, <3>4, <3>5
    <3>7. BrRepacked = 2 * 0 + (e + k) + 0 + (a + 1)
      BY ONLY <3>1, <3>5
    <3> QED BY <1>1, <1>2, <1>4, <1>6, <3>3, <3>6, <3>7 DEF BqBooks, n
  <2>9. BqOrder'
    <3>1. BqLine' = (h.events \o BrEvents(s)) \o <<>>
      BY <1>1, <2>1 DEF BqLine
    <3>2. BrEvents(t) \o <<>> = BrEvents(t)
      <4> HIDE DEF t
      <4> QED BY <1>7, ConcatEmptySeq
    <3>3. BqLine' = BqLine
      BY <1>7, <2>3, <3>1, <3>2
    <3> QED BY <1>1, <3>3 DEF BqInv, BqOrder
  <2> QED BY <2>5, <2>6, <2>7, <2>8, <2>9 DEF BqInv
<1> QED BY <1>12, <1>13

\* The request under way is answered or given up.
LEMMA BqLeaves ==
  ASSUME BqInv, brFlush.at = "sent", BrFails(brActive), brActive' = BrNone, brBytes' = brBytes - BrWeight(brActive),
         brFlush' \in [at : {"off", "loop", "sent"}, units : 0..BrUnits, unloading : BOOLEAN], brFlush'.at # "sent",
         brDelivered' \in Nat, brDropped' \in Nat,
         brDelivered' + brDropped' = brDelivered + brDropped + Len(brActive.events),
         brAnswered' \subseteq brReached',
         UNCHANGED <<brAdmitted, brBuffer, brPending, brIds, brGate, brReplaced, brDraining, brTrimmed>>
  PROVE  BqInv'
<1> DEFINE q == brActive
<1>1. q # BrNone /\ q \in BrRequest /\ BqFrozen(q) /\ brReplaced # "yes" /\ brDraining = {}
  BY DEF BqInv, BqStage, BqApart, BqTyped
<1>2. /\ brSeen' \subseteq 1..brIds' /\ brReached' \subseteq BqEvent /\ brReached \subseteq brReached'
      /\ \A r : BqFrozen(r) /\ (r.id = q.id => r.events = q.events) => BqFrozenNext(r)
  <2> HIDE DEF q
  <2>1. BrFails(q)
    BY DEF q
  <2> QED BY <1>1, <2>1, BqReaches
<1>3. /\ BqLoad({}) = 0 /\ BrWeights(SetToSeq({})) = 0 /\ BqLoad(brDraining) = 0
      /\ BrWeights(SetToSeq(brDraining)) = 0
      /\ Len(brBuffer) \in Nat /\ Len(BrEvents(brPending)) \in Nat /\ Len(q.events) \in Nat /\ Len(brPending) \in Nat
  BY <1>1, BqCounts
<1>4. BqBooks'
  <2> DEFINE l == Len(brBuffer)
             e == Len(BrEvents(brPending))
             a == Len(q.events)
             v == BrWeights(brPending)
  <2>1. /\ l \in Nat /\ e \in Nat /\ a \in Nat /\ v \in Nat /\ brBytes \in Nat /\ brDelivered \in Nat /\ brDropped \in Nat
        /\ brAdmitted \in Nat /\ brIds \in Nat /\ BrQueueEvents \in Nat /\ BrQueueBytes \in Nat
    BY <1>3, BrAssumption DEF BqInv, BqTyped, BrWeights
  <2>2. /\ brDelivered + brDropped + (l + e + a) + 0 = brAdmitted
        /\ brBytes = 2 * l + v + 0 + (a + 1)
        /\ brIds + l =< brAdmitted /\ l + e + a =< BrQueueEvents /\ brBytes =< BrQueueBytes
    BY <1>1, <1>3 DEF BqInv, BqBooks, BrQueued, BqActiveWeight, BrWeight
  <2>3. brBytes' = brBytes - (a + 1) /\ brDelivered' + brDropped' = brDelivered + brDropped + a
    BY DEF BrWeight
  <2>4. /\ Len(brBuffer') = l /\ BrQueued' = l + e + 0 /\ BqLoad(brDraining') = 0
        /\ BrWeights(SetToSeq(brDraining')) = 0 /\ BqActiveWeight' = 0 /\ BrWeights(brPending') = v
    <3>1. Len(BrNone.events) = 0
      BY DEF BrNone
    <3> QED BY <1>1, <1>3, <3>1 DEF BrQueued, BqActiveWeight
  <2>5. brDelivered' \in Nat /\ brDropped' \in Nat
    OBVIOUS
  <2> HIDE DEF l, e, a, v, q
  <2>6. l + e + 0 =< BrQueueEvents
    BY ONLY <2>1, <2>2
  <2>8. brDelivered' + brDropped' + (l + e + 0) + 0 = brAdmitted
    <3>1. PICK x \in Nat, y \in Nat : x = brDelivered' /\ y = brDropped'
      BY ONLY <2>5
    <3>2. x + y = brDelivered + brDropped + a
      BY ONLY <2>3, <3>1
    <3>3. x + y + (l + e + 0) + 0 = brAdmitted
      BY ONLY <2>1, <2>2, <3>2
    <3> QED BY ONLY <3>1, <3>3
  <2>7. brBytes' = 2 * l + v + 0 + 0 /\ brBytes' =< BrQueueBytes
    BY ONLY <2>1, <2>2, <2>3
  <2> QED BY <2>2, <2>4, <2>6, <2>7, <2>8 DEF BqBooks
<1>5. BqTyped'
  <2>1. brBytes' \in Nat
    <3>1. /\ Len(brBuffer) \in Nat /\ BrWeights(brPending) \in Nat /\ brBytes' = 2 * Len(brBuffer) + BrWeights(brPending) + 0 + 0
      <4>1. BqActiveWeight' = 0 /\ BrWeights(SetToSeq(brDraining')) = 0
        BY <1>1, <1>3 DEF BqActiveWeight
      <4> QED BY <1>3, <1>4, <4>1 DEF BqBooks, BrWeights
    <3> DEFINE l == Len(brBuffer)
               v == BrWeights(brPending)
    <3>2. l \in Nat /\ v \in Nat /\ brBytes' = 2 * l + v + 0 + 0
      BY <3>1
    <3> HIDE DEF l, v
    <3> QED BY ONLY <3>2
  <2>2. BrNone \in BrRequest
    <3>1. 0 \in 0..MaxBrEvents /\ 0 \in 0..BrTries
      BY BrAssumption
    <3>2. <<>> \in Seq(1..MaxBrEvents)
      OBVIOUS
    <3> QED BY <3>1, <3>2 DEF BrNone, BrRequest
  <2> QED BY <1>2, <2>1, <2>2 DEF BqInv, BqTyped
<1>6. BqStage'
  BY DEF BqInv, BqStage
<1>7. BqApart'
  <2>1. ASSUME NEW i \in DOMAIN brPending PROVE BqFrozenNext(brPending[i]) /\ brPending[i].id # BrNone.id
    <3>1. BqFrozen(brPending[i]) /\ brPending[i].id # q.id
      BY DEF BqInv, BqApart
    <3>2. brPending[i].id # 0
      <4>1. brIds \in Nat /\ brPending[i].id \in 1..brIds
        BY <3>1 DEF BqFrozen, BqInv, BqTyped
      <4> QED BY <4>1
    <3> QED BY <1>2, <3>1, <3>2 DEF BrNone
  <2>2. \A i, j \in DOMAIN brPending : brPending[i].id = brPending[j].id => i = j
    BY DEF BqInv, BqApart
  <2> QED BY <1>1, <2>1, <2>2 DEF BqApart, BqFrozen, BqFrozenNext
<1>8. BqOrder'
  <2> DEFINE x == q.events
             y == BrEvents(brPending) \o brBuffer
  <2>1. BqLine = x \o y /\ x \in Seq(BqEvent) /\ y \in Seq(BqEvent) /\ (<<>> \o BrEvents(brPending)) \o brBuffer = y
    BY BqLineIs, BqCounts
  <2>2. BqLine' = (<<>> \o BrEvents(brPending)) \o brBuffer
    BY DEF BqLine, BrNone
  <2>3. BqRising(x \o y, brAdmitted)
    BY <2>1 DEF BqInv, BqOrder
  <2> HIDE DEF x, y
  <2>4. BqRising(y, brAdmitted)
    BY <2>1, <2>3, BqRest
  <2> QED BY <2>1, <2>2, <2>4 DEF BqOrder
<1> QED BY <1>4, <1>5, <1>6, <1>7, <1>8 DEF BqInv

LEMMA BqDeliversStep ==
  ASSUME BqInv, BrDelivers
  PROVE  BqInv'
<1> DEFINE q == brActive
<1>1. /\ brFlush.at = "sent" /\ BrAcked(q) /\ q' = BrNone /\ brBytes' = brBytes - BrWeight(q)
      /\ brFlush' = IF brFlush.unloading THEN BrIdle ELSE [brFlush EXCEPT !.at = "loop"]
      /\ UNCHANGED <<brAdmitted, brBuffer, brPending, brIds, brGate, brReplaced, brDraining, brTrimmed>>
  BY DEF BrDelivers
<1>2. BrUnits \in Nat /\ brFlush \in [at : {"off", "loop", "sent"}, units : 0..BrUnits, unloading : BOOLEAN]
  BY BrAssumption DEF BqInv, BqTyped
<1>3. brFlush' \in [at : {"off", "loop", "sent"}, units : 0..BrUnits, unloading : BOOLEAN] /\ brFlush'.at # "sent"
  <2>1. BrIdle \in [at : {"off", "loop", "sent"}, units : 0..BrUnits, unloading : BOOLEAN] /\ BrIdle.at # "sent"
    BY <1>2 DEF BrIdle
  <2>2. /\ [brFlush EXCEPT !.at = "loop"] \in [at : {"off", "loop", "sent"}, units : 0..BrUnits, unloading : BOOLEAN]
        /\ [brFlush EXCEPT !.at = "loop"].at # "sent"
    BY <1>2
  <2> QED BY <1>1, <2>1, <2>2
<1>4. BrReaches(q) /\ BrFails(q) /\ brAnswered' = brAnswered \cup ToSet(q.events)
  BY <1>1 DEF BrAcked, BrFails
<1>5. /\ q \in BrRequest /\ BqFrozen(q) /\ Len(q.events) \in Nat /\ brDelivered \in Nat /\ brDropped \in Nat
      /\ brAnswered \subseteq brReached
  <2>1. q \in BrRequest /\ BqFrozen(q) /\ brDelivered \in Nat /\ brDropped \in Nat /\ brAnswered \subseteq brReached
    BY <1>1 DEF BqInv, BqTyped, BqStage, BqApart
  <2> QED BY <2>1, BqRequestIs
<1>6. PICK rejected \in 0..(IF q.id \in brSeen THEN 0 ELSE Len(q.events)) :
        brDelivered' = brDelivered + Len(q.events) - rejected /\ brDropped' = brDropped + rejected
  BY <1>1 DEF BrAcked
<1>7. /\ brDelivered' \in Nat /\ brDropped' \in Nat
      /\ brDelivered' + brDropped' = brDelivered + brDropped + Len(q.events)
  <2> DEFINE n == Len(q.events)
  <2>1. n \in Nat /\ rejected \in 0..(IF q.id \in brSeen THEN 0 ELSE n)
        /\ brDelivered' = brDelivered + n - rejected /\ brDropped' = brDropped + rejected
    BY <1>5, <1>6
  <2> HIDE DEF n, q
  <2>2. rejected \in 0..n
    BY <2>1
  <2>3. brDelivered' \in Nat /\ brDropped' \in Nat /\ brDelivered' + brDropped' = brDelivered + brDropped + n
    BY <1>5, <2>1, <2>2
  <2> QED BY <2>3 DEF n
<1>8. brAnswered' \subseteq brReached'
  <2> HIDE DEF q
  <2>1. brReached \subseteq brReached' /\ ToSet(q.events) \subseteq brReached'
    BY <1>1, <1>4, <1>5, BqReaches
  <2> QED BY <1>4, <1>5, <2>1
<1> QED BY <1>1, <1>3, <1>4, <1>7, <1>8, BqLeaves

LEMMA BqExhaustedStep ==
  ASSUME BqInv, BrExhausted
  PROVE  BqInv'
<1> DEFINE q == brActive
<1>1. /\ brFlush.at = "sent" /\ BrFails(q) /\ q' = BrNone /\ brBytes' = brBytes - BrWeight(q)
      /\ brDropped' = brDropped + Len(q.events) /\ brFlush' = BrIdle
      /\ UNCHANGED <<brAdmitted, brBuffer, brPending, brIds, brGate, brReplaced, brDraining, brDelivered, brTrimmed,
                     brAnswered>>
  BY DEF BrExhausted, BrReleased
<1>2. BrUnits \in Nat
  BY BrAssumption
<1>3. brFlush' \in [at : {"off", "loop", "sent"}, units : 0..BrUnits, unloading : BOOLEAN] /\ brFlush'.at # "sent"
  BY <1>1, <1>2 DEF BrIdle
<1>4. /\ q \in BrRequest /\ BqFrozen(q) /\ Len(q.events) \in Nat /\ brDelivered \in Nat /\ brDropped \in Nat
      /\ brAnswered \subseteq brReached
  <2>1. q \in BrRequest /\ BqFrozen(q) /\ brDelivered \in Nat /\ brDropped \in Nat /\ brAnswered \subseteq brReached
    BY <1>1 DEF BqInv, BqTyped, BqStage, BqApart
  <2> QED BY <2>1, BqRequestIs
<1>5. /\ brDelivered' \in Nat /\ brDropped' \in Nat
      /\ brDelivered' + brDropped' = brDelivered + brDropped + Len(q.events)
  <2> DEFINE n == Len(q.events)
  <2>1. n \in Nat /\ brDropped' = brDropped + n /\ brDelivered' = brDelivered
    BY <1>1, <1>4
  <2> HIDE DEF n, q
  <2>2. brDelivered' \in Nat /\ brDropped' \in Nat /\ brDelivered' + brDropped' = brDelivered + brDropped + n
    BY <1>4, <2>1
  <2> QED BY <2>2 DEF n
<1>6. brAnswered' \subseteq brReached'
  <2> HIDE DEF q
  <2>1. brReached \subseteq brReached'
    BY <1>1, <1>4, BqReaches
  <2> QED BY <1>1, <1>4, <2>1
<1> QED BY <1>1, <1>3, <1>5, <1>6, BqLeaves

LEMMA BqRetriesStep ==
  ASSUME BqInv, BrRetries
  PROVE  BqInv'
<1> DEFINE q == brActive
           z == [q EXCEPT !.tries = @ + 1]
           one == <<z>>
           p == brPending
<1>1. /\ brFlush.at = "sent" /\ q.tries < BrTries /\ BrFails(q) /\ brPending' = one \o p
      /\ q' = BrNone /\ brGate' = TRUE /\ brFlush' = BrIdle
      /\ UNCHANGED <<brAdmitted, brBuffer, brBytes, brIds, brReplaced, brDraining, brDelivered, brDropped, brTrimmed,
                     brAnswered>>
  BY DEF BrRetries, BrHeld
<1>2. q # BrNone /\ q \in BrRequest /\ BqFrozen(q) /\ brReplaced # "yes" /\ brDraining = {} /\ p \in Seq(BrRequest)
  BY <1>1 DEF BqInv, BqStage, BqApart, BqTyped
<1>3. BrTries \in Nat /\ BrUnits \in Nat
  BY BrAssumption
<1>4. z \in BrRequest /\ z.events = q.events /\ z.id = q.id
  <2>1. q.tries + 1 \in 0..BrTries
    <3>1. q.tries \in 0..BrTries
      BY <1>2, BqRequestIs
    <3> QED BY <1>1, <1>3, <3>1
  <2> QED BY <1>2, <2>1 DEF BrRequest
<1>5. /\ brSeen' \subseteq 1..brIds' /\ brReached' \subseteq BqEvent /\ brReached \subseteq brReached'
      /\ \A r : BqFrozen(r) /\ (r.id = q.id => r.events = q.events) => BqFrozenNext(r)
  <2> HIDE DEF q
  <2> QED BY <1>1, <1>2, BqReaches
<1>6. /\ BqLoad(brDraining) = 0
      /\ BrWeights(SetToSeq(brDraining)) = 0
      /\ Len(brBuffer) \in Nat /\ Len(BrEvents(p)) \in Nat /\ Len(q.events) \in Nat /\ Len(p) \in Nat
  BY <1>2, BqCounts
<1>7. one \in Seq(BrRequest) /\ BrEvents(one) = q.events /\ Len(one) = 1 /\ one[1] = z
  <2> HIDE DEF z
  <2> QED BY <1>4, BqEventsOfOne
<1>8. q.id # 0
  <2>1. q.id \in 1..brIds /\ brIds \in Nat
    BY <1>2 DEF BqFrozen, BqInv, BqTyped
  <2> QED BY <2>1
<1> HIDE DEF z, one
<1>9. /\ one \o p \in Seq(BrRequest) /\ Len(one \o p) = 1 + Len(p)
      /\ \A i \in 1..(1 + Len(p)) : (one \o p)[i] = IF i =< 1 THEN one[i] ELSE p[i - 1]
  <2>1. one \in Seq(BrRequest) /\ p \in Seq(BrRequest)
    BY <1>2, <1>7
  <2>2. Len(one) = 1
    BY <1>7
  <2> HIDE DEF p
  <2>3. /\ one \o p \in Seq(BrRequest) /\ Len(one \o p) = Len(one) + Len(p)
        /\ \A i \in 1..(Len(one) + Len(p)) : (one \o p)[i] = IF i =< Len(one) THEN one[i] ELSE p[i - Len(one)]
    BY ONLY <2>1, ConcatProperties
  <2> QED BY ONLY <2>2, <2>3
<1>10. /\ BrEvents(one \o p) = q.events \o BrEvents(p)
       /\ Len(BrEvents(one \o p)) = Len(q.events) + Len(BrEvents(p))
  BY <1>2, <1>7, BqEventsJoin
<1>11. BqTyped'
  <2>1. BrNone \in BrRequest
    <3>1. 0 \in 0..MaxBrEvents /\ 0 \in 0..BrTries
      BY BrAssumption
    <3>2. <<>> \in Seq(1..MaxBrEvents)
      OBVIOUS
    <3> QED BY <3>1, <3>2 DEF BrNone, BrRequest
  <2>2. BrIdle \in [at : {"off", "loop", "sent"}, units : 0..BrUnits, unloading : BOOLEAN]
    BY <1>3 DEF BrIdle
  <2>3. brAnswered' \subseteq brReached'
    BY <1>1, <1>5 DEF BqInv, BqTyped
  <2>4. /\ brPending' \in Seq(BrRequest) /\ brActive' \in BrRequest /\ brGate' \in BOOLEAN
        /\ brFlush' \in [at : {"off", "loop", "sent"}, units : 0..BrUnits, unloading : BOOLEAN]
    BY <1>1, <1>9, <2>1, <2>2
  <2>5. UNCHANGED <<brAdmitted, brBuffer, brBytes, brIds, brReplaced, brDraining, brDelivered, brDropped, brTrimmed>>
    BY <1>1
  <2> HIDE DEF p, q
  <2> QED BY <1>5, <2>3, <2>4, <2>5 DEF BqInv, BqTyped
<1>12. BqStage'
  <2>1. brFlush'.at = "off"
    BY <1>1 DEF BrIdle
  <2> QED BY <1>1, <1>2, <2>1 DEF BqStage
<1>13. \A i \in 1..(1 + Len(p)) :
         /\ i = 1 => (one \o p)[i] = z
         /\ i # 1 => i - 1 \in DOMAIN p /\ (one \o p)[i] = p[i - 1]
  <2>1. DOMAIN p = 1..Len(p)
    BY <1>2, LenProperties
  <2> HIDE DEF p
  <2> QED BY <1>6, <1>7, <1>9, <2>1
<1>14. BqApart'
  <2>1. DOMAIN (one \o p) = 1..(1 + Len(p))
    <3> HIDE DEF p
    <3> QED BY <1>9, LenProperties
  <2>2. BqFrozen(z)
    BY <1>2, <1>4 DEF BqFrozen
  <2>3. /\ \A i \in DOMAIN p : BqFrozen(p[i]) /\ p[i].id # q.id
        /\ \A i, j \in DOMAIN p : p[i].id = p[j].id => i = j
    BY DEF BqInv, BqApart
  <2>4. ASSUME NEW r, BqFrozen(r), r.id = q.id => r.events = q.events PROVE BqFrozenNext(r) /\ r.id # 0
    <3>1. r.id \in 1..brIds /\ brIds \in Nat
      BY <2>4 DEF BqFrozen, BqInv, BqTyped
    <3> HIDE DEF q
    <3> QED BY <1>5, <2>4, <3>1
  <2> HIDE DEF p, q
  <2>5. ASSUME NEW i \in 1..(1 + Len(p)) PROVE BqFrozenNext((one \o p)[i]) /\ (one \o p)[i].id # 0
    <3>1. CASE i = 1
      BY <1>4, <1>13, <2>2, <2>4, <3>1
    <3>2. CASE i # 1
      BY <1>13, <2>3, <2>4, <3>2
    <3> QED BY <3>1, <3>2
  <2>6. ASSUME NEW i \in 1..(1 + Len(p)), NEW j \in 1..(1 + Len(p)), (one \o p)[i].id = (one \o p)[j].id
        PROVE  i = j
    <3>1. CASE i = 1 /\ j = 1
      BY <3>1
    <3>2. CASE i = 1 /\ j # 1
      BY <1>4, <1>13, <2>3, <2>6, <3>2
    <3>3. CASE i # 1 /\ j = 1
      BY <1>4, <1>13, <2>3, <2>6, <3>3
    <3>4. CASE i # 1 /\ j # 1
      <4>1. i - 1 = j - 1
        BY <1>13, <2>3, <2>6, <3>4
      <4> QED BY <1>6, <4>1
    <3> QED BY <3>1, <3>2, <3>3, <3>4
  <2>7. brPending' = one \o p /\ brActive' = BrNone /\ brDraining' = {} /\ BrNone.id = 0
    BY <1>1, <1>2 DEF p, q, BrNone
  <2> QED BY <2>1, <2>5, <2>6, <2>7 DEF BqApart, BqFrozen, BqFrozenNext
<1>15. BqBooks'
  <2> DEFINE l == Len(brBuffer)
             e == Len(BrEvents(p))
             a == Len(q.events)
             k == Len(p)
  <2>1. /\ l \in Nat /\ e \in Nat /\ a \in Nat /\ k \in Nat /\ brBytes \in Nat /\ brDelivered \in Nat /\ brDropped \in Nat
        /\ brAdmitted \in Nat /\ BrQueueEvents \in Nat
    BY <1>6, BrAssumption DEF BqInv, BqTyped
  <2>2. /\ brDelivered + brDropped + (l + e + a) + 0 = brAdmitted
        /\ brBytes = 2 * l + (e + k) + 0 + (a + 1)
        /\ l + e + a =< BrQueueEvents
    BY <1>2, <1>6 DEF BqInv, BqBooks, BrQueued, BqActiveWeight, BrWeight, BrWeights
  <2>3. /\ Len(brBuffer') = l /\ BrQueued' = l + (a + e) + 0 /\ BqLoad(brDraining') = 0
        /\ BrWeights(SetToSeq(brDraining')) = 0 /\ BqActiveWeight' = 0 /\ BrWeights(brPending') = (a + e) + (1 + k)
    <3>1. Len(BrNone.events) = 0
      BY DEF BrNone
    <3> QED BY <1>1, <1>6, <1>9, <1>10, <3>1 DEF BrQueued, BqActiveWeight, BrWeights
  <2> HIDE DEF l, e, a, k, q, p
  <2>4. brDelivered + brDropped + (l + (a + e) + 0) + 0 = brAdmitted /\ l + (a + e) + 0 =< BrQueueEvents
    BY ONLY <2>1, <2>2
  <2>5. brBytes = 2 * l + ((a + e) + (1 + k)) + 0 + 0
    BY ONLY <2>1, <2>2
  <2>6. brIds + l =< brAdmitted /\ brBytes =< BrQueueBytes
    BY DEF BqInv, BqBooks, l
  <2> QED BY <1>1, <2>3, <2>4, <2>5, <2>6 DEF BqBooks
<1>16. BqOrder'
  <2> DEFINE x == q.events \o BrEvents(p)
  <2>1. x \in Seq(BqEvent) /\ BqLine = x \o brBuffer
    BY BqCounts, ConcatProperties DEF BqLine
  <2>2. BqLine' = (<<>> \o x) \o brBuffer
    BY <1>1, <1>10 DEF BqLine, BrNone
  <2> HIDE DEF x
  <2>3. BqLine' = BqLine
    BY <2>1, <2>2, ConcatEmptySeq
  <2> QED BY <1>1, <2>3 DEF BqInv, BqOrder
<1> QED BY <1>11, <1>12, <1>14, <1>15, <1>16 DEF BqInv

LEMMA BqDrainStep ==
  ASSUME BqInv, BrDrain
  PROVE  BqInv'
<1> DEFINE t == BqTaken
           n == Len(BrPacked)
           S == ToSet(brPending) \cup ToSet(BrPacked)
<1>1. /\ brReplaced = "waits" /\ brFlush.at = "off" /\ brReplaced' = "yes" /\ brDraining' = S
      /\ brPending' = <<>> /\ brBuffer' = <<>> /\ brBytes' = BrRepacked /\ brIds' = brIds + n
      /\ UNCHANGED <<brAdmitted, brActive, brFlush, brGate, brDelivered, brDropped, brTrimmed, brAnswered,
                     brSeen, brReached>>
  BY DEF BrDrain, BrMayDrain
<1>2. /\ t \in Seq(BrRequest) /\ n \in Nat /\ n =< Len(brBuffer)
      /\ Len(BrEvents(t)) = Len(BrEvents(brPending)) + Len(brBuffer)
      /\ BrRepacked \in Nat /\ BrRepacked =< BrQueueBytes
      /\ BrRepacked = BrWeights(t) + BrWeights(SetToSeq(brDraining)) + BqActiveWeight
      /\ \A i \in DOMAIN t :
           /\ t[i].events # <<>> /\ t[i].id \in 1..(brIds + n)
           /\ t[i].id \in brSeen => ToSet(t[i].events) \subseteq brReached
      /\ \A i, j \in DOMAIN t : t[i].id = t[j].id => i = j
  BY BqTakes
<1>3. brActive = BrNone /\ brDraining = {}
  BY <1>1 DEF BqInv, BqStage
<1>4. ToSet(t) = S
  <2>1. brPending \in Seq(BrRequest) /\ BrPacked \in Seq(BrRequest)
    BY BqPacks DEF BqInv, BqBooks, BqTyped
  <2> DEFINE p == brPending
             q == BrPacked
             a == Len(p)
  <2>2. p \in Seq(BrRequest) /\ q \in Seq(BrRequest) /\ t = p \o q /\ S = ToSet(p) \cup ToSet(q)
    BY <2>1 DEF BqTaken
  <2> HIDE DEF p, q, t, S, n
  <2>3. a \in Nat /\ Len(q) \in Nat /\ DOMAIN p = 1..a /\ DOMAIN q = 1..Len(q)
    BY <2>2, LenProperties
  <2>4. /\ p \o q \in Seq(BrRequest) /\ Len(p \o q) = a + Len(q)
        /\ \A i \in 1..(a + Len(q)) : (p \o q)[i] = IF i =< a THEN p[i] ELSE q[i - a]
    BY <2>2, ConcatProperties
  <2>5. DOMAIN (p \o q) = 1..(a + Len(q))
    BY <2>4, LenProperties
  <2> HIDE DEF a
  <2>6. \A i \in 1..(a + Len(q)) : (i =< a => i \in 1..a) /\ (~(i =< a) => i - a \in 1..Len(q))
    BY <2>3
  <2>7. \A i \in 1..a : i \in 1..(a + Len(q)) /\ i =< a
    BY <2>3
  <2>8. \A i \in 1..Len(q) : i + a \in 1..(a + Len(q)) /\ ~(i + a =< a) /\ (i + a) - a = i
    BY <2>3
  <2>9. ASSUME NEW x \in ToSet(p \o q) PROVE x \in ToSet(p) \cup ToSet(q)
    <3>1. PICK i \in 1..(a + Len(q)) : x = (p \o q)[i]
      BY <2>5 DEF ToSet
    <3>2. CASE i =< a
      BY <2>3, <2>4, <2>6, <3>1, <3>2 DEF ToSet
    <3>3. CASE ~(i =< a)
      BY <2>3, <2>4, <2>6, <3>1, <3>3 DEF ToSet
    <3> QED BY <3>2, <3>3
  <2>10. ASSUME NEW x \in ToSet(p) PROVE x \in ToSet(p \o q)
    <3>1. PICK i \in 1..a : x = p[i]
      BY <2>3 DEF ToSet
    <3>2. i \in DOMAIN (p \o q) /\ (p \o q)[i] = x
      BY <2>4, <2>5, <2>7, <3>1
    <3> QED BY <3>2 DEF ToSet
  <2>11. ASSUME NEW x \in ToSet(q) PROVE x \in ToSet(p \o q)
    <3>1. PICK i \in 1..Len(q) : x = q[i]
      BY <2>3 DEF ToSet
    <3>2. i + a \in DOMAIN (p \o q) /\ (p \o q)[i + a] = x
      BY <2>4, <2>5, <2>8, <3>1
    <3> QED BY <3>2 DEF ToSet
  <2> QED BY <2>2, <2>9, <2>10, <2>11
<1>5. /\ brDropped \in Nat /\ brIds \in Nat /\ brAdmitted \in Nat
      /\ brBuffer \in Seq(BqEvent) /\ brSeen \subseteq 1..brIds /\ brIds + Len(brBuffer) =< brAdmitted
      /\ brDelivered \in Nat
  BY DEF BqInv, BqTyped, BqBooks
<1>6. S \in SUBSET BrRequest /\ IsFiniteSet(S)
  <2> HIDE DEF t, S, n
  <2>1. DOMAIN t = 1..Len(t) /\ Len(t) \in Nat
    BY <1>2, LenProperties
  <2>2. \A i \in DOMAIN t : t[i] \in BrRequest
    BY <1>2, <2>1, ElementOfSeq
  <2>3. t \in Surjection(1..Len(t), S)
    <3>1. S = {t[i] : i \in DOMAIN t}
      BY <1>4 DEF ToSet
    <3>2. t \in [1..Len(t) -> S]
      <4>1. t \in [1..Len(t) -> BrRequest]
        BY <1>2, LenProperties
      <4> QED BY <2>1, <3>1, <4>1
    <3>3. \A x \in S : \E i \in 1..Len(t) : t[i] = x
      BY <2>1, <3>1
    <3> QED BY <3>2, <3>3 DEF Surjection
  <2>4. IsFiniteSet(1..Len(t))
    <3>1. 1 \in Int /\ Len(t) \in Int
      BY <2>1
    <3> QED BY <3>1, FS_Interval
  <2>5. IsFiniteSet(S)
    BY <2>3, <2>4, FS_Surjection
  <2> QED BY <1>4, <2>2, <2>5 DEF ToSet
<1>7. BqListed(t)
  <2> HIDE DEF t
  <2> QED BY <1>2 DEF BqListed
<1>8. BqLoad(S) = Len(BrEvents(t)) /\ BrWeights(SetToSeq(S)) = BrWeights(t)
  <2> HIDE DEF t, S
  <2> QED BY <1>2, <1>4, <1>6, <1>7, BqLoadOf
<1>9. /\ Len(brBuffer) \in Nat /\ Len(BrEvents(brPending)) \in Nat
      /\ Len(brActive.events) = 0 /\ BqActiveWeight = 0
      /\ BqLoad(brDraining) = 0 /\ BrWeights(SetToSeq(brDraining)) = 0
  BY <1>3, BqCounts DEF BrNone, BqActiveWeight
<1>10. \A r \in S : BqFrozenNext(r)
  <2> HIDE DEF t, S
  <2> QED BY <1>1, <1>2, <1>4 DEF BqFrozenNext, ToSet
<1>11. \A r, s \in S : r.id = s.id => r = s
  <2> HIDE DEF t, S
  <2> QED BY <1>2, <1>4 DEF ToSet
<1>12. brSeen' \subseteq 1..brIds' /\ brIds' \in Nat
  BY <1>1, <1>2, <1>5
<1>13. BqTyped'
  <2>1. <<>> \in Seq(BqEvent) /\ <<>> \in Seq(BrRequest)
    OBVIOUS
  <2> HIDE DEF t, S
  <2> QED BY <1>1, <1>2, <1>6, <1>12, <2>1 DEF BqInv, BqTyped
<1>14. BqStage'
  BY <1>1, <1>3 DEF BqStage
<1>15. BqApart'
  <2>1. DOMAIN <<>> = {}
    OBVIOUS
  <2> HIDE DEF t, S
  <2> QED BY <1>1, <1>3, <1>10, <1>11, <2>1 DEF BqApart, BqFrozen, BqFrozenNext
<1>16. BqBooks'
  <2> DEFINE l == Len(brBuffer)
             e == Len(BrEvents(brPending))
             u == Len(BrEvents(t))
             x == BrWeights(t)
  <2>1. /\ l \in Nat /\ e \in Nat /\ u = e + l /\ n \in Nat /\ n =< l /\ brIds + l =< brAdmitted
    BY <1>2, <1>5, <1>9
  <2>2. /\ brDelivered + brDropped + (l + e + 0) + 0 = brAdmitted
        /\ BrRepacked = x + 0 + 0
    BY <1>2, <1>9 DEF BqInv, BqBooks, BrQueued
  <2>3. Len(<<>>) = 0 /\ BrWeights(<<>>) = 0 /\ BrEvents(<<>>) = <<>>
    <3>1. Len(<<>>) = 0
      OBVIOUS
    <3> QED BY <3>1, BqEventsOfNone DEF BrWeights
  <2>4. /\ Len(brBuffer') = 0 /\ BrQueued' = 0 + 0 + 0 /\ BqLoad(brDraining') = u
        /\ BrWeights(SetToSeq(brDraining')) = x /\ BqActiveWeight' = 0 /\ BrWeights(brPending') = 0
    <3> HIDE DEF t, S
    <3> QED BY <1>1, <1>8, <1>9, <2>3 DEF BrQueued, BqActiveWeight, u, x
  <2>5. BrQueueEvents \in Nat /\ x \in Nat
    <3>1. x = BrRepacked
      <4>1. x \in Nat
        <5>1. Len(BrEvents(t)) \in Nat /\ Len(t) \in Nat
          <6> HIDE DEF t
          <6> QED BY <1>2, BqEventsAre, LenProperties
        <5> HIDE DEF t
        <5> QED BY <5>1 DEF BrWeights
      <4> HIDE DEF x
      <4> QED BY <2>2, <4>1
    <3> QED BY <1>2, <3>1, BrAssumption
  <2> HIDE DEF l, e, u, x, n
  <2>6. brDelivered + brDropped + (0 + 0 + 0) + u = brAdmitted /\ brIds + n + 0 =< brAdmitted
    BY ONLY <1>5, <2>1, <2>2
  <2>7. BrRepacked = 2 * 0 + 0 + x + 0 /\ 0 + 0 + 0 =< BrQueueEvents
    BY ONLY <2>2, <2>5
  <2> QED BY <1>1, <1>2, <2>4, <2>6, <2>7 DEF BqBooks
<1>17. BqOrder'
  <2>1. BqLine' = (<<>> \o <<>>) \o <<>>
    BY <1>1, <1>3, BqEventsOfNone DEF BqLine, BrNone
  <2> QED BY <2>1, BqNoLine DEF BqOrder
<1> QED BY <1>13, <1>14, <1>15, <1>16, <1>17 DEF BqInv

LEMMA BqDrainedStep ==
  ASSUME BqInv, NEW q \in brDraining, BrDrained(q)
  PROVE  BqInv'
<1> DEFINE S == brDraining \ {q}
           n == Len(q.events)
<1>1. /\ brDraining' = S /\ brBytes' = brBytes - BrWeight(q)
      /\ UNCHANGED <<brAdmitted, brBuffer, brPending, brActive, brIds, brFlush, brGate, brReplaced, brTrimmed>>
      /\ BrAcked(q) \/ (BrFails(q) /\ brDropped' = brDropped + n /\ UNCHANGED <<brDelivered, brAnswered>>)
  BY DEF BrDrained
<1>2. /\ brReplaced = "yes" /\ brFlush.at = "off" /\ brActive = BrNone /\ brBuffer = <<>> /\ brPending = <<>>
  <2>1. brReplaced = "yes"
    BY DEF BqInv, BqStage
  <2>2. brFlush.at = "off" /\ brBuffer = <<>> /\ brPending = <<>>
    BY <2>1 DEF BqInv, BqStage
  <2> QED BY <2>1, <2>2 DEF BqInv, BqStage
<1>3. /\ q \in BrRequest /\ BqFrozen(q) /\ brDraining \in SUBSET BrRequest /\ IsFiniteSet(brDraining)
      /\ S \in SUBSET BrRequest /\ IsFiniteSet(S) /\ brAnswered \subseteq brReached /\ brDelivered \in Nat /\ brDropped \in Nat
  <2>1. /\ brDraining \in SUBSET BrRequest /\ IsFiniteSet(brDraining) /\ brAnswered \subseteq brReached
        /\ brDelivered \in Nat /\ brDropped \in Nat /\ BqFrozen(q)
    BY DEF BqInv, BqTyped, BqApart
  <2>2. IsFiniteSet(S)
    BY <2>1, FS_Subset
  <2> QED BY <2>1, <2>2
<1>4. n \in Nat
  BY <1>3, BqRequestIs
<1>5. BrFails(q)
  BY <1>1 DEF BrAcked, BrFails
<1>6. /\ brSeen' \subseteq 1..brIds' /\ brReached' \subseteq BqEvent /\ brReached \subseteq brReached'
      /\ BrReaches(q) => ToSet(q.events) \subseteq brReached'
      /\ \A r : BqFrozen(r) /\ (r.id = q.id => r.events = q.events) => BqFrozenNext(r)
  BY <1>1, <1>3, <1>5, BqReaches
<1>7. \E x, y \in Nat : x = brDelivered' /\ y = brDropped' /\ x + y = brDelivered + brDropped + n
  <2>1. CASE BrAcked(q)
    <3>1. PICK rejected \in 0..(IF q.id \in brSeen THEN 0 ELSE Len(q.events)) :
            brDelivered' = brDelivered + Len(q.events) - rejected /\ brDropped' = brDropped + rejected
      BY <2>1 DEF BrAcked
    <3>2. rejected \in 0..(IF q.id \in brSeen THEN 0 ELSE n) /\ brDelivered' = brDelivered + n - rejected
            /\ brDropped' = brDropped + rejected
      BY <3>1
    <3> HIDE DEF n
    <3>3. rejected \in 0..n
      BY <1>4, <3>2
    <3>4. brDelivered + n - rejected \in Nat /\ brDropped + rejected \in Nat
          /\ (brDelivered + n - rejected) + (brDropped + rejected) = brDelivered + brDropped + n
      BY <1>3, <1>4, <3>3
    <3> QED BY <3>2, <3>4
  <2>2. CASE ~BrAcked(q)
    <3>1. brDropped' = brDropped + n /\ brDelivered' = brDelivered
      BY <1>1, <2>2
    <3> HIDE DEF n
    <3>2. brDropped + n \in Nat /\ brDelivered + (brDropped + n) = brDelivered + brDropped + n
      BY <1>3, <1>4
    <3> QED BY <1>3, <3>1, <3>2
  <2> QED BY <2>1, <2>2
<1>8. brAnswered' \subseteq brReached'
  <2>1. CASE BrAcked(q)
    <3>1. BrReaches(q) /\ brAnswered' = brAnswered \cup ToSet(q.events)
      BY <2>1 DEF BrAcked
    <3> QED BY <1>3, <1>6, <3>1
  <2>2. CASE ~BrAcked(q)
    BY <1>1, <1>3, <1>6, <2>2
  <2> QED BY <2>1, <2>2
<1>9. /\ BqLoad(brDraining) = BqLoad(S) + n
      /\ BrWeights(SetToSeq(brDraining)) = BrWeights(SetToSeq(S)) + BrWeight(q)
      /\ BqLoad(S) \in Nat /\ BrWeights(SetToSeq(S)) \in Nat
  <2>1. /\ BqLoad(brDraining) = BqLoad(S) + n
        /\ BrWeights(SetToSeq(brDraining)) = BrWeights(SetToSeq(S)) + BrWeight(q)
    BY <1>3, BqLoadOf
  <2> HIDE DEF S
  <2>2. BqLoad(S) \in Nat /\ BrWeights(SetToSeq(S)) \in Nat
    BY <1>3, BqLoadOf
  <2> QED BY <2>1, <2>2
<1>10. BqBooks' /\ brBytes' \in Nat
  <2> DEFINE d == BqLoad(S)
             w == BrWeights(SetToSeq(S))
             k == BrWeight(q)
  <2>1. Len(<<>>) = 0 /\ BrWeights(<<>>) = 0 /\ BrEvents(<<>>) = <<>> /\ BrNone.events = <<>>
    <3>1. Len(<<>>) = 0
      OBVIOUS
    <3> QED BY <3>1, BqEventsOfNone DEF BrWeights, BrNone
  <2>2. Len(brBuffer) = 0 /\ BrQueued = 0 + 0 + 0 /\ BrWeights(brPending) = 0 /\ BqActiveWeight = 0
    BY <1>2, <2>1 DEF BrQueued, BqActiveWeight
  <2>3. /\ Len(brBuffer') = 0 /\ BrQueued' = 0 + 0 + 0 /\ BrWeights(brPending') = 0 /\ BqActiveWeight' = 0
        /\ BqLoad(brDraining') = d /\ BrWeights(SetToSeq(brDraining')) = w
    BY <1>1, <1>2, <2>1 DEF BrQueued, BqActiveWeight
  <2>4. /\ brDelivered + brDropped + (0 + 0 + 0) + (d + n) = brAdmitted
        /\ brBytes = 2 * 0 + 0 + (w + k) + 0
        /\ brIds + 0 =< brAdmitted /\ brBytes =< BrQueueBytes
    BY <1>9, <2>2 DEF BqInv, BqBooks
  <2>5. k \in Nat /\ d \in Nat /\ w \in Nat /\ n \in Nat /\ BrQueueEvents \in Nat /\ BrQueueBytes \in Nat /\ brAdmitted \in Nat
        /\ brBytes \in Nat
    BY <1>4, <1>9, BrAssumption DEF BrWeight, BqInv, BqTyped
  <2>6. brBytes' = brBytes - k
    BY <1>1
  <2>7. PICK x \in Nat, y \in Nat : x = brDelivered' /\ y = brDropped' /\ x + y = brDelivered + brDropped + n
    BY <1>7
  <2> HIDE DEF d, w, k, n, S
  <2>8. x + y + (0 + 0 + 0) + d = brAdmitted
    <3>1. brDelivered \in Nat /\ brDropped \in Nat
      BY <1>3
    <3>2. x + y = brDelivered + brDropped + n
      BY <2>7
    <3>3. brDelivered + brDropped + (0 + 0 + 0) + (d + n) = brAdmitted
      BY <2>4
    <3> QED BY ONLY <2>5, <3>1, <3>2, <3>3
  <2>9. brBytes' = 2 * 0 + 0 + w + 0 /\ brBytes' \in Nat /\ brBytes' =< BrQueueBytes /\ 0 + 0 + 0 =< BrQueueEvents
    BY ONLY <2>4, <2>5, <2>6
  <2>10. brDelivered' + brDropped' + (0 + 0 + 0) + d = brAdmitted
    BY ONLY <2>7, <2>8
  <2> QED BY <1>1, <2>3, <2>4, <2>9, <2>10 DEF BqBooks
<1>11. BqTyped'
  <2>1. brDelivered' \in Nat /\ brDropped' \in Nat
    BY <1>7
  <2> HIDE DEF S, n
  <2> QED BY <1>1, <1>3, <1>6, <1>8, <1>10, <2>1 DEF BqInv, BqTyped
<1>12. BqStage'
  BY <1>1, <1>2 DEF BqInv, BqStage
<1>13. BqApart'
  <2>1. \A r \in S : BqFrozenNext(r)
    <3> SUFFICES ASSUME NEW r \in S PROVE BqFrozenNext(r)
      OBVIOUS
    <3>1. BqFrozen(r) /\ r.id # q.id
      BY DEF BqInv, BqApart
    <3> QED BY <1>6, <3>1
  <2>2. \A r, s \in S : r.id = s.id => r = s
    BY DEF BqInv, BqApart
  <2>3. DOMAIN <<>> = {}
    OBVIOUS
  <2> HIDE DEF S
  <2> QED BY <1>1, <1>2, <2>1, <2>2, <2>3 DEF BqApart, BqFrozen, BqFrozenNext
<1>14. BqOrder'
  BY <1>1 DEF BqInv, BqOrder, BqLine
<1> QED BY <1>10, <1>11, <1>12, <1>13, <1>14 DEF BqInv

LEMMA BqInitOK ==
  ASSUME BrInit
  PROVE  BqInv
<1>1. /\ <<>> \in Seq(BqEvent) /\ <<>> \in Seq(BrRequest) /\ Len(<<>>) = 0 /\ DOMAIN <<>> = {}
      /\ <<>> \in Seq(1..MaxBrEvents)
  OBVIOUS
<1>2. BrNone \in BrRequest
  <2>1. 0 \in 0..MaxBrEvents /\ 0 \in 0..BrTries
    BY BrAssumption
  <2> QED BY <1>1, <2>1 DEF BrNone, BrRequest
<1>3. BrIdle \in [at : {"off", "loop", "sent"}, units : 0..BrUnits, unloading : BOOLEAN] /\ BrIdle.at = "off"
  BY BrAssumption DEF BrIdle
<1>4. IsFiniteSet({})
  BY FS_EmptySet
<1>5. BqTyped
  <2>1. 0 \in 0..MaxBrEvents
    BY BrAssumption
  <2> QED BY <1>1, <1>2, <1>3, <1>4, <2>1 DEF BrInit, BqTyped
<1>6. BqStage
  BY <1>3 DEF BrInit, BqStage
<1>7. BqApart
  BY <1>1 DEF BrInit, BqApart
<1>8. BqBooks
  <2>1. BqLoad({}) = 0 /\ BrWeights(SetToSeq({})) = 0
    BY <1>4, BqLoadOf
  <2>2. Len(BrEvents(<<>>)) = 0 /\ BrWeights(<<>>) = 0 /\ Len(BrNone.events) = 0
    BY <1>1, BqEventsOfNone DEF BrWeights, BrNone
  <2>3. BrQueueEvents \in Nat /\ BrQueueBytes \in Nat
    BY BrAssumption
  <2>4. BrQueued = 0 /\ BqActiveWeight = 0 /\ BqLoad(brDraining) = 0 /\ BrWeights(SetToSeq(brDraining)) = 0
        /\ BrWeights(brPending) = 0 /\ Len(brBuffer) = 0
    BY <1>1, <2>1, <2>2 DEF BrInit, BrQueued, BqActiveWeight
  <2> QED BY <2>3, <2>4 DEF BrInit, BqBooks
<1>9. BqOrder
  <2>1. BqLine = (<<>> \o <<>>) \o <<>>
    BY BqEventsOfNone DEF BqLine, BrInit, BrNone
  <2> QED BY <2>1, BqNoLine DEF BqOrder
<1> QED BY <1>5, <1>6, <1>7, <1>8, <1>9 DEF BqInv

LEMMA BqStep == BqInv /\ [BrNext]_brVars => BqInv'
<1> SUFFICES ASSUME BqInv, [BrNext]_brVars PROVE BqInv'
  OBVIOUS
<1>1. CASE BrFlush \/ BrOut \/ BrGateEnds \/ BrReplace \/ UNCHANGED brVars
  BY <1>1, BqStillStep
<1>2. CASE BrTrack
  BY <1>2, BqTrackStep
<1>3. CASE BrUnit
  BY <1>3, BqUnitStep
<1>4. CASE BrDelivers
  BY <1>4, BqDeliversStep
<1>5. CASE BrRetries
  BY <1>5, BqRetriesStep
<1>6. CASE BrExhausted
  BY <1>6, BqExhaustedStep
<1>7. CASE BrDrain
  BY <1>7, BqDrainStep
<1>8. CASE \E request \in brDraining : BrDrained(request)
  BY <1>8, BqDrainedStep
<1> QED BY <1>1, <1>2, <1>3, <1>4, <1>5, <1>6, <1>7, <1>8 DEF BrNext

LEMMA BqImplies ==
  ASSUME BqInv
  PROVE  BrTypeOK /\ BrowserSound
<1>1. MaxBrEvents \in Nat
  BY BrAssumption
<1>2. /\ brAdmitted \in 0..MaxBrEvents /\ brDelivered \in 0..MaxBrEvents /\ brDropped \in 0..MaxBrEvents
      /\ brTrimmed \in 0..MaxBrEvents /\ brIds \in 0..MaxBrEvents
  <2> DEFINE l == Len(brBuffer)
             u == BrQueued
             d == BqLoad(brDraining)
  <2>1. l \in Nat /\ u \in Nat /\ d \in Nat
    <3> DEFINE e == Len(BrEvents(brPending))
               a == Len(brActive.events)
    <3>1. l \in Nat /\ e \in Nat /\ a \in Nat /\ d \in Nat /\ u = l + e + a
      BY BqCounts DEF BrQueued
    <3> HIDE DEF l, e, a, d, u
    <3> QED BY ONLY <3>1
  <2>2. /\ brDelivered + brDropped + u + d = brAdmitted /\ brIds + l =< brAdmitted
        /\ brAdmitted \in 0..MaxBrEvents /\ brDelivered \in Nat /\ brDropped \in Nat /\ brIds \in Nat /\ brTrimmed = 0
    BY DEF BqInv, BqBooks, BqTyped
  <2> HIDE DEF l, u, d
  <2> QED BY ONLY <1>1, <2>1, <2>2
<1>3. BrTypeOK
  <2>1. 1..brIds \subseteq 1..MaxBrEvents
    BY <1>1, <1>2
  <2> QED BY <1>2, <2>1 DEF BqInv, BqTyped, BrTypeOK, BqEvent
<1>4. BrAccounted
  <2> DEFINE s == SetToSeq(brDraining)
             l == Len(brBuffer)
             u == BrQueued
             d == Len(BrEvents(s))
  <2>1. l \in Nat /\ u \in Nat /\ d \in Nat
    <3> DEFINE e == Len(BrEvents(brPending))
               a == Len(brActive.events)
    <3>1. l \in Nat /\ e \in Nat /\ a \in Nat /\ d \in Nat /\ u = l + e + a
      BY BqCounts DEF BrQueued, BqLoad
    <3> HIDE DEF l, e, a, d, u
    <3> QED BY ONLY <3>1
  <2>2. /\ brDelivered + brDropped + u + d = brAdmitted /\ brDelivered \in Nat /\ brDropped \in Nat
        /\ brBytes = 2 * l + BrWeights(brPending) + BrWeights(s) + BqActiveWeight
    BY DEF BqInv, BqBooks, BqTyped, BqLoad
  <2> QED BY <2>1, <2>2 DEF BrAccounted, BrReserve, BqActiveWeight
<1>5. BrNothingLeft
  <2> SUFFICES ASSUME brReplaced = "yes" PROVE BrQueued = 0
    BY DEF BrNothingLeft
  <2>1. brBuffer = <<>> /\ brPending = <<>> /\ brActive = BrNone
    BY DEF BqInv, BqStage
  <2>2. Len(<<>>) = 0 /\ BrEvents(<<>>) = <<>>
    <3>1. Len(<<>>) = 0
      OBVIOUS
    <3> QED BY <3>1, BqEventsOfNone
  <2> QED BY <2>1, <2>2 DEF BrQueued, BrNone
<1>6. BrRetained /\ BrIdentity
  BY DEF BqInv, BqTyped, BqBooks, BrRetained, BrIdentity
<1>7. BrInOrder
  BY DEF BqInv, BqOrder, BqRising, BqLine, BrInOrder
<1> QED BY <1>3, <1>4, <1>5, <1>6, <1>7 DEF BrowserSound

(* Whatever the browser's client queues, freezes into requests, sends,     *)
(* retries or drains on unload (sdk/browser/src/index.ts): an event it has *)
(* admitted is delivered, dropped with a count or still held, and none is  *)
(* held once it is replaced; none is shed for room, and the bytes stay in  *)
(* their budget; an event is acknowledged only if the server got it; and   *)
(* they are sent in the order they were tracked in.                        *)
THEOREM BrowserTheorem == BrSpec => [](BrTypeOK /\ BrowserSound)
<1>1. BrInit => BqInv
  BY BqInitOK
<1>2. BqInv => BrTypeOK /\ BrowserSound
  BY BqImplies
<1> QED BY <1>1, <1>2, BqStep, PTL DEF BrSpec

-----------------------------------------------------------------------------
(***************************************************************************)
(* The composed run.                                                       *)
(***************************************************************************)

(* A step of the run is a step of the part its focus names, and the other  *)
(* parts stay as they are.                                                 *)
LEMMA PartsStepOrStay ==
  ASSUME [MCNext]_mcVars
  PROVE  /\ [MergeNext]_mergeVars
         /\ [LifecycleNext]_lifecycleVars
         /\ [DispatchNext]_dispatchVars
         /\ [EmNext]_emVars
         /\ [SpikeNext]_spikeVars
         /\ [DetectorNext]_detectorVars
         /\ [SdkNext]_sdkVars
         /\ [MetricNext]_metricVars
         /\ [PyNext]_pyVars
         /\ [BrNext]_brVars
<1>1. CASE MCNext
  <2>1. [MergeNext]_mergeVars
    <3>1. CASE focus = "merges"
      BY <1>1, <3>1 DEF MCNext, PartNext
    <3>2. CASE focus # "merges"
      BY <1>1, <3>2 DEF MCNext, Still
    <3> QED
      BY <3>1, <3>2
  <2>2. [LifecycleNext]_lifecycleVars
    <3>1. CASE focus = "lifecycle"
      BY <1>1, <3>1 DEF MCNext, PartNext
    <3>2. CASE focus # "lifecycle"
      BY <1>1, <3>2 DEF MCNext, Still
    <3> QED
      BY <3>1, <3>2
  <2>3. [DispatchNext]_dispatchVars
    <3>1. CASE focus = "dispatch"
      BY <1>1, <3>1 DEF MCNext, PartNext
    <3>2. CASE focus # "dispatch"
      BY <1>1, <3>2 DEF MCNext, Still
    <3> QED
      BY <3>1, <3>2
  <2>4. [EmNext]_emVars
    <3>1. CASE focus = "emitter"
      BY <1>1, <3>1 DEF MCNext, PartNext
    <3>2. CASE focus # "emitter"
      BY <1>1, <3>2 DEF MCNext, Still
    <3> QED
      BY <3>1, <3>2
  <2>5. [SpikeNext]_spikeVars
    <3>1. CASE focus = "guard"
      BY <1>1, <3>1 DEF MCNext, PartNext
    <3>2. CASE focus # "guard"
      BY <1>1, <3>2 DEF MCNext, Still
    <3> QED
      BY <3>1, <3>2
  <2>6. [DetectorNext]_detectorVars
    <3>1. CASE focus = "detector"
      BY <1>1, <3>1 DEF MCNext, PartNext
    <3>2. CASE focus # "detector"
      BY <1>1, <3>2 DEF MCNext, Still
    <3> QED
      BY <3>1, <3>2
  <2>7. [SdkNext]_sdkVars
    <3>1. CASE focus = "sdk"
      BY <1>1, <3>1 DEF MCNext, PartNext
    <3>2. CASE focus # "sdk"
      BY <1>1, <3>2 DEF MCNext, Still
    <3> QED
      BY <3>1, <3>2
  <2>8. [MetricNext]_metricVars
    <3>1. CASE focus = "metrics"
      BY <1>1, <3>1 DEF MCNext, PartNext
    <3>2. CASE focus # "metrics"
      BY <1>1, <3>2 DEF MCNext, Still
    <3> QED
      BY <3>1, <3>2
  <2>9. [PyNext]_pyVars
    <3>1. CASE focus = "python"
      BY <1>1, <3>1 DEF MCNext, PartNext
    <3>2. CASE focus # "python"
      BY <1>1, <3>2 DEF MCNext, Still
    <3> QED
      BY <3>1, <3>2
  <2>10. [BrNext]_brVars
    <3>1. CASE focus = "browser"
      BY <1>1, <3>1 DEF MCNext, PartNext
    <3>2. CASE focus # "browser"
      BY <1>1, <3>2 DEF MCNext, Still
    <3> QED
      BY <3>1, <3>2
  <2> QED
    BY <2>1, <2>2, <2>3, <2>4, <2>5, <2>6, <2>7, <2>8, <2>9, <2>10
<1>2. CASE UNCHANGED mcVars
  BY <1>2 DEF mcVars
<1> QED
  BY <1>1, <1>2

(* So whatever a part keeps on its own it keeps in the composed run.       *)
LEMMA PartsAreImplemented ==
  MCSpec => /\ MergeSpec
            /\ LifecycleSpec
            /\ DispatchSpec
            /\ EmSpec
            /\ SpikeSpec
            /\ DetectorSpec
            /\ SdkInit /\ [][SdkNext]_sdkVars
            /\ MetricSpec
            /\ PySpec
            /\ BrSpec
<1>1. MCInit => /\ MergeInit
                /\ LifecycleInit
                /\ DispatchInit
                /\ EmInit
                /\ SpikeInit
                /\ DetectorInit
                /\ SdkInit
                /\ MetricInit
                /\ PyInit
                /\ BrInit
  BY DEF MCInit
<1> QED
  BY <1>1, PartsStepOrStay, PTL
     DEF MCSpec, MergeSpec, LifecycleSpec, DispatchSpec, EmSpec, SpikeSpec, DetectorSpec,
         MetricSpec, PySpec, BrSpec

(* What MCSignals says of issues holds in every reachable state: merges    *)
(* stay a forest whose cache is not stale beyond a write that is under     *)
(* way, an issue's status follows its events, the guard drops what its     *)
(* caps say and nothing else, and the detector alerts on a burst no more   *)
(* than once an hour, for every number of issues and requests, every cap   *)
(* and every window.                                                       *)
THEOREM IssuesTheorem == MCSpec => []IssuesSound
<1>1. MergesSound /\ LifecycleSound /\ SpikeSound /\ DetectorSound => IssuesSound
  BY DEF IssuesSound
<1> QED
  BY <1>1, PartsAreImplemented, MergeTheorem, LifecycleTheorem, GuardTheorem, DetectorTheorem, PTL

(* What was handed over is delivered or accounted for, in every reachable  *)
(* state: by the issue dispatcher and the alert emitter (issue_dispatch.go,*)
(* issue_alerts.go) and by the queues of the Go, the Python and the        *)
(* browser client, for every limit of a queue, number of tries, of workers *)
(* and of events.  MtKinds: no key is a counter's and another kind's.      *)
THEOREM DeliveryTheorem == ASSUME MtKinds PROVE MCSpec => []DeliverySound
<1>1. DispatchSound /\ EmitterSound /\ SdkSound /\ MetricsSound /\ PySdkSound /\ BrowserSound
        => DeliverySound
  BY DEF DeliverySound
<1> QED
  BY <1>1, PartsAreImplemented, DispatchTheorem, EmitterTheorem, SdkTheorem, MetricsTheorem,
     PyTheorem, BrowserTheorem, PTL

(* Every part of the run stays within its types: the states the code's     *)
(* caches, queues, workers and clients can be in, whichever part a         *)
(* behaviour is about.                                                     *)
THEOREM SignalsTyped == ASSUME MtKinds PROVE MCSpec => []SignalsTypeOK
<1>1. MergeTypeOK /\ LifecycleTypeOK /\ DispatchTypeOK /\ EmTypeOK /\ SpikeTypeOK
        /\ DetectorTypeOK /\ SdkTypeOK /\ MetricTypeOK /\ PyTypeOK /\ BrTypeOK
          => SignalsTypeOK
  BY DEF SignalsTypeOK
<1> QED
  BY <1>1, PartsAreImplemented, MergeTheorem, LifecycleTheorem, DispatchTheorem, EmitterTheorem,
     GuardTheorem, DetectorTheorem, SdkTheorem, MetricsTheorem, PyTheorem, BrowserTheorem, PTL
=============================================================================
