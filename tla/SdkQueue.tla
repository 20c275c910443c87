------------------------------ MODULE SdkQueue ------------------------------
(***************************************************************************)
(* The Go client's queues of logs and of spans, sdk/go/observe.go and      *)
(* traces.go: entries admitted under a limit, sent as chunks of the head   *)
(* of the queue, retried within a budget, and written off when a shutdown  *)
(* runs out of time.                                                       *)
(*                                                                         *)
(* A behaviour is about one of the two signals.  An entry is its number, a *)
(* limit counts entries and not bytes.  A Shutdown has one deadline, the   *)
(* same for everybody who waits for it.                                    *)
(***************************************************************************)
EXTENDS Integers, Sequences, FiniteSets, SequencesExt

CONSTANTS
  MaxEntries,     \* bound on the entries
  QueueLimit,     \* maxPendingLogBytes, maxPendingSpans
  ChunkLimit,     \* serverLogBatchCap, the bytes of a request
  SendAttempts    \* MaxSendAttempts

ASSUME SdkAssumption ==
  /\ MaxEntries \in Nat /\ QueueLimit \in Nat \ {0}
  /\ ChunkLimit \in Nat \ {0} /\ SendAttempts \in Nat \ {0}

Sender == {"worker", "caller", "final"}   \* loop, Flush, Shutdown's goroutine

VARIABLES
  signal,      \* "logs" or "spans"
  queue,       \* c.logs, c.spans
  offered,     \* entries so far
  attempts,    \* failures of the head in a row
  gated,       \* whether the backoff holds flushes off
  pinned,      \* spanBatchN: the size of the chunk that is being retried
  sender,      \* what each sender is at
  sdk,         \* "open", "closing", "drained", "flushed", "finalized"
  late,        \* the deadline of the Shutdown has passed
  received,    \* what the server has taken
  delivered, lost,   \* what the counters say
  writtenOff,  \* what a Shutdown that returned has counted: a sequence of at
               \* most one set
  spent        \* the failed attempts each span was part of

sdkVars == <<signal, queue, offered, attempts, gated, pinned, sender, sdk, late,
             received, delivered, lost, writtenOff, spent>>
flushing == <<queue, attempts, gated, pinned, received, delivered, lost, spent>>

Idle == [at |-> "off", left |-> 0, chunk |-> <<>>, why |-> "none"]

SdkInit ==
  /\ signal \in {"logs", "spans"} /\ queue = <<>> /\ offered = 0
  /\ attempts = 0 /\ gated = FALSE /\ pinned = 0
  /\ sender = [s \in Sender |-> Idle] /\ sdk = "open" /\ late = FALSE
  /\ received = {} /\ delivered = {} /\ lost = {} /\ writtenOff = <<>>
  /\ spent = [e \in 1..MaxEntries |-> 0]

-----------------------------------------------------------------------------
Closing == sdk # "open"

\* Mutant: a client that is closing goes on admitting.
AdmitsAlways == TRUE

Admits == ~Closing

\* A full queue loses the newest entry, and counts it.
AdmitEntry ==
  /\ Admits /\ offered < MaxEntries
  /\ offered' = offered + 1
  /\ IF Len(queue) < QueueLimit
     THEN queue' = Append(queue, offered + 1) /\ UNCHANGED lost
     ELSE lost' = lost \cup {offered + 1} /\ UNCHANGED queue
  /\ UNCHANGED <<signal, attempts, gated, pinned, sender, sdk, late, received,
                 delivered, writtenOff, spent>>

\* Mutant: public Flush does not take the flush mutex.
FlushFreeToCaller(s) == s = "caller" \/ \A o \in Sender : sender[o].at = "off"

FlushFree(s) == \A o \in Sender : sender[o].at = "off"

SenderGoes(s, where) == sender' = [sender EXCEPT ![s].at = where]
SenderEnds(s) ==
  /\ sender' = [sender EXCEPT ![s] = Idle]
  /\ sdk' = IF s = "final" THEN "flushed" ELSE sdk

\* The mutex is had and the watermark taken.
BeginFlush(s) ==
  /\ sender[s].at = "off" /\ FlushFree(s)
  /\ s = "worker" => ~Closing
  /\ s = "final" => sdk = "drained" /\ ~late
  /\ sender' = [sender EXCEPT ![s] = [Idle EXCEPT !.at = "loop", !.left = Len(queue)]]
  /\ UNCHANGED <<signal, offered, sdk, late, writtenOff, flushing>>

\* Mutant: the last flush waits for the mutex whatever its context says.
GivesUpNever == FALSE

GivesUp == late

FinalGivesUp ==
  /\ sdk = "drained" /\ sender["final"].at = "off" /\ GivesUp
  /\ sdk' = "flushed"
  /\ UNCHANGED <<signal, offered, sender, late, writtenOff, flushing>>

\* The context of a sender is over; a caller's may be at any time.
Cancelled(s) ==
  CASE s = "worker" -> Closing
    [] s = "final" -> late
    [] s = "caller" -> FALSE

FlushPauses(s) ==
  /\ sender[s].at = "loop"
  /\ sender[s].left = 0 \/ s = "caller" \/ Cancelled(s) \/ (gated /\ ~Closing)
  /\ SenderEnds(s)
  /\ UNCHANGED <<signal, offered, late, writtenOff, flushing>>

\* Mutant: a chunk of spans is cut anew for every attempt, as one of logs is.
ChunkSizeLoose(s) == {k \in 1..ChunkLimit : k =< sender[s].left /\ k =< Len(queue)}

\* Requests are packed by bytes, so a chunk may be short.
ChunkSize(s) ==
  IF signal = "spans" /\ pinned # 0 THEN {pinned} \cap 1..Len(queue)
  ELSE {k \in 1..ChunkLimit : k =< sender[s].left /\ k =< Len(queue)}

SendChunk(s) ==
  /\ sender[s].at = "loop" /\ sender[s].left > 0
  /\ ~Cancelled(s) /\ (gated => Closing)
  /\ \E k \in ChunkSize(s) :
       /\ sender' = [sender EXCEPT ![s].at = "sending", ![s].chunk = SubSeq(queue, 1, k)]
       /\ pinned' = IF signal = "spans" THEN k ELSE 0
  /\ UNCHANGED <<signal, queue, offered, attempts, gated, sdk, late, received,
                 delivered, lost, writtenOff, spent>>

Sent(s) == Range(sender[s].chunk)
Rest(s) == SubSeq(queue, Len(sender[s].chunk) + 1, Len(queue))

\* 200: of logs, the server may refuse some by their entry.  Logs are counted
\* and then removed, spans removed and then counted.
ChunkTaken(s) ==
  /\ sender[s].at = "sending"
  /\ received' = received \cup Sent(s)
  /\ IF signal = "logs"
     THEN \E bad \in SUBSET Sent(s) :
            /\ delivered' = delivered \cup (Sent(s) \ bad) /\ lost' = lost \cup bad
            /\ SenderGoes(s, "remove") /\ UNCHANGED queue
     ELSE /\ queue' = Rest(s)
          /\ sender' = [sender EXCEPT ![s].at = "count", ![s].why = "taken"]
          /\ UNCHANGED <<delivered, lost>>
  /\ UNCHANGED <<signal, offered, attempts, gated, pinned, sdk, late, writtenOff,
                 spent>>

RemoveChunk(s) ==
  /\ sender[s].at = "remove"
  /\ queue' = Rest(s) /\ attempts' = 0 /\ gated' = FALSE
  /\ sender' = [sender EXCEPT ![s] = [Idle EXCEPT !.at = "loop",
                                       !.left = sender[s].left - Len(sender[s].chunk)]]
  /\ UNCHANGED <<signal, offered, pinned, sdk, late, received, delivered, lost,
                 writtenOff, spent>>

\* An error that is not looked at, for the context is over; the server may
\* have the chunk all the same.
SendCancelled(s) ==
  /\ sender[s].at = "sending" /\ (Cancelled(s) \/ s = "caller")
  /\ received' \in {received, received \cup Sent(s)}
  /\ SenderEnds(s)
  /\ UNCHANGED <<signal, queue, offered, attempts, gated, pinned, late, delivered,
                 lost, writtenOff, spent>>

Dropped(s, why) ==
  /\ queue' = Rest(s)
  /\ sender' = [sender EXCEPT ![s].at = "count", ![s].why = why]

\* 429, 5xx, no answer in time, or one that cannot be read.
SendFails(s) ==
  /\ sender[s].at = "sending" /\ ~Cancelled(s)
  /\ received' \in {received, received \cup Sent(s)}
  /\ spent' = [e \in DOMAIN spent |->
                IF signal = "spans" /\ e \in Sent(s) THEN spent[e] + 1 ELSE spent[e]]
  /\ attempts' = attempts + 1
  /\ IF attempts + 1 >= SendAttempts
     THEN Dropped(s, "exhausted") /\ UNCHANGED <<gated, sdk>>
     ELSE gated' = (attempts + 1 >= 2) /\ SenderEnds(s) /\ UNCHANGED queue
  /\ UNCHANGED <<signal, offered, pinned, late, delivered, lost, writtenOff>>

\* Any other 4xx.
SendRefused(s) ==
  /\ sender[s].at = "sending" /\ ~Cancelled(s)
  /\ Dropped(s, "refused")
  /\ UNCHANGED <<signal, offered, attempts, gated, pinned, sdk, late, received,
                 delivered, lost, writtenOff, spent>>

\* A loss of spans ends the flush, one of logs does not.
CountChunk(s) ==
  /\ sender[s].at = "count" /\ attempts' = 0 /\ pinned' = 0 /\ gated' = FALSE
  /\ IF sender[s].why = "taken"
     THEN delivered' = delivered \cup Sent(s) /\ UNCHANGED lost
     ELSE lost' = lost \cup Sent(s) /\ UNCHANGED delivered
  /\ IF sender[s].why # "taken" /\ signal = "spans" THEN SenderEnds(s)
     ELSE /\ sender' = [sender EXCEPT ![s] = [Idle EXCEPT !.at = "loop",
                                             !.left = sender[s].left - Len(sender[s].chunk)]]
          /\ UNCHANGED sdk
  /\ UNCHANGED <<signal, queue, offered, late, received, writtenOff, spent>>

BackoffEnds ==
  /\ gated /\ gated' = FALSE
  /\ UNCHANGED <<signal, queue, offered, attempts, pinned, sender, sdk, late,
                 received, delivered, lost, writtenOff, spent>>

-----------------------------------------------------------------------------
BeginShutdown ==
  /\ sdk = "open" /\ sdk' = "closing"
  /\ UNCHANGED <<signal, offered, sender, late, writtenOff, flushing>>

WorkerExits ==
  /\ sdk = "closing" /\ sender["worker"].at = "off" /\ sdk' = "drained"
  /\ UNCHANGED <<signal, offered, sender, late, writtenOff, flushing>>

ShutdownDeadline ==
  /\ Closing /\ ~late /\ late' = TRUE
  /\ UNCHANGED <<signal, offered, sender, sdk, writtenOff, flushing>>

\* Once: whatever is queued is counted as lost.
RecordShutdownLoss ==
  IF writtenOff = <<>>
  THEN writtenOff' = <<Range(queue)>> /\ lost' = lost \cup Range(queue)
  ELSE UNCHANGED <<writtenOff, lost>>

Finalize ==
  /\ sdk = "flushed" /\ sdk' = "finalized"
  /\ RecordShutdownLoss
  /\ UNCHANGED <<signal, queue, offered, attempts, gated, pinned, sender, late, received,
                 delivered, spent>>

ShutdownTimesOut ==
  /\ late /\ writtenOff = <<>>
  /\ RecordShutdownLoss
  /\ UNCHANGED <<signal, queue, offered, attempts, gated, pinned, sender, sdk, late, received,
                 delivered, spent>>

FlushSteps(s) ==
  \/ FlushPauses(s) \/ SendChunk(s) \/ ChunkTaken(s) \/ RemoveChunk(s) \/ SendCancelled(s)
  \/ SendFails(s) \/ SendRefused(s) \/ CountChunk(s)

Finalizes == WorkerExits \/ FinalGivesUp \/ BeginFlush("final") \/ Finalize

SdkNext ==
  \/ AdmitEntry \/ (\E s \in Sender : BeginFlush(s) \/ FlushSteps(s)) \/ BackoffEnds
  \/ BeginShutdown \/ WorkerExits \/ FinalGivesUp \/ ShutdownDeadline
  \/ Finalize \/ ShutdownTimesOut

(* A request ends within ten seconds, and so does a Close; whoever has the *)
(* mutex goes on.  Whether the last flush, which polls for it, ever finds  *)
(* it free is not assumed.                                                 *)
SdkFairness ==
  /\ WF_sdkVars(\E s \in Sender : FlushSteps(s))
  /\ WF_sdkVars(Finalizes) /\ WF_sdkVars(ShutdownDeadline)

SdkSpec == SdkInit /\ [][SdkNext]_sdkVars /\ SdkFairness

-----------------------------------------------------------------------------
SdkTypeOK ==
  /\ signal \in {"logs", "spans"} /\ queue \in Seq(1..MaxEntries) /\ Len(queue) =< QueueLimit
  /\ attempts \in 0..SendAttempts /\ gated \in BOOLEAN /\ pinned \in 0..ChunkLimit
  /\ \A s \in Sender : /\ sender[s].at \in {"off", "loop", "sending", "remove", "count"}
                       /\ sender[s].left \in 0..QueueLimit
  /\ sdk \in {"open", "closing", "drained", "flushed", "finalized"}
  /\ late \in BOOLEAN /\ Len(writtenOff) =< 1
  /\ received \subseteq 1..MaxEntries /\ delivered \subseteq 1..MaxEntries
  /\ lost \subseteq 1..MaxEntries

(* "A loss is never silent": every entry is queued, delivered or counted as*)
(* lost, or in the hands of a sender between the queue and the counter;    *)
(* what is counted as delivered the server has; and nothing is counted as  *)
(* both, but what a shutdown wrote off while it was being sent.            *)
InHand == UNION {Sent(s) : s \in {o \in Sender : sender[o].at = "count"}}
EntriesAccounted ==
  /\ 1..offered = Range(queue) \cup delivered \cup lost \cup InHand
  /\ delivered \subseteq received
  /\ delivered \cap lost \subseteq UNION Range(writtenOff)

(* When a Shutdown has returned, what it left in the queue it has reported,*)
(* and the queue takes nothing more.                                       *)
ShutdownTells == writtenOff # <<>> => Range(queue) \subseteq UNION Range(writtenOff)

(* "Retry exactly this prefix; newer spans keep their own budget": a span  *)
(* is given up only after all the attempts of the budget.                  *)
SpansKeepTheirBudget ==
  \A s \in Sender :
    signal = "spans" /\ sender[s].at = "count" /\ sender[s].why = "exhausted" =>
      \A e \in Sent(s) : spent[e] = SendAttempts

SdkSound == EntriesAccounted /\ ShutdownTells /\ SpansKeepTheirBudget
=============================================================================
