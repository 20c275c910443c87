---------------------------- MODULE BrowserQueue ----------------------------
(***************************************************************************)
(* The event queue of the browser SDK, sdk/browser/src/index.ts: track,    *)
(* flush under its one owner, retries of a frozen request, unload, and the *)
(* drain of a client that init has replaced.  A step is what one thread    *)
(* runs between two awaits.  Bytes are counted in units: an event is one,  *)
(* the headroom it reserves one, the envelope of a request one.            *)
(*                                                                         *)
(* The server knows a batch id again and answers it without storing it     *)
(* (handler.go:673-688).                                                   *)
(***************************************************************************)
EXTENDS Integers, Sequences, FiniteSets, SequencesExt

CONSTANTS
  MaxBrEvents,   \* bound on the events
  BrQueueEvents, BrQueueBytes,  \* MAX_QUEUED_EVENTS, MAX_QUEUED_BYTES
  BrRequests,    \* MAX_PENDING_REQUESTS
  BrPerRequest,  \* MAX_EVENTS_PER_REQUEST
  BrUnits,       \* requests of one flush
  BrTries        \* maxRetryAttempts

\* As many requests may wait as events: both are 200 (index.ts:285, 297).
ASSUME BrAssumption ==
  /\ {MaxBrEvents, BrQueueEvents, BrQueueBytes, BrRequests, BrPerRequest, BrUnits, BrTries} \subseteq Nat \ {0}
  /\ BrQueueEvents =< BrRequests

VARIABLES
  brAdmitted,   \* events, numbered as they were admitted
  brBuffer, brPending, brActive,
  brBytes,      \* queuedBytes
  brIds,        \* batch ids given out
  brFlush,      \* the flush owner: where it is, its units, whether the page unloads
  brGate,       \* now < retryAfter
  brReplaced,   \* init has put another client in this one's place
  brDraining,   \* requests of the drain that are under way
  brDelivered, brDropped, brTrimmed,
  brAnswered,   \* the events of the requests that were acknowledged
  brSeen, brReached  \* what the server has: batch ids, events

brVars == <<brAdmitted, brBuffer, brPending, brActive, brBytes, brIds, brFlush, brGate, brReplaced,
            brDraining, brDelivered, brDropped, brTrimmed, brAnswered, brSeen, brReached>>

BrIdle == [at |-> "off", units |-> 0, unloading |-> FALSE]
BrNone == [id |-> 0, events |-> <<>>, tries |-> 0]

BrInit ==
  /\ brAdmitted = 0 /\ brBuffer = <<>> /\ brPending = <<>> /\ brActive = BrNone
  /\ brBytes = 0 /\ brIds = 0 /\ brFlush = BrIdle /\ brGate = FALSE /\ brReplaced = "no"
  /\ brDraining = {} /\ brDelivered = 0 /\ brDropped = 0 /\ brTrimmed = 0
  /\ brAnswered = {} /\ brSeen = {} /\ brReached = {}

-----------------------------------------------------------------------------
BrEvents(requests) == FlattenSeq([i \in DOMAIN requests |-> requests[i].events])
BrWeight(request) == Len(request.events) + 1
BrWeights(requests) == Len(BrEvents(requests)) + Len(requests)

\* queuedEvents
BrQueued == Len(brBuffer) + Len(BrEvents(brPending)) + Len(brActive.events)

\* Mutant: an event reserves its own bytes only.
BrReserveBare == 1

BrReserve == 2

BrTrack ==
  /\ brReplaced = "no" /\ brAdmitted < MaxBrEvents
  /\ BrQueued < BrQueueEvents /\ brBytes + BrReserve =< BrQueueBytes
  /\ brAdmitted' = brAdmitted + 1
  /\ brBuffer' = Append(brBuffer, brAdmitted + 1)
  /\ brBytes' = brBytes + BrReserve
  /\ UNCHANGED <<brPending, brActive, brIds, brFlush, brGate, brReplaced, brDraining, brDelivered, brDropped,
                 brTrimmed, brAnswered, brSeen, brReached>>

\* flushClient: the timer, a full buffer or the application; and the page
\* when it is hidden, which no backoff holds.
BrFlush ==
  /\ brFlush.at = "off" /\ brReplaced = "no"
  /\ \E unloading \in BOOLEAN :
       /\ unloading \/ ~brGate
       /\ brFlush' = [at |-> "loop", units |-> BrUnits, unloading |-> unloading]
  /\ UNCHANGED <<brAdmitted, brBuffer, brPending, brActive, brBytes, brIds, brGate, brReplaced, brDraining,
                 brDelivered, brDropped, brTrimmed, brAnswered, brSeen, brReached>>

\* packEventRequests: the buffer as requests that are complete and keep
\* their bytes from now on.
BrPacked ==
  LET n == (Len(brBuffer) + BrPerRequest - 1) \div BrPerRequest
  IN [i \in 1..n |->
        [id |-> brIds + i, tries |-> 0,
         events |-> SubSeq(brBuffer, (i - 1) * BrPerRequest + 1,
                           IF i = n THEN Len(brBuffer) ELSE i * BrPerRequest)]]

BrRepacked == brBytes - BrReserve * Len(brBuffer) + BrWeights(BrPacked)

\* trimPending: the oldest go while there are too many or they are too big.
BrKept(pending, bytes) ==
  LET Fits(n) == /\ Len(pending) - n =< BrRequests
                 /\ bytes - BrWeights(SubSeq(pending, 1, n)) =< BrQueueBytes
      n == Min({k \in 0..Len(pending) : Fits(k) \/ k = Len(pending)})
  IN [pending |-> SubSeq(pending, n + 1, Len(pending)),
      bytes |-> bytes - BrWeights(SubSeq(pending, 1, n)),
      lost |-> Len(BrEvents(SubSeq(pending, 1, n)))]

\* One turn of the loop, as far as the request.
BrUnit ==
  LET kept == IF brBuffer = <<>> THEN [pending |-> brPending, bytes |-> brBytes, lost |-> 0]
              ELSE BrKept(brPending \o BrPacked, BrRepacked)
  IN /\ brFlush.at = "loop" /\ brFlush.units > 0
     /\ brBuffer' = <<>> /\ brIds' = brIds + Len(BrPacked)
     /\ brBytes' = kept.bytes
     /\ brDropped' = brDropped + kept.lost /\ brTrimmed' = brTrimmed + kept.lost
     /\ IF kept.pending = <<>>
        THEN /\ brFlush' = BrIdle /\ brPending' = kept.pending /\ UNCHANGED brActive
        ELSE /\ brFlush' = [brFlush EXCEPT !.at = "sent", !.units = @ - 1]
             /\ brActive' = Head(kept.pending) /\ brPending' = Tail(kept.pending)
     /\ UNCHANGED <<brAdmitted, brGate, brReplaced, brDraining, brDelivered, brAnswered, brSeen, brReached>>

\* The last unit is used up.
BrOut ==
  /\ brFlush.at = "loop" /\ brFlush.units = 0
  /\ brFlush' = BrIdle
  /\ UNCHANGED <<brAdmitted, brBuffer, brPending, brActive, brBytes, brIds, brGate, brReplaced, brDraining,
                 brDelivered, brDropped, brTrimmed, brAnswered, brSeen, brReached>>

-----------------------------------------------------------------------------
\* The server gets a request, whether its answer arrives or not.
BrReaches(request) ==
  /\ brSeen' = brSeen \cup {request.id}
  /\ brReached' = IF request.id \in brSeen THEN brReached ELSE brReached \cup ToSet(request.events)

\* deliverRequest: what the acknowledgement counts as rejected is lost; that
\* of a request the server knows again rejects none.
BrAcked(request) ==
  /\ BrReaches(request)
  /\ \E rejected \in 0..(IF request.id \in brSeen THEN 0 ELSE Len(request.events)) :
       /\ brDelivered' = brDelivered + Len(request.events) - rejected
       /\ brDropped' = brDropped + rejected
  /\ brAnswered' = brAnswered \cup ToSet(request.events)

BrFails(request) == BrReaches(request) \/ UNCHANGED <<brSeen, brReached>>

BrDelivers ==
  /\ brFlush.at = "sent"
  /\ BrAcked(brActive)
  /\ brActive' = BrNone /\ brBytes' = brBytes - BrWeight(brActive)
  /\ brFlush' = IF brFlush.unloading THEN BrIdle ELSE [brFlush EXCEPT !.at = "loop"]
  /\ UNCHANGED <<brAdmitted, brBuffer, brPending, brIds, brGate, brReplaced, brDraining, brTrimmed>>

\* Mutants: the events of a failed request go back to the buffer, and the
\* next request is sent under its id; a failed request goes to the end.
BrHeldMerged(request) ==
  /\ brBuffer' = request.events \o brBuffer
  /\ brBytes' = brBytes - BrWeight(request) + BrReserve * Len(request.events)
  /\ brIds' = request.id - 1
  /\ UNCHANGED brPending

BrHeldLast(request) ==
  /\ brPending' = Append(brPending, [request EXCEPT !.tries = @ + 1])
  /\ UNCHANGED <<brBuffer, brBytes, brIds>>

\* The request keeps its bytes and its place; trimPending finds it no bigger.
BrHeld(request) ==
  /\ brPending' = <<[request EXCEPT !.tries = @ + 1]>> \o brPending
  /\ UNCHANGED <<brBuffer, brBytes, brIds>>

BrRetries ==
  /\ brFlush.at = "sent" /\ brActive.tries < BrTries
  /\ BrFails(brActive) /\ BrHeld(brActive)
  /\ brActive' = BrNone /\ brGate' = TRUE /\ brFlush' = BrIdle
  /\ UNCHANGED <<brAdmitted, brReplaced, brDraining, brDelivered, brDropped, brTrimmed, brAnswered>>

\* Mutant: the reservation of a request that is given up is kept.
BrReleasedLate(request) == brBytes

BrReleased(request) == brBytes - BrWeight(request)

BrExhausted ==
  /\ brFlush.at = "sent" /\ brActive.tries = BrTries
  /\ BrFails(brActive)
  /\ brBytes' = BrReleased(brActive) /\ brDropped' = brDropped + Len(brActive.events)
  /\ brActive' = BrNone /\ brFlush' = BrIdle
  /\ UNCHANGED <<brAdmitted, brBuffer, brPending, brIds, brGate, brReplaced, brDraining, brDelivered, brTrimmed,
                 brAnswered>>

BrGateEnds ==
  /\ brGate /\ brGate' = FALSE
  /\ UNCHANGED <<brAdmitted, brBuffer, brPending, brActive, brBytes, brIds, brFlush, brReplaced, brDraining,
                 brDelivered, brDropped, brTrimmed, brAnswered, brSeen, brReached>>

-----------------------------------------------------------------------------
\* init again: this client takes no more events and waits for its flush.
BrReplace ==
  /\ brReplaced = "no" /\ brReplaced' = "waits"
  /\ UNCHANGED <<brAdmitted, brBuffer, brPending, brActive, brBytes, brIds, brFlush, brGate, brDraining,
                 brDelivered, brDropped, brTrimmed, brAnswered, brSeen, brReached>>

\* Mutant: the drain does not wait for the flush that is under way.
BrMayDrainAlways == TRUE

BrMayDrain == brFlush.at = "off"

\* drainClient: everything at once.
BrDrain ==
  /\ brReplaced = "waits" /\ BrMayDrain
  /\ brReplaced' = "yes"
  /\ brDraining' = ToSet(brPending) \cup ToSet(BrPacked)
  /\ brPending' = <<>> /\ brBuffer' = <<>>
  /\ brBytes' = BrRepacked /\ brIds' = brIds + Len(BrPacked)
  /\ UNCHANGED <<brAdmitted, brActive, brFlush, brGate, brDelivered, brDropped, brTrimmed, brAnswered,
                 brSeen, brReached>>

BrDrained(request) ==
  /\ request \in brDraining
  /\ brDraining' = brDraining \ {request}
  /\ brBytes' = brBytes - BrWeight(request)
  /\ \/ BrAcked(request)
     \/ /\ BrFails(request) /\ brDropped' = brDropped + Len(request.events)
        /\ UNCHANGED <<brDelivered, brAnswered>>
  /\ UNCHANGED <<brAdmitted, brBuffer, brPending, brActive, brIds, brFlush, brGate, brReplaced, brTrimmed>>

BrNext ==
  \/ BrTrack \/ BrFlush \/ BrUnit \/ BrOut \/ BrDelivers \/ BrRetries \/ BrExhausted \/ BrGateEnds
  \/ BrReplace \/ BrDrain \/ \E request \in brDraining : BrDrained(request)

BrSpec == BrInit /\ [][BrNext]_brVars

-----------------------------------------------------------------------------
BrRequest == [id : 0..MaxBrEvents, events : Seq(1..MaxBrEvents), tries : 0..BrTries]

BrTypeOK ==
  /\ {brAdmitted, brDelivered, brDropped, brTrimmed, brIds} \subseteq 0..MaxBrEvents
  /\ brBuffer \in Seq(1..MaxBrEvents) /\ brPending \in Seq(BrRequest) /\ brActive \in BrRequest
  /\ brBytes \in Nat /\ brGate \in BOOLEAN /\ brReplaced \in {"no", "waits", "yes"}
  /\ brFlush \in [at : {"off", "loop", "sent"}, units : 0..BrUnits, unloading : BOOLEAN]
  /\ brDraining \subseteq BrRequest /\ brSeen \subseteq 1..MaxBrEvents
  /\ brAnswered \cup brReached \subseteq 1..MaxBrEvents

(* Every event that was admitted is delivered, counted as lost or still    *)
(* queued, and queuedBytes is what the queued ones reserve.                *)
BrAccounted ==
  LET draining == SetToSeq(brDraining)
  IN /\ brDelivered + brDropped + BrQueued + Len(BrEvents(draining)) = brAdmitted
     /\ brBytes = BrReserve * Len(brBuffer) + BrWeights(brPending) + BrWeights(draining)
                  + (IF brActive = BrNone THEN 0 ELSE BrWeight(brActive))

(* A client that was replaced leaves nothing behind that nobody sends.     *)
BrNothingLeft == brReplaced = "yes" => BrQueued = 0

(* What track has admitted is never dropped for room later, and the byte   *)
(* budget is never exceeded: the headroom of an event covers its part of   *)
(* an envelope.                                                            *)
BrRetained == brTrimmed = 0 /\ brBytes =< BrQueueBytes

(* No event is acknowledged under the id of a batch it was not part of: an *)
(* acknowledged event is one the server got.                               *)
BrIdentity == brAnswered \subseteq brReached

(* Events are sent in the order they were tracked in, retries first.       *)
BrInOrder ==
  LET queued == brActive.events \o BrEvents(brPending) \o brBuffer
  IN \A i, j \in DOMAIN queued : i < j => queued[i] < queued[j]

BrowserSound == BrAccounted /\ BrNothingLeft /\ BrRetained /\ BrIdentity /\ BrInOrder
=============================================================================
