----------------------------- MODULE SdkMetrics -----------------------------
(***************************************************************************)
(* The Go client's metrics, sdk/go/metrics.go: observations gathered per   *)
(* series, detached by a snapshot into envelopes that are sent in order    *)
(* and retried as they are, and written off when a shutdown runs out of    *)
(* time.                                                                   *)
(*                                                                         *)
(* An observation is its number.  A point of a gauge stands for one, of a  *)
(* histogram for those of its interval, of a counter, whose value is       *)
(* cumulative, for all so far.  A series, a histogram's bounds and a       *)
(* gauge's point cost one byte each.                                       *)
(***************************************************************************)
EXTENDS Integers, Sequences, FiniteSets, SequencesExt

CONSTANTS
  Counter, Gauge, Histogram,   \* the series, by their kind
  MaxObservations,             \* bound on the observations
  SeriesLimit,                 \* maxMetricSeries
  ByteLimit,                   \* the four megabytes of metricsBuf
  MetricTries                  \* MaxSendAttempts

Series == Counter \cup Gauge \cup Histogram
Flusher == {"worker", "caller", "final"}   \* loop, FlushMetrics, Shutdown's goroutine

ASSUME SdkMetricsAssumption ==
  /\ MaxObservations \in Nat /\ SeriesLimit \in Nat
  /\ ByteLimit \in Nat /\ MetricTries \in Nat \ {0}

VARIABLES
  observed,    \* observations so far
  refused,     \* those a budget refused, each counted as a loss
  total,       \* counters: all of a counter's observations
  dirty,       \* counterState.dirty
  gauges,      \* metricsBuf.gauges, as <<series, observation>>
  interval,    \* metricsBuf.histograms: the observations of the interval
  seriesKeys,  \* metricsBuf.seriesKeys
  bounded,     \* metricsBuf.bounds: the histograms whose bounds are kept
  bytes,       \* metricsBuf.bytes
  pending,     \* pendingMetrics: a sequence of sets of points
  tries, held, \* metricAttempts; whether metricNotBefore holds flushes off
  flusher,     \* what each flusher is at
  client,      \* "open", "closing", "drained", "flushed", "finalized"
  ctxDone,     \* the deadline of the Shutdown has passed
  tally,       \* recordShutdownLoss: at "off", "live", "done", and its points
  arrived,     \* the points the server has taken
  counted, dropped   \* the points counted as delivered, and as lost

liveVars == <<total, dirty, gauges, interval, seriesKeys, bounded, bytes>>
sendVars == <<pending, tries, held, flusher, arrived, counted, dropped>>
endVars == <<client, ctxDone, tally>>
metricVars == <<observed, refused, liveVars, sendVars, endVars>>

AtRest == [at |-> "off", snapped |-> FALSE, envelopes |-> <<>>, of |-> {}]

MetricInit ==
  /\ observed = 0 /\ refused = {}
  /\ total = [c \in Counter |-> {}] /\ dirty = [c \in Counter |-> FALSE]
  /\ gauges = <<>> /\ interval = [h \in Histogram |-> {}]
  /\ seriesKeys = {} /\ bounded = {} /\ bytes = 0
  /\ pending = <<>> /\ tries = 0 /\ held = FALSE
  /\ flusher = [f \in Flusher |-> AtRest]
  /\ client = "open" /\ ctxDone = FALSE /\ tally = [at |-> "off", points |-> {}]
  /\ arrived = {} /\ counted = {} /\ dropped = {}

-----------------------------------------------------------------------------
(* Recording.  The buffer's mutex is held from the test of closing to the  *)
(* end.                                                                    *)

RegisterAllowed(s) ==
  s \in seriesKeys \/ (Cardinality(seriesKeys) < SeriesLimit /\ bytes < ByteLimit)

\* What registering s adds to the bytes.
KeyCost(s) == IF s \in seriesKeys THEN 0 ELSE 1

Observing == client = "open" /\ observed < MaxObservations /\ observed' = observed + 1

Refuse == refused' = refused \cup {observed + 1}

RecordCounter(c) ==
  /\ Observing
  /\ IF RegisterAllowed(c)
     THEN /\ total' = [total EXCEPT ![c] = @ \cup {observed + 1}]
          /\ dirty' = [dirty EXCEPT ![c] = TRUE]
          /\ seriesKeys' = seriesKeys \cup {c} /\ bytes' = bytes + KeyCost(c)
          /\ UNCHANGED refused
     ELSE Refuse /\ UNCHANGED <<total, dirty, seriesKeys, bytes>>
  /\ UNCHANGED <<gauges, interval, bounded, sendVars, endVars>>

\* A series registered for a point that then has no room stays until the next
\* snapshot.
RecordGauge(g) ==
  LET room == bytes + KeyCost(g) < ByteLimit
  IN /\ Observing
     /\ IF RegisterAllowed(g) /\ room
        THEN gauges' = Append(gauges, <<g, observed + 1>>) /\ UNCHANGED refused
        ELSE Refuse /\ UNCHANGED gauges
     /\ IF RegisterAllowed(g)
        THEN /\ seriesKeys' = seriesKeys \cup {g}
             /\ bytes' = bytes + KeyCost(g) + (IF room THEN 1 ELSE 0)
        ELSE UNCHANGED <<seriesKeys, bytes>>
     /\ UNCHANGED <<total, dirty, interval, bounded, sendVars, endVars>>

RecordHistogram(h) ==
  LET first == h \notin bounded
  IN /\ Observing
     /\ IF first => bytes + 1 < ByteLimit /\ RegisterAllowed(h)
        THEN /\ interval' = [interval EXCEPT ![h] = @ \cup {observed + 1}]
             /\ seriesKeys' = seriesKeys \cup {h} /\ bounded' = bounded \cup {h}
             /\ bytes' = bytes + (IF first THEN KeyCost(h) + 1 ELSE 0)
             /\ UNCHANGED refused
        ELSE Refuse /\ UNCHANGED <<interval, seriesKeys, bounded, bytes>>
     /\ UNCHANGED <<total, dirty, gauges, sendVars, endVars>>

-----------------------------------------------------------------------------
(* FlushMetrics.                                                           *)

FlushMutexFree == \A f \in Flusher : flusher[f].at = "off"

FlusherEnds(f) ==
  /\ flusher' = [flusher EXCEPT ![f] = AtRest]
  /\ client' = IF f = "final" THEN "flushed" ELSE client

Stopped(f) ==
  CASE f = "worker" -> client # "open"
    [] f = "final" -> ctxDone
    [] f = "caller" -> FALSE

BeginFlushMetrics(f) ==
  /\ FlushMutexFree
  /\ f = "worker" => client = "open"
  /\ f = "final" => client = "drained" /\ ~ctxDone
  /\ client = "open" => ~held
  /\ flusher' = [flusher EXCEPT ![f].at = "loop"]
  /\ UNCHANGED <<observed, refused, liveVars, pending, tries, held, arrived, counted,
                 dropped, endVars>>

FinalMetricsGivesUp ==
  /\ client = "drained" /\ flusher["final"].at = "off" /\ ctxDone
  /\ client' = "flushed"
  /\ UNCHANGED <<observed, refused, liveVars, sendVars, ctxDone, tally>>

PointsOfCounters == {<<c, total[c]>> : c \in {d \in Counter : dirty[d]}}
PointsOfGauges == {<<p[1], {p[2]}>> : p \in Range(gauges)}
PointsOfHistograms ==
  {<<h, interval[h]>> : h \in {g \in Histogram : interval[g] # {}}}
LivePoints == PointsOfCounters \cup PointsOfGauges \cup PointsOfHistograms

\* Counters are packed first, histograms last, gauges in the order of their
\* observations.
Ahead(p, q) ==
  \/ p[1] \in Counter /\ q[1] \notin Counter
  \/ p[1] \in Gauge /\ q[1] \in Histogram
  \/ p[1] \in Gauge /\ q[1] \in Gauge
     /\ \E i, j \in DOMAIN gauges : i < j /\ p[2] = {gauges[i][2]} /\ q[2] = {gauges[j][2]}

\* The points packed by their bytes into at most two envelopes.
Packings ==
  {IF first = LivePoints THEN <<first>> ELSE <<first, LivePoints \ first>> :
     first \in {e \in (SUBSET LivePoints) \ {{}} :
                  \A p \in LivePoints \ e, q \in e : ~Ahead(p, q)}}

\* Mutant: a snapshot is due in every flush, also before what is pending is sent.
SnapshotDueAlways(f) == ~flusher[f].snapped

SnapshotDue(f) == pending = <<>> /\ ~flusher[f].snapped

\* Mutant: the identity of a series with nothing to send is deleted.
SurvivesIfDirty(s) == (s \in Counter /\ dirty[s]) \/ s \in bounded

Survives(s) == (s \in Counter /\ total[s] # {}) \/ s \in bounded

SnapshotMetricRequests(f) ==
  /\ flusher[f].at = "loop" /\ ~Stopped(f) /\ SnapshotDue(f)
  /\ \E es \in (IF LivePoints = {} THEN {<<>>} ELSE Packings) :
       IF es = <<>> THEN FlusherEnds(f)
       ELSE /\ flusher' = [flusher EXCEPT ![f] = [at |-> "detached", snapped |-> TRUE,
                                                  envelopes |-> es, of |-> {}]]
            /\ UNCHANGED client
  /\ dirty' = [c \in Counter |-> FALSE] /\ gauges' = <<>>
  /\ interval' = [h \in Histogram |-> {}]
  /\ seriesKeys' = {s \in seriesKeys : Survives(s)}
  /\ bytes' = Cardinality({s \in seriesKeys : Survives(s)}) + Cardinality(bounded)
  /\ UNCHANGED <<observed, refused, total, bounded, pending, tries, held, arrived,
                 counted, dropped, ctxDone, tally>>

Retain(f) ==
  /\ flusher[f].at = "detached"
  /\ pending' = flusher[f].envelopes
  /\ flusher' = [flusher EXCEPT ![f].at = "loop", ![f].envelopes = <<>>]
  /\ UNCHANGED <<observed, refused, liveVars, tries, held, arrived, counted, dropped,
                 endVars>>

\* The context is over, an envelope does not serialise and the interval stays
\* as it is, or there is nothing left to send.
FlushMetricsEnds(f) ==
  /\ flusher[f].at = "loop"
  /\ Stopped(f) \/ f = "caller" \/ SnapshotDue(f) \/ (pending = <<>> /\ flusher[f].snapped)
  /\ FlusherEnds(f)
  /\ UNCHANGED <<observed, refused, liveVars, pending, tries, held, arrived, counted,
                 dropped, ctxDone, tally>>

PostMetrics(f) ==
  /\ flusher[f].at = "loop" /\ ~Stopped(f) /\ pending # <<>> /\ ~SnapshotDue(f)
  /\ flusher' = [flusher EXCEPT ![f].at = "sending", ![f].of = Head(pending)]
  /\ UNCHANGED <<observed, refused, liveVars, pending, tries, held, arrived, counted,
                 dropped, endVars>>

MetricsTaken(f) ==
  /\ flusher[f].at = "sending"
  /\ arrived' = arrived \cup flusher[f].of /\ counted' = counted \cup flusher[f].of
  /\ tries' = 0
  /\ flusher' = [flusher EXCEPT ![f].at = "remove"]
  /\ UNCHANGED <<observed, refused, liveVars, pending, held, dropped, endVars>>

RemoveEnvelope(f) ==
  /\ flusher[f].at = "remove"
  /\ pending' = Tail(pending)
  /\ flusher' = [flusher EXCEPT ![f].at = "loop", ![f].of = {}]
  /\ UNCHANGED <<observed, refused, liveVars, tries, held, arrived, counted, dropped, endVars>>

\* The server may have the envelope all the same.
PostCancelled(f) ==
  /\ flusher[f].at = "sending" /\ (Stopped(f) \/ f = "caller")
  /\ arrived' \in {arrived, arrived \cup flusher[f].of}
  /\ FlusherEnds(f)
  /\ UNCHANGED <<observed, refused, liveVars, pending, tries, held, counted, dropped,
                 ctxDone, tally>>

\* dropPendingMetric, up to the counter of the loss.
DropPendingMetric(f) ==
  /\ pending' = Tail(pending)
  /\ tries' = 0
  /\ flusher' = [flusher EXCEPT ![f].at = "lose"]
  /\ UNCHANGED <<held, client>>

PostMetricsFails(f) ==
  /\ flusher[f].at = "sending" /\ ~Stopped(f)
  /\ arrived' \in {arrived, arrived \cup flusher[f].of}
  /\ IF tries + 1 >= MetricTries THEN DropPendingMetric(f)
     ELSE /\ tries' = tries + 1 /\ held' = (tries + 1 >= 2)
          /\ FlusherEnds(f) /\ UNCHANGED pending
  /\ UNCHANGED <<observed, refused, liveVars, counted, dropped, ctxDone, tally>>

PostMetricsRefused(f) ==
  /\ flusher[f].at = "sending" /\ ~Stopped(f)
  /\ DropPendingMetric(f)
  /\ UNCHANGED <<observed, refused, liveVars, arrived, counted, dropped, ctxDone, tally>>

MetricsLost(f) ==
  /\ flusher[f].at = "lose"
  /\ dropped' = dropped \cup flusher[f].of
  /\ FlusherEnds(f)
  /\ UNCHANGED <<observed, refused, liveVars, pending, tries, held, arrived, counted,
                 ctxDone, tally>>

MetricsBackoffEnds ==
  /\ held /\ held' = FALSE
  /\ UNCHANGED <<observed, refused, liveVars, pending, tries, flusher, arrived, counted,
                 dropped, endVars>>

-----------------------------------------------------------------------------
(* Shutdown.  Stats reads what is pending under the client's mutex and then*)
(* what is live under the buffer's.                                        *)

CloseMetrics ==
  /\ client = "open" /\ client' = "closing"
  /\ UNCHANGED <<observed, refused, liveVars, sendVars, ctxDone, tally>>

LoopExits ==
  /\ client = "closing" /\ flusher["worker"].at = "off" /\ client' = "drained"
  /\ UNCHANGED <<observed, refused, liveVars, sendVars, ctxDone, tally>>

CloseOverdue ==
  /\ client # "open" /\ ~ctxDone /\ ctxDone' = TRUE
  /\ UNCHANGED <<observed, refused, liveVars, sendVars, client, tally>>

TallyPending ==
  /\ client = "flushed" \/ ctxDone
  /\ tally.at = "off"
  /\ tally' = [at |-> "live", points |-> UNION Range(pending)]
  /\ UNCHANGED <<observed, refused, liveVars, sendVars, client, ctxDone>>

TallyLive ==
  /\ tally.at = "live"
  /\ tally' = [at |-> "done", points |-> tally.points \cup LivePoints]
  /\ dropped' = dropped \cup tally.points \cup LivePoints
  /\ UNCHANGED <<observed, refused, liveVars, pending, tries, held, flusher, arrived,
                 counted, client, ctxDone>>

MetricsFinalized ==
  /\ client = "flushed" /\ tally.at = "done" /\ client' = "finalized"
  /\ UNCHANGED <<observed, refused, liveVars, sendVars, ctxDone, tally>>

FlushMetrics(f) ==
  \/ BeginFlushMetrics(f) \/ SnapshotMetricRequests(f) \/ Retain(f) \/ FlushMetricsEnds(f)
  \/ PostMetrics(f) \/ MetricsTaken(f) \/ RemoveEnvelope(f) \/ PostCancelled(f)
  \/ PostMetricsFails(f) \/ PostMetricsRefused(f) \/ MetricsLost(f)

MetricNext ==
  \/ \E c \in Counter : RecordCounter(c)
  \/ \E g \in Gauge : RecordGauge(g)
  \/ \E h \in Histogram : RecordHistogram(h)
  \/ \E f \in Flusher : FlushMetrics(f)
  \/ MetricsBackoffEnds \/ FinalMetricsGivesUp
  \/ CloseMetrics \/ LoopExits \/ CloseOverdue \/ TallyPending \/ TallyLive \/ MetricsFinalized

MetricSpec == MetricInit /\ [][MetricNext]_metricVars

-----------------------------------------------------------------------------
Points == {<<s, o>> : s \in Series, o \in SUBSET (1..MaxObservations)}

MetricTypeOK ==
  /\ observed \in 0..MaxObservations /\ refused \subseteq 1..observed
  /\ \A c \in Counter : total[c] \subseteq 1..observed
  /\ dirty \in [Counter -> BOOLEAN] /\ gauges \in Seq(Gauge \X (1..observed))
  /\ \A h \in Histogram : interval[h] \subseteq 1..observed
  /\ seriesKeys \subseteq Series /\ bounded \subseteq Histogram /\ bytes \in 0..ByteLimit
  /\ Cardinality(seriesKeys) =< SeriesLimit
  /\ pending \in Seq(SUBSET Points) /\ tries \in 0..MetricTries - 1 /\ held \in BOOLEAN
  /\ client \in {"open", "closing", "drained", "flushed", "finalized"}
  /\ \A f \in Flusher :
       flusher[f].at \in {"off", "loop", "detached", "sending", "remove", "lose"}

Detached == UNION {UNION Range(flusher[f].envelopes) : f \in Flusher}
BeingLost == UNION {flusher[f].of : f \in {g \in Flusher : flusher[g].at = "lose"}}
Elsewhere == (UNION Range(pending)) \cup Detached \cup BeingLost \cup counted \cup dropped

(* "The envelope is retained until its POST succeeds", "a loss is never    *)
(* silent": every observation of a gauge or a histogram is refused by a    *)
(* budget, live, in an envelope, delivered or counted as lost, and so is   *)
(* the value of a counter that is not dirty; what is counted as delivered  *)
(* the server has.                                                         *)
ObservationsAccounted ==
  /\ \A n \in 1..observed :
       \/ n \in refused \/ \E c \in Counter : n \in total[c]
       \/ \E p \in LivePoints \cup Elsewhere : n \in p[2]
  /\ \A c \in Counter : total[c] = {} \/ dirty[c] \/ <<c, total[c]>> \in Elsewhere
  /\ counted \subseteq arrived
  /\ counted \cap dropped \subseteq tally.points

(* A counter is cumulative, and a smaller value after a greater one would  *)
(* read as a restart: what is yet to be sent of a counter is no smaller    *)
(* than what the server has of it, nor than what is sent before it.        *)
CountersRise ==
  LET waits == pending \o (IF Detached = {} THEN <<>> ELSE <<Detached>>)
  IN \A i \in DOMAIN waits : \A p \in waits[i] :
       /\ \A q \in arrived : p[1] \in Counter /\ q[1] = p[1] => q[2] \subseteq p[2]
       /\ \A j \in 1..i - 1 : \A q \in waits[j] :
            p[1] \in Counter /\ q[1] = p[1] => q[2] \subseteq p[2]

(* The export finds the name of every point it packs, and the byte budget  *)
(* is what the buffer holds, whatever was refused half way or released by  *)
(* snapshots.                                                              *)
SeriesKnown ==
  /\ \A p \in LivePoints : p[1] \in seriesKeys
  /\ \A c \in Counter : total[c] # {} => c \in seriesKeys
  /\ bytes = Cardinality(seriesKeys) + Cardinality(bounded) + Len(gauges)

MetricsSound == ObservationsAccounted /\ CountersRise /\ SeriesKnown

(* "On an expired deadline Shutdown reports still-queued records as counted*)
(* losses instead of swallowing them": when the shutdown is over and nobody*)
(* flushes, what is left has been counted.                                 *)
LeftoversCounted ==
  client = "finalized" /\ FlushMutexFree =>
    LivePoints \cup UNION Range(pending) \subseteq dropped
=============================================================================
