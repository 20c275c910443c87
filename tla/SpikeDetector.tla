--------------------------- MODULE SpikeDetector ---------------------------
(***************************************************************************)
(* Spike detection, the detector of internal/errors/spike.go: per issue    *)
(* the events of the window it is in and of the windows of the hour before *)
(* it, in a map of a bounded size from which an issue not seen for an hour *)
(* may go.  A window is WindowSpan of the clock's steps.                   *)
(***************************************************************************)
EXTENDS Integers, Sequences, FiniteSets, SequencesExt

CONSTANTS
  SpikeIssue,
  WindowSpan,     \* steps of the clock in a window
  TrailWindows,   \* issueSpikeBuckets: the windows of an hour
  MaxTracked,
  SpikeMin, SpikeFactor,
  MaxSpikeTime,   \* bound on the clock
  MaxBurst        \* bound on the events of an issue in a window

ASSUME DetectorAssumption ==
  /\ {TrailWindows, MaxTracked, SpikeMin, SpikeFactor, MaxSpikeTime, MaxBurst} \subseteq Nat
  /\ WindowSpan \in Nat \ {0}

VARIABLES
  spikeTime,
  trackedSpikes,   \* the tracked issues, each with its state
  fired            \* issues and the times they fired, since the last start

detectorVars == <<spikeTime, trackedSpikes, fired>>

Hour == WindowSpan * TrailWindows

NeverFired == -1

DetectorInit == spikeTime = 0 /\ trackedSpikes = <<>> /\ fired = {}

-----------------------------------------------------------------------------
\* rollLocked: whole windows go to the trail, of which the last hour is kept.
Rolled(st) ==
  LET whole == (spikeTime - st.start) \div WindowSpan
      trail == st.trail \o [w \in 1..whole |-> IF w = 1 THEN st.current ELSE 0]
  IN IF whole = 0 THEN st
     ELSE [st EXCEPT !.start = @ + whole * WindowSpan, !.current = 0,
                     !.trail = SubSeq(trail, Max({1, Len(trail) - TrailWindows + 1}), Len(trail))]

FreshSpike ==
  [start |-> spikeTime, trail |-> <<>>, current |-> 0, lastFire |-> NeverFired, touched |-> spikeTime]

\* Mutant: any issue may go for a new one.
IdleSpikeAny(st) == TRUE

IdleSpike(st) == spikeTime - st.touched > Hour

Evicted == {i \in DOMAIN trackedSpikes : IdleSpike(trackedSpikes[i])}

\* Mutant: the gate is of the trail, which starts with the window.
GateOpenInWindow(st) == st.lastFire = NeverFired \/ st.lastFire < st.start

GateOpen(st) == st.lastFire = NeverFired \/ spikeTime - st.lastFire >= Hour

Crosses(st) ==
  /\ st.current >= SpikeMin
  /\ st.current * TrailWindows >= SpikeFactor * FoldSeq(+, 0, st.trail)

\* An event of the issue is counted, in the map `left` of it.
CountSpike(i, left) ==
  LET st == Rolled(IF i \in left THEN trackedSpikes[i] ELSE FreshSpike)
      seen == [st EXCEPT !.current = @ + 1, !.touched = spikeTime]
      fires == GateOpen(seen) /\ Crosses(seen)
  IN /\ seen.current =< MaxBurst
     /\ trackedSpikes' = [j \in left \cup {i} |->
          IF j # i THEN trackedSpikes[j]
          ELSE [seen EXCEPT !.lastFire = IF fires THEN spikeTime ELSE @]]
     /\ fired' = fired \cup IF fires THEN {<<i, spikeTime>>} ELSE {}

ObserveSpike(i) ==
  /\ \/ i \in DOMAIN trackedSpikes /\ CountSpike(i, DOMAIN trackedSpikes)
     \/ /\ i \notin DOMAIN trackedSpikes
        /\ \/ /\ Cardinality(DOMAIN trackedSpikes) < MaxTracked
              /\ CountSpike(i, DOMAIN trackedSpikes)
           \/ /\ Cardinality(DOMAIN trackedSpikes) >= MaxTracked
              /\ Evicted # {} /\ CountSpike(i, DOMAIN trackedSpikes \ Evicted)
  /\ UNCHANGED spikeTime

SpikeTick ==
  /\ spikeTime < MaxSpikeTime /\ spikeTime' = spikeTime + 1
  /\ UNCHANGED <<trackedSpikes, fired>>

\* "A restart forgets the trail."
DetectorRestart ==
  /\ trackedSpikes # <<>> /\ trackedSpikes' = <<>> /\ fired' = {}
  /\ UNCHANGED spikeTime

DetectorNext == (\E i \in SpikeIssue : ObserveSpike(i)) \/ SpikeTick \/ DetectorRestart

DetectorSpec == DetectorInit /\ [][DetectorNext]_detectorVars

-----------------------------------------------------------------------------
DetectorTypeOK ==
  /\ spikeTime \in 0..MaxSpikeTime
  /\ DOMAIN trackedSpikes \subseteq SpikeIssue /\ Cardinality(DOMAIN trackedSpikes) =< MaxTracked
  /\ \A i \in DOMAIN trackedSpikes :
       LET st == trackedSpikes[i]
       IN /\ st.start \in 0..MaxSpikeTime /\ st.current \in 0..MaxBurst
          /\ Len(st.trail) =< TrailWindows /\ Range(st.trail) \subseteq 0..MaxBurst
          /\ st.lastFire \in NeverFired..MaxSpikeTime /\ st.touched \in 0..MaxSpikeTime
  /\ fired \subseteq SpikeIssue \X (0..MaxSpikeTime)

(* "At most ONCE PER ISSUE PER HOUR", also for an issue that had to make   *)
(* room in the map and came back.                                          *)
OncePerHour ==
  \A e, f \in fired : e[1] = f[1] /\ e[2] < f[2] => f[2] - e[2] >= Hour

(* What is counted is of the last hour and the window it ends in: no older *)
(* window hides a burst from the mean it is held against.                  *)
TrailOfTheHour ==
  \A i \in DOMAIN trackedSpikes :
    LET st == trackedSpikes[i]
    IN /\ st.touched - st.start < WindowSpan /\ st.start =< st.touched
       /\ st.lastFire # NeverFired => <<i, st.lastFire>> \in fired

DetectorSound == OncePerHour /\ TrailOfTheHour
=============================================================================
