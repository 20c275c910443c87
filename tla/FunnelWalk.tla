----------------------------- MODULE FunnelWalk -----------------------------
(***************************************************************************)
(* The walks that answer a funnel: that of an entity's events, one pushed  *)
(* at a time (query/funnel.go), and that of a trace's spans                *)
(* (tracing/funnels.go), each against what its answer means.               *)
(*                                                                         *)
(* Events come in the order they are sorted in: by time, ties as they lie. *)
(***************************************************************************)
EXTENDS Integers, Sequences, FiniteSetsExt

CONSTANTS
  FunnelType,     \* types of events, and names of operations
  FunnelExcluded, \* exclusions worth asking with
  MaxFunnelSteps, MaxFunnelEvents, MaxFunnelTime

ASSUME FunnelAssumption ==
  {MaxFunnelSteps, MaxFunnelEvents, MaxFunnelTime} \subseteq Nat /\ FunnelExcluded \subseteq SUBSET FunnelType

VARIABLES
  fwAsked,   \* steps, exclusions and window of the question
  fwEvents,  \* the events so far
  fwWalk,    \* funnelWalker: stepIdx, done, e0ts
  spWalk     \* stepIdx and lastTs of computeFunnel

funnelVars == <<fwAsked, fwEvents, fwWalk, spWalk>>

Steps == UNION {[1..n -> FunnelType] : n \in 1..MaxFunnelSteps}

FunnelInit ==
  /\ fwAsked \in [steps : Steps, excluded : FunnelExcluded, window : 0..MaxFunnelTime]
  /\ fwEvents = <<>>
  /\ fwWalk = [idx |-> 0, done |-> FALSE, start |-> 0] /\ spWalk = [idx |-> 0, last |-> 0]

-----------------------------------------------------------------------------
\* Mutant: the end of the window is out of it.
OutOfWindowAtEnd(event) == fwAsked.window > 0 /\ event.ts - fwWalk.start >= fwAsked.window

OutOfWindow(event) == fwAsked.window > 0 /\ event.ts - fwWalk.start > fwAsked.window

\* Mutant: an event that takes a step does not exclude.
ExcludesUnlessStep(event) ==
  event.type \in fwAsked.excluded /\ event.type # fwAsked.steps[fwWalk.idx + 1]

Excludes(event) == event.type \in fwAsked.excluded

\* push
Pushed(event) ==
  LET next == fwWalk.idx + 1
      Match == event.type = fwAsked.steps[next]
      Step(start) == [idx |-> next, done |-> next = Len(fwAsked.steps), start |-> start]
  IN IF fwWalk.done THEN fwWalk
     ELSE IF fwWalk.idx = 0 THEN IF Match THEN Step(event.ts) ELSE fwWalk
     ELSE IF OutOfWindow(event) \/ Excludes(event) THEN [fwWalk EXCEPT !.done = TRUE]
     ELSE IF Match THEN Step(fwWalk.start) ELSE fwWalk

\* Mutant: a span that starts with the one before it takes the next step.
LaterOrWith(span) == spWalk.idx > 0 => span.ts >= spWalk.last

Later(span) == spWalk.idx > 0 => span.ts > spWalk.last

\* One span of computeFunnel's loop.
Matched(span) ==
  IF spWalk.idx < Len(fwAsked.steps) /\ span.type = fwAsked.steps[spWalk.idx + 1] /\ Later(span)
  THEN [idx |-> spWalk.idx + 1, last |-> span.ts] ELSE spWalk

FunnelNext ==
  /\ Len(fwEvents) < MaxFunnelEvents
  /\ \E type \in FunnelType, ts \in 0..MaxFunnelTime :
       /\ fwEvents # <<>> => ts >= fwEvents[Len(fwEvents)].ts
       /\ fwEvents' = Append(fwEvents, [type |-> type, ts |-> ts])
       /\ fwWalk' = Pushed([type |-> type, ts |-> ts])
       /\ spWalk' = Matched([type |-> type, ts |-> ts])
  /\ UNCHANGED fwAsked

FunnelSpec == FunnelInit /\ [][FunnelNext]_funnelVars

-----------------------------------------------------------------------------
FunnelTypeOK ==
  /\ fwEvents \in Seq([type : FunnelType, ts : 0..MaxFunnelTime])
  /\ fwWalk \in [idx : 0..Len(fwAsked.steps), done : BOOLEAN, start : 0..MaxFunnelTime]
  /\ spWalk \in [idx : 0..Len(fwAsked.steps), last : 0..MaxFunnelTime]

\* The ways through the first k steps, each by an event of its own.
FunnelChains(k) ==
  {chain \in [1..k -> DOMAIN fwEvents] :
     /\ \A i \in 1..k : fwEvents[chain[i]].type = fwAsked.steps[i]
     /\ \A i, j \in 1..k : i < j => chain[i] < chain[j]}

Furthest(Reached(_)) == Max({k \in 0..Len(fwAsked.steps) : k = 0 \/ Reached(k)})

EntityReached(k) ==
  \E chain \in FunnelChains(k) :
    /\ \A j \in 1..(chain[1] - 1) : fwEvents[j].type # fwAsked.steps[1]
    /\ fwAsked.window = 0 \/ fwEvents[chain[k]].ts =< fwEvents[chain[1]].ts + fwAsked.window
    /\ \A j \in (chain[1] + 1)..chain[k] : fwEvents[j].type \notin fwAsked.excluded

TraceReached(k) ==
  \E chain \in FunnelChains(k) : \A i \in 2..k : fwEvents[chain[i - 1]].ts < fwEvents[chain[i]].ts

(* An entity is counted as far as some chain of its events goes that       *)
(* begins with its first step's first event, is over within the window and *)
(* meets no exclusion on its way: the greedy walk misses none.             *)
EntityFurthest == fwWalk.idx = Furthest(EntityReached)

(* A trace is counted as far as some chain of its spans goes each of which *)
(* starts after the one before, in whatever order equal starts lie.        *)
TraceFurthest == spWalk.idx = Furthest(TraceReached)

FunnelSound == EntityFurthest /\ TraceFurthest
=============================================================================
