---------------------------- MODULE IssueEmitter ----------------------------
(***************************************************************************)
(* The issue alert emitter, platform/issue_alerts.go: a queue that drops   *)
(* what it has no room for, and one drain that routes an event, waits for  *)
(* its settle deadline, reads the issue again and hands one payload to the *)
(* notification outbox for every webhook of its route.                     *)
(*                                                                         *)
(* Only waiting takes time.  The row of an event lands within its settle   *)
(* delay (lines 315-319).                                                  *)
(***************************************************************************)
EXTENDS Integers, Sequences, FiniteSets, SequencesExt

CONSTANTS
  EmIssue,
  EmHook,        \* webhooks, by their place in the listing
  EmQueueSize,   \* DefaultIssueAlertQueue
  EmSettle,      \* DefaultIssueAlertSettleMs, in ticks
  EmSeqLimit,    \* 65536, the issues a sequence is kept of
  MaxEmEvents, MaxEmTime

ASSUME EmAssumption ==
  /\ EmHook \subseteq Nat /\ {EmQueueSize, EmSettle, EmSeqLimit} \subseteq Nat \ {0} /\ {MaxEmEvents, MaxEmTime} \subseteq Nat

VARIABLES
  emTime,
  emEvents,    \* what was notified: issue, and moment
  emLanded,    \* the events whose rows are written
  emQueue, emDropped, emEmitted,
  emDrain,     \* the event in flight
  emSeq,       \* the last sequence number of an issue
  emEpoch,     \* how often the numbers were started again
  emIntents,   \* what the outbox was handed
  emRun

emVars == <<emTime, emEvents, emLanded, emQueue, emDropped, emEmitted, emDrain, emSeq, emEpoch, emIntents, emRun>>

EmNothing == [at |-> "idle", event |-> 0, hooks |-> {}, seq |-> 0, seen |-> {}, taken |-> 0]

EmInit ==
  /\ emTime = 0 /\ emEvents = <<>> /\ emLanded = {} /\ emQueue = <<>> /\ emDropped = 0 /\ emEmitted = 0
  /\ emDrain = EmNothing /\ emSeq = [i \in EmIssue |-> 0] /\ emEpoch = 0 /\ emIntents = {} /\ emRun = "running"

-----------------------------------------------------------------------------
\* Mutant: the queue waits for room, for which another event makes it.
EmAdmitsOldest(event) ==
  IF Len(emQueue) < EmQueueSize THEN emQueue' = Append(emQueue, event) /\ UNCHANGED emDropped
  ELSE emQueue' = Append(Tail(emQueue), event) /\ UNCHANGED emDropped

EmAdmits(event) ==
  IF Len(emQueue) < EmQueueSize THEN emQueue' = Append(emQueue, event) /\ UNCHANGED emDropped
  ELSE emDropped' = emDropped + 1 /\ UNCHANGED emQueue

EmNotify(issue) ==
  /\ Len(emEvents) < MaxEmEvents
  /\ emEvents' = Append(emEvents, [issue |-> issue, at |-> emTime])
  /\ EmAdmits(Len(emEvents) + 1)
  /\ UNCHANGED <<emTime, emLanded, emEmitted, emDrain, emSeq, emEpoch, emIntents, emRun>>

\* insertErrorEvent goes on and writes the row.
EmLand(event) ==
  /\ emLanded' = emLanded \cup {event}
  /\ UNCHANGED <<emTime, emEvents, emQueue, emDropped, emEmitted, emDrain, emSeq, emEpoch, emIntents, emRun>>

\* run takes an event, also one that is there when it is told to stop, and
\* deliver routes it; a failed listing routes it nowhere.
EmTake ==
  /\ emDrain.at = "idle" /\ emQueue # <<>> /\ emRun # "stopped"
  /\ emQueue' = Tail(emQueue) /\ emEmitted' = emEmitted + 1
  /\ \E hooks \in (IF emRun = "running" THEN SUBSET EmHook ELSE {{}}) :
       emDrain' = IF hooks = {} THEN EmNothing
                  ELSE [EmNothing EXCEPT !.at = "routed", !.event = Head(emQueue), !.hooks = hooks, !.taken = emTime]
  /\ UNCHANGED <<emTime, emEvents, emLanded, emDropped, emSeq, emEpoch, emIntents, emRun>>

\* Mutants: a sleep of its own for every event; no wait.
EmDeadlineOfTake(drain) == drain.taken + EmSettle
EmDeadlineNow(drain) == emEvents[drain.event].at

EmDeadline(drain) == emEvents[drain.event].at + EmSettle

EmSettled == emTime >= EmDeadline(emDrain)

\* The map of the numbers is full, and started again.
EmFull(issue) == Cardinality({i \in EmIssue : emSeq[i] > 0} \cup {issue}) > EmSeqLimit

\* Mutant: a number of its own for every time the issue was found in the map.
EmNumberedByFound(issue) ==
  IF EmFull(issue) THEN [i \in EmIssue |-> IF i = issue THEN 1 ELSE 0]
  ELSE [emSeq EXCEPT ![issue] = IF @ = 0 THEN 1 ELSE @]

EmNumbered(issue) ==
  IF EmFull(issue) THEN [i \in EmIssue |-> IF i = issue THEN 1 ELSE 0] ELSE [emSeq EXCEPT ![issue] = @ + 1]

\* snapshot and buildPayload; a read that fails leaves the event's numbers.
EmRead ==
  LET issue == emEvents[emDrain.event].issue
  IN /\ emDrain.at = "routed" /\ (EmSettled \/ emRun # "running")
     /\ emSeq' = EmNumbered(issue)
     /\ emEpoch' = IF EmFull(issue) THEN emEpoch + 1 ELSE emEpoch
     /\ \E read \in (IF emRun = "running" THEN BOOLEAN ELSE {FALSE}) :
          emDrain' = [emDrain EXCEPT !.at = "built", !.seq = emSeq'[issue],
                                     !.seen = IF read THEN {n \in emLanded : emEvents[n].issue = issue}
                                              ELSE {emDrain.event}]
     /\ UNCHANGED <<emTime, emEvents, emLanded, emQueue, emDropped, emEmitted, emIntents, emRun>>

\* One hook's intent; a failure is logged and the next hook's turn comes.
EmEnqueue(hook) ==
  /\ emDrain.at = "built" /\ hook \in emDrain.hooks /\ \A h \in emDrain.hooks : hook =< h
  /\ \/ /\ emRun = "running"
        /\ emIntents' = emIntents \cup {[hook |-> hook, event |-> emDrain.event, seq |-> emDrain.seq,
                                         epoch |-> emEpoch, seen |-> emDrain.seen]}
     \/ UNCHANGED emIntents
  /\ emDrain' = IF emDrain.hooks = {hook} THEN EmNothing ELSE [emDrain EXCEPT !.hooks = @ \ {hook}]
  /\ UNCHANGED <<emTime, emEvents, emLanded, emQueue, emDropped, emEmitted, emSeq, emEpoch, emRun>>

EmStop ==
  /\ emRun = "running" /\ emRun' = "stopping"
  /\ UNCHANGED <<emTime, emEvents, emLanded, emQueue, emDropped, emEmitted, emDrain, emSeq, emEpoch, emIntents>>

EmExit ==
  /\ emRun = "stopping" /\ emDrain.at = "idle" /\ emRun' = "stopped"
  /\ UNCHANGED <<emTime, emEvents, emLanded, emQueue, emDropped, emEmitted, emDrain, emSeq, emEpoch, emIntents>>

EmTick ==
  /\ emTime < MaxEmTime
  /\ \/ emDrain.at = "idle" /\ (emQueue = <<>> \/ emRun = "stopped")
     \/ emDrain.at = "routed" /\ ~EmSettled
  /\ \A n \in DOMAIN emEvents \ emLanded : emTime + 1 < emEvents[n].at + EmSettle
  /\ emTime' = emTime + 1
  /\ UNCHANGED <<emEvents, emLanded, emQueue, emDropped, emEmitted, emDrain, emSeq, emEpoch, emIntents, emRun>>

EmNext ==
  \/ EmTake \/ EmRead \/ EmStop \/ EmExit \/ EmTick
  \/ \E issue \in EmIssue : EmNotify(issue)
  \/ \E event \in DOMAIN emEvents \ emLanded : EmLand(event)
  \/ \E hook \in EmHook : EmEnqueue(hook)

EmSpec == EmInit /\ [][EmNext]_emVars

-----------------------------------------------------------------------------
EmTypeOK ==
  LET Event == 1..MaxEmEvents
  IN /\ emTime \in 0..MaxEmTime /\ emEvents \in Seq([issue : EmIssue, at : 0..MaxEmTime]) /\ emLanded \subseteq Event
     /\ emQueue \in Seq(Event) /\ Len(emQueue) =< EmQueueSize /\ {emDropped, emEmitted, emEpoch} \subseteq 0..MaxEmEvents
     /\ emDrain \in [at : {"idle", "routed", "built"}, event : 0..MaxEmEvents, hooks : SUBSET EmHook,
                     seq : 0..MaxEmEvents, seen : SUBSET Event, taken : 0..MaxEmTime]
     /\ emSeq \in [EmIssue -> 0..MaxEmEvents] /\ emRun \in {"running", "stopping", "stopped"}

(* Every event that was notified is dropped with a count, still queued or  *)
(* has reached the drain.                                                  *)
EmAccounted == Len(emEvents) = emDropped + Len(emQueue) + emEmitted

(* "One site's burst delays every other site by at most one settle         *)
(* window": while the drain runs no event is older than its own deadline.  *)
EmOnTime ==
  LET waiting == ToSet(emQueue) \cup (IF emDrain.at = "idle" THEN {} ELSE {emDrain.event})
  IN emRun = "running" => \A n \in waiting : emTime =< emEvents[n].at + EmSettle

(* A payload that was read counts its own event and every earlier one of   *)
(* the issue.                                                              *)
EmCountsItself ==
  \A p \in emIntents :
    p.seen = {p.event} \/ \A n \in 1..p.event : emEvents[n].issue = emEvents[p.event].issue => n \in p.seen

(* The targets of an event get one payload, and a receiver sees the        *)
(* numbers of an issue rise, until they are started again.                 *)
EmOrdered ==
  \A p, q \in emIntents :
    emEvents[p.event].issue = emEvents[q.event].issue /\ p.epoch = q.epoch =>
      /\ p.event = q.event => p.seq = q.seq /\ p.seen = q.seen
      /\ p.event < q.event => p.seq < q.seq

EmitterSound == EmAccounted /\ EmOnTime /\ EmCountsItself /\ EmOrdered
=============================================================================
