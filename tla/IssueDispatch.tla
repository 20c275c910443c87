--------------------------- MODULE IssueDispatch ----------------------------
(***************************************************************************)
(* Telling integrations of issue events,                                   *)
(* internal/integrations/issue_dispatch.go: a bounded queue that drops its *)
(* oldest event, workers that come and go with a slot each, a cooldown per *)
(* integration and issue, token buckets per site and per integration, and  *)
(* a shutdown that waits for the workers.                                  *)
(*                                                                         *)
(* One site.  An event is its issue.  A bucket holds whole tokens and has  *)
(* its hourly summary unless it has sent it.  The contents of a message    *)
(* and the caps of the cooldown and bucket tables are left out.            *)
(***************************************************************************)
EXTENDS Integers, Sequences, FiniteSets

CONSTANTS
  Topic,         \* issues events are about
  Integration,   \* the integrations of the site
  Worker,        \* worker goroutines
  DispatchSlots, DispatchQueue, PerHour,
  MaxNotices     \* bound on the events

ASSUME DispatchAssumption ==
  /\ DispatchSlots \in Nat \ {0} /\ DispatchQueue \in Nat \ {0}
  /\ PerHour \in Nat \ {0} /\ MaxNotices \in Nat
  /\ IsFiniteSet(Worker)

VARIABLES
  notices,    \* d.q
  workers,    \* the goroutines
  cool,       \* pairs of integration and issue in their cooldown
  buckets,    \* of the integrations and of the site
  dispatch,   \* "open" | "stopping" | "stopped"
  noticed     \* events so far

dispatchVars == <<notices, workers, cool, buckets, dispatch, noticed>>

Site == "site"    \* the key of the site's bucket
Full == [tokens |-> PerHour, suppressing |-> FALSE, summary |-> TRUE]
NoWork == [at |-> "off", of |-> {}, todo |-> {}, now |-> Site, site |-> "undecided"]

DispatchInit ==
  /\ notices = <<>> /\ workers = [w \in Worker |-> NoWork]
  /\ cool = {} /\ buckets = [b \in Integration \cup {Site} |-> Full]
  /\ dispatch = "open" /\ noticed = 0

-----------------------------------------------------------------------------
\* Mutant: the slot goes back when the goroutine returns, after the unlock.
HoldsSlotToTheEnd(w) == workers[w].at # "off"

\* A worker that found the queue empty has given its slot back; its wg.Done is
\* still to come.
HoldsSlot(w) == workers[w].at \notin {"off", "returning"}

\* One critical section: drop the oldest, append, and start a worker if a
\* slot is free.
NotifyIssue(i) ==
  /\ dispatch = "open" /\ noticed < MaxNotices
  /\ notices' = Append(IF Len(notices) >= DispatchQueue THEN Tail(notices) ELSE notices, i)
  /\ IF Cardinality({w \in Worker : HoldsSlot(w)}) < DispatchSlots
     THEN \E w \in Worker : /\ workers[w].at = "off"
                            /\ workers' = [workers EXCEPT ![w].at = "draining"]
     ELSE UNCHANGED workers
  /\ noticed' = noticed + 1
  /\ UNCHANGED <<cool, buckets, dispatch>>

\* The worker takes the first event and lists the integrations, or fails to.
TakeNotice(w) ==
  /\ workers[w].at = "draining" /\ notices # <<>>
  /\ notices' = Tail(notices)
  /\ \/ workers' = [workers EXCEPT ![w] = [NoWork EXCEPT !.at = "routing",
                                 !.of = {Head(notices)}, !.todo = Integration]]
     \/ UNCHANGED workers
  /\ UNCHANGED <<cool, buckets, dispatch, noticed>>

NoticesDone(w) ==
  /\ workers[w].at = "draining" /\ notices = <<>>
  /\ workers' = [workers EXCEPT ![w].at = "returning"]
  /\ UNCHANGED <<notices, cool, buckets, dispatch, noticed>>

WorkerReturns(w) ==
  /\ workers[w].at = "returning"
  /\ workers' = [workers EXCEPT ![w] = NoWork]
  /\ UNCHANGED <<notices, cool, buckets, dispatch, noticed>>

\* Mutant: an empty bucket gives one token more.
TakesOneMore(b) == buckets[b].tokens >= 0

\* The token bucket's answer, and the bucket after it.
Takes(b) == buckets[b].tokens >= 1
Summarises(b) == ~Takes(b) /\ ~buckets[b].suppressing /\ buckets[b].summary
After(b) ==
  IF Takes(b) THEN [buckets[b] EXCEPT !.tokens = @ - 1, !.suppressing = FALSE]
              ELSE [buckets[b] EXCEPT !.suppressing = TRUE,
                                      !.summary = @ /\ ~Summarises(b)]

\* Mutant: the cooldown starts when the delivery has ended.
ClaimedLate(x, i) == cool

Claimed(x, i) == cool \cup {<<x, i>>}

Becomes(w, where, todo) == workers' = [workers EXCEPT ![w].at = where, ![w].todo = todo]

\* claim, under the mutex, for an integration of the list.
Claim(w, x) ==
  /\ workers[w].at = "routing" /\ x \in workers[w].todo
  /\ \A i \in workers[w].of :
       IF <<x, i>> \in cool
       THEN Becomes(w, "routing", workers[w].todo \ {x}) /\ UNCHANGED cool
       ELSE /\ workers' = [workers EXCEPT ![w].at = "claimed", ![w].now = x]
            /\ cool' = Claimed(x, i)
  /\ UNCHANGED <<notices, buckets, dispatch, noticed>>

\* The site's bucket is asked once per event, the integration's each time: two
\* critical sections, and the summaries they may send, in one step.
Spend(w) ==
  LET x == workers[w].now
      site == IF workers[w].site # "undecided" THEN workers[w].site
              ELSE IF Takes(Site) THEN "allowed" ELSE "denied"
  IN /\ workers[w].at = "claimed"
     /\ buckets' = [b \in Integration \cup {Site} |->
                      CASE b = Site /\ workers[w].site = "undecided" -> After(b)
                        [] b = x /\ site = "allowed" -> After(b)
                        [] OTHER -> buckets[b]]
     /\ workers' = [workers EXCEPT
          ![w].site = site,
          ![w].at = IF site = "allowed" /\ Takes(x) THEN "delivering" ELSE "routing",
          ![w].todo = @ \ {x}]
     /\ UNCHANGED <<notices, cool, dispatch, noticed>>

\* Delivered, failed, panicked or given up by the deadline of deliverOne.
DeliveryEnds(w) ==
  /\ workers[w].at = "delivering"
  /\ Becomes(w, "routing", workers[w].todo)
  /\ UNCHANGED <<notices, cool, buckets, dispatch, noticed>>

NoticeHandled(w) ==
  /\ workers[w].at = "routing" /\ workers[w].todo = {}
  /\ workers' = [workers EXCEPT ![w] = [NoWork EXCEPT !.at = "draining"]]
  /\ UNCHANGED <<notices, cool, buckets, dispatch, noticed>>

-----------------------------------------------------------------------------
TellsOf(w, x, i) ==
  workers[w].at = "delivering" /\ workers[w].now = x /\ workers[w].of = {i}

Telling(w, x, i) ==
  workers[w].at \in {"claimed", "delivering"} /\ workers[w].now = x /\ workers[w].of = {i}

\* The cooldown, 15 minutes, outlasts a delivery, 30 seconds, and the summary
\* that may go before it.
CoolsDown(x, i) ==
  /\ <<x, i>> \in cool /\ \A w \in Worker : ~Telling(w, x, i)
  /\ cool' = cool \ {<<x, i>>}
  /\ UNCHANGED <<notices, workers, buckets, dispatch, noticed>>

Refills(b) ==
  /\ \/ buckets[b].tokens < PerHour
        /\ buckets' = [buckets EXCEPT ![b].tokens = @ + 1]
     \/ ~buckets[b].summary
        /\ buckets' = [buckets EXCEPT ![b].summary = TRUE]
  /\ UNCHANGED <<notices, workers, cool, dispatch, noticed>>

DispatchShutdown ==
  /\ dispatch = "open" /\ dispatch' = "stopping"
  /\ UNCHANGED <<notices, workers, cool, buckets, noticed>>

ShutdownReturns ==
  /\ dispatch = "stopping" /\ \A w \in Worker : workers[w].at = "off"
  /\ dispatch' = "stopped"
  /\ UNCHANGED <<notices, workers, cool, buckets, noticed>>

\* The caller's context ends first, and the process with it.
ShutdownCut ==
  /\ dispatch = "stopping" /\ dispatch' = "cut"
  /\ notices' = <<>> /\ workers' = [w \in Worker |-> NoWork]
  /\ UNCHANGED <<cool, buckets, noticed>>

WorkerSteps(w) ==
  \/ TakeNotice(w) \/ NoticesDone(w) \/ WorkerReturns(w)
  \/ (\E x \in Integration : Claim(w, x)) \/ Spend(w) \/ DeliveryEnds(w) \/ NoticeHandled(w)

DispatchNext ==
  \/ \E i \in Topic : NotifyIssue(i)
  \/ \E w \in Worker : WorkerSteps(w)
  \/ \E x \in Integration, i \in Topic : CoolsDown(x, i)
  \/ \E b \in Integration \cup {Site} : Refills(b)
  \/ DispatchShutdown \/ ShutdownReturns \/ ShutdownCut

(* Some goroutine that can goes on, and every delivery ends by its         *)
(* deadline: no more is needed, for what is left to do at a shutdown only  *)
(* becomes less.                                                           *)
DispatchFairness ==
  WF_dispatchVars(\E w \in Worker : WorkerSteps(w)) /\ WF_dispatchVars(ShutdownReturns)

DispatchSpec == DispatchInit /\ [][DispatchNext]_dispatchVars

-----------------------------------------------------------------------------
DispatchTypeOK ==
  /\ notices \in Seq(Topic) /\ Len(notices) =< DispatchQueue
  /\ \A w \in Worker :
       /\ workers[w].at \in {"off", "draining", "routing", "claimed", "delivering", "returning"}
       /\ workers[w].at \in {"routing", "claimed", "delivering"} <=> workers[w].of # {}
       /\ workers[w].of \subseteq Topic /\ workers[w].todo \subseteq Integration
  /\ Cardinality({w \in Worker : HoldsSlot(w)}) =< DispatchSlots
  /\ cool \subseteq Integration \X Topic
  /\ \A b \in Integration \cup {Site} : buckets[b].tokens \in 0..PerHour
  /\ dispatch \in {"open", "stopping", "stopped", "cut"} /\ noticed \in 0..MaxNotices

(* "An event is never stranded between queue empty and slot released": an  *)
(* event in the queue has a worker that will come for it, so a shutdown    *)
(* that has returned has left nothing in the queue.                        *)
NeverStranded == notices # <<>> => \E w \in Worker : HoldsSlot(w)

(* The cooldown keeps two workers from telling one integration of the same *)
(* issue at the same time.                                                 *)
ToldOnce ==
  \A w, v \in Worker, x \in Integration, i \in Topic :
    TellsOf(w, x, i) /\ TellsOf(v, x, i) => w = v

DispatchSound == NeverStranded /\ ToldOnce
=============================================================================
