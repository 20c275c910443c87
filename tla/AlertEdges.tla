----------------------------- MODULE AlertEdges -----------------------------
(***************************************************************************)
(* Rule evaluation, cron heartbeats and incidents on top of the            *)
(* notification outbox: platform/alerts_engine.go,                         *)
(* platform/cron_transitions.go, incidents/incidents.go, the check-ins of  *)
(* monitoring/monitoring.go and the handlers and jobs of                   *)
(* cmd/observe/main.go.                                                    *)
(*                                                                         *)
(* An evaluation holds evalMu from its reads to its commit; the commit is  *)
(* a transaction under the mutex of the incident service, which the        *)
(* operator's own closing and creating take too.  An opening, a repeat and *)
(* a recovery are the kinds of intent, of rules and crons alike.  The      *)
(* evaluation ledger, severities, silences and acknowledgements are left   *)
(* out: no transition is decided by them.                                  *)
(***************************************************************************)
EXTENDS NotifyOutbox, Sequences

CONSTANTS
  Rule, Cron,    \* the monitors an incident may be of
  Hook,          \* webhooks, one per delivery target
  MaxIncidents,  \* bound
  AlertFault     \* a failing transition transaction: "tx"

Monitor == Rule \cup Cron
Incident == 1..MaxIncidents
NoteKind == {"opened", "repeat", "recovered"}

\* The intents of an incident.  A rule's repeats share one delivery id here,
\* so at most one of them is modelled (a bound).
AllDeliveries == Incident \X NoteKind \X Hook

ASSUME AlertAssumption ==
  /\ AllDeliveries \subseteq Delivery
  /\ Rule \cap Cron = {} /\ MaxIncidents \in Nat /\ AlertFault \subseteq {"tx"}

VARIABLES
  incidents,  \* the incidents so far, a sequence of rows by their number
  eval,       \* the evaluation that holds evalMu
  overdue,    \* crons past their deadline
  scanned,    \* what CheckMissed returned to the job and is not yet ensured
  checkins    \* check-ins whose OnCheckin has not run

alertVars == <<incidents, eval, overdue, scanned, checkins>>

NoEval == [does |-> "nothing", of |-> {}, todo |-> {}]

AlertInit ==
  /\ NotifyInit
  /\ incidents = <<>> /\ eval = NoEval
  /\ overdue = {} /\ scanned = {} /\ checkins = {}

-----------------------------------------------------------------------------
(* Incidents.                                                              *)

ActiveByRule(m) == {i \in DOMAIN incidents : incidents[i].of = m /\ incidents[i].open}

CreateTx(m, by) ==
  /\ Len(incidents) < MaxIncidents
  /\ incidents' = Append(incidents, [of |-> m, by |-> by, open |-> TRUE])
NewIncident == Len(incidents) + 1

CloseTx(S) == incidents' = [i \in DOMAIN incidents |->
                              IF i \in S THEN [incidents[i] EXCEPT !.open = FALSE] ELSE incidents[i]]

\* One intent per hook for each incident, those skipped that are there already
\* (a rule's are never there: each has a fresh id).
IntentsOf(S, kind) == S \X {kind} \X Hook
Unsent(S, kind) == {d \in IntentsOf(S, kind) : note[d].state = "none"}
Notify(S, kind) == Enqueue(Unsent(S, kind))

Unnotified == UNCHANGED noteTable
ElsewhereSame == UNCHANGED <<answered, notifier, drain, noteCounters>>

-----------------------------------------------------------------------------
(* Rules: CheckRules for one rule, then commitEdge.                        *)

\* The decision of a tick, taken from a reading of the active incidents.  Ticks
\* that only record an evaluation change nothing here.
CheckRule(r) ==
  /\ notifier # "down" /\ eval = NoEval
  /\ \/ ActiveByRule(r) = {} /\ eval' = [does |-> "open", of |-> {r}, todo |-> {}]
     \/ \E i \in ActiveByRule(r) :
          /\ \A j \in ActiveByRule(r) : j =< i
          /\ eval' = [does |-> "repeat", of |-> {r}, todo |-> {i}]
     \/ ActiveByRule(r) # {} /\ eval' = [does |-> "close", of |-> {r}, todo |-> ActiveByRule(r)]
  /\ UNCHANGED <<incidents, overdue, scanned, checkins>>
  /\ UNCHANGED noteTable /\ ElsewhereSame

\* Mutant: the reading made before the transaction decides.
StillNoneActiveUnread(m) == TRUE

StillNoneActive(m) == ActiveByRule(m) = {}

CommitOpen(r) ==
  /\ eval.does = "open" /\ eval.of = {r}
  /\ IF StillNoneActive(r)
     THEN CreateTx(r, "alert") /\ Notify({NewIncident}, "opened")
     ELSE UNCHANGED incidents /\ Unnotified
  /\ eval' = NoEval
  /\ UNCHANGED <<overdue, scanned, checkins>> /\ ElsewhereSame

CommitRepeat(i) ==
  /\ eval.does = "repeat" /\ i \in eval.todo
  /\ Notify({i}, "repeat")
  /\ eval' = NoEval
  /\ UNCHANGED <<incidents, overdue, scanned, checkins>> /\ ElsewhereSame

EvalGoesOn(i) == eval' = IF eval.todo = {i} THEN NoEval ELSE [eval EXCEPT !.todo = @ \ {i}]

\* Mutant: EndedAt is not looked at again.
StillOpenUnread(i) == TRUE

StillOpen(i) == incidents[i].open

CommitClose(i) ==
  /\ eval.does = "close" /\ i \in eval.todo
  /\ IF StillOpen(i) THEN CloseTx({i}) /\ Notify({i}, "recovered")
                     ELSE UNCHANGED incidents /\ Unnotified
  /\ EvalGoesOn(i)
  /\ UNCHANGED <<overdue, scanned, checkins>> /\ ElsewhereSame

\* A failing read, listing of the hooks or transaction: the tick is over.
CommitFails ==
  /\ "tx" \in AlertFault /\ eval # NoEval
  /\ eval' = NoEval
  /\ UNCHANGED <<incidents, overdue, scanned, checkins>>
  /\ UNCHANGED noteTable /\ ElsewhereSame

-----------------------------------------------------------------------------
(* Crons: the job reads which are overdue and then ensures one incident    *)
(* for each; a check-in is inserted and then recovers.                     *)

Overdue(c) ==
  /\ c \notin overdue /\ overdue' = overdue \cup {c}
  /\ UNCHANGED <<incidents, eval, scanned, checkins>>
  /\ UNCHANGED noteTable /\ ElsewhereSame

CheckMissed ==
  /\ notifier # "down" /\ scanned = {} /\ overdue # {}
  /\ scanned' = overdue
  /\ UNCHANGED <<incidents, eval, overdue, checkins>>
  /\ UNCHANGED noteTable /\ ElsewhereSame

EnsureCronMissed(c) ==
  /\ c \in scanned /\ eval = NoEval
  /\ IF ActiveByRule(c) = {}
     THEN CreateTx(c, "cron") /\ Notify({NewIncident}, "opened")
     ELSE /\ \E i \in ActiveByRule(c) :
               (\A j \in ActiveByRule(c) : j =< i) /\ Notify({i}, "opened")
          /\ UNCHANGED incidents
  /\ scanned' = scanned \ {c}
  /\ UNCHANGED <<eval, overdue, checkins>> /\ ElsewhereSame

\* The first error ends the job.
EnsureFails ==
  /\ "tx" \in AlertFault /\ scanned # {} /\ eval = NoEval
  /\ scanned' = {}
  /\ UNCHANGED <<incidents, eval, overdue, checkins>>
  /\ UNCHANGED noteTable /\ ElsewhereSame

CheckIn(c) ==
  /\ notifier # "down"
  /\ overdue' = overdue \ {c} /\ checkins' = checkins \cup {c}
  /\ UNCHANGED <<incidents, eval, scanned>>
  /\ UNCHANGED noteTable /\ ElsewhereSame

RecoverCron(c) ==
  /\ c \in checkins /\ eval = NoEval
  /\ CloseTx(ActiveByRule(c)) /\ Notify(ActiveByRule(c), "recovered")
  /\ checkins' = checkins \ {c}
  /\ UNCHANGED <<eval, overdue, scanned>> /\ ElsewhereSame

\* The hook's error is logged; the check-in stands.
RecoverFails(c) ==
  /\ "tx" \in AlertFault /\ c \in checkins /\ eval = NoEval
  /\ checkins' = checkins \ {c}
  /\ UNCHANGED <<incidents, eval, overdue, scanned>>
  /\ UNCHANGED noteTable /\ ElsewhereSame

-----------------------------------------------------------------------------
(* The operator closes an incident, or creates one, whose rule_id may name *)
(* a monitor.                                                              *)

Close(i) ==
  /\ notifier # "down" /\ i \in DOMAIN incidents /\ incidents[i].open
  /\ CloseTx({i})
  /\ UNCHANGED <<eval, overdue, scanned, checkins>>
  /\ UNCHANGED noteTable /\ ElsewhereSame

Create(m) ==
  /\ notifier # "down" /\ CreateTx(m, "user")
  /\ UNCHANGED <<eval, overdue, scanned, checkins>>
  /\ UNCHANGED noteTable /\ ElsewhereSame

\* What the process held in memory goes with it.
AlertsGone ==
  IF notifier' = "down" THEN eval' = NoEval /\ scanned' = {} /\ checkins' = {}
                        ELSE UNCHANGED <<eval, scanned, checkins>>

Delivering == NotifyNext /\ AlertsGone /\ UNCHANGED <<incidents, overdue>>

AlertNext ==
  \/ Delivering
  \/ \E r \in Rule : CheckRule(r) \/ CommitOpen(r)
  \/ \E i \in DOMAIN incidents : CommitRepeat(i) \/ CommitClose(i) \/ Close(i)
  \/ CommitFails \/ CheckMissed \/ EnsureFails
  \/ \E c \in Cron : Overdue(c) \/ EnsureCronMissed(c) \/ CheckIn(c) \/ RecoverCron(c)
                     \/ RecoverFails(c)
  \/ \E m \in Monitor : Create(m)

AlertSpec == AlertInit /\ [][AlertNext]_<<notifyVars, alertVars>>

AlertFairSpec == AlertSpec /\ NotifyFairness

-----------------------------------------------------------------------------
(* Properties.                                                             *)

AlertTypeOK ==
  /\ NotifyTypeOK
  /\ incidents \in Seq([of : Monitor, by : {"alert", "cron", "user"}, open : BOOLEAN])
  /\ eval.does \in {"nothing", "open", "repeat", "close"}
  /\ eval.of \subseteq Rule /\ eval.todo \subseteq DOMAIN incidents
  /\ overdue \subseteq Cron /\ scanned \subseteq Cron /\ checkins \subseteq Cron

(* A fault opens one incident: neither the rule evaluator nor the cron job *)
(* opens one for a monitor that has one open, also when the operator       *)
(* creates or closes incidents between its reading and its transaction.    *)
NoSecondIncident ==
  \A i \in DOMAIN incidents' \ DOMAIN incidents :
    incidents'[i].by # "user" => ActiveByRule(incidents'[i].of) = {}

(* An incident is announced as recovered by the transaction that closes    *)
(* it: an open one has no recovery in the table, and one the operator has  *)
(* closed between the tick's reading and its commit gets none.             *)
RecoveryIsAnEdge ==
  \A d \in Delivery :
    d[2] = "recovered" /\ note[d].state = "none" /\ note'[d].state # "none"
      => incidents[d[1]].open /\ ~incidents'[d[1]].open

(* No step opens a second incident for a fault or announces a recovery     *)
(* that is not its own: alerts_engine.go, cron_transitions.go.             *)
EdgesOnce == [][NoSecondIncident /\ RecoveryIsAnEdge]_<<notifyVars, alertVars>>

(* A target hears of a recovery after the opening, unless it has failed to *)
(* take the opening.                                                       *)
OpeningFirst ==
  drain.phase = "posting" /\ drain.row[2] = "recovered" =>
    LET opening == note[<<drain.row[1], "opened", drain.row[3]>>]
    IN opening.state \in {"due", "later"} => opening.attempts > 0
=============================================================================
