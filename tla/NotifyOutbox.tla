---------------------------- MODULE NotifyOutbox ----------------------------
(***************************************************************************)
(* The notification outbox, internal/platform/notify_outbox.go: intents    *)
(* written by the transactions of AlertEdges, a drain that POSTs each to   *)
(* its webhook and then records what became of it, and the retention of    *)
(* the table, internal/jobs/retention_bounded.go.                          *)
(*                                                                         *)
(* An intent is a key of the replacing table notification_outbox; its      *)
(* record holds the row of the highest version, the one that readers       *)
(* collapse to.  The columns delivered_at, suppressed_at and               *)
(* next_attempt_at are one state.  The site of an intent (one site here),  *)
(* the payload, the signature and the page limit of the due scan are left  *)
(* out; no two transactions share a created_at, and which of the intents   *)
(* of one transaction has the lesser id is left open.                      *)
(***************************************************************************)
EXTENDS Integers

CONSTANTS
  Delivery,      \* delivery ids, the keys of the table
  NotifyBudget,  \* n.maxAttempts
  NotifyNow,     \* readings of the clock, in milliseconds
  NotifyFault,   \* the failures the environment may produce
  MaxMarkFaults, MaxNotifyCrashes, MaxNotifyStops, MaxNotifyPrunes   \* bounds

\* A target that answers with an error or not at all, and a disposition that
\* is not written, or written without an answer.
NotifyFaults == {"post", "mark"}

NoRow == <<>>

ASSUME NotifyAssumption ==
  /\ NoRow \notin Delivery
  /\ NotifyBudget \in Nat \ {0}
  /\ NotifyNow \subseteq Nat
  /\ NotifyFault \subseteq NotifyFaults
  /\ MaxMarkFaults \in Nat /\ MaxNotifyCrashes \in Nat
  /\ MaxNotifyStops \in Nat /\ MaxNotifyPrunes \in Nat

VARIABLES
  note,        \* the intents of the table
  before,      \* the pairs of them of which the first has the lesser created_at
  answered,    \* requests for an intent that its target has answered since it was enqueued
  notifier,    \* the process: "up" | "stopping" (the drain's context is cancelled) | "down"
  drain,       \* the pass that holds processMu
  markFaults, notifyCrashes, notifyStops, notifyPrunes,
  notifyCuts   \* requests of which a stop took the outcome

noteTable == <<note, before>>
noteCounters == <<markFaults, notifyCrashes, notifyStops, notifyPrunes, notifyCuts>>
notifyVars == <<noteTable, answered, notifier, drain, noteCounters>>

NoNote == [state |-> "none", attempts |-> 0, version |-> 0]
NoPass == [phase |-> "idle", batch |-> {}, row |-> NoRow, windows |-> FALSE]

NotifyInit ==
  /\ note = [d \in Delivery |-> NoNote]
  /\ before = {}
  /\ answered = [d \in Delivery |-> 0]
  /\ notifier = "up" /\ drain = NoPass
  /\ markFaults = 0 /\ notifyCrashes = 0 /\ notifyStops = 0 /\ notifyPrunes = 0
  /\ notifyCuts = 0

-----------------------------------------------------------------------------
(* The table.                                                              *)

Noted == {d \in Delivery : note[d].state # "none"}
NotePending(d) == note[d].state \in {"due", "later"}
NoteSettled(d) == note[d].state \in {"delivered", "suppressed", "dead"}

\* Mutant: the attempts are not compared with the budget.
NoteDueDead(d) == note[d].state \in {"due", "dead"}

\* Mutant: the scan stops one attempt short of the mark.
NoteDueShort(d) == note[d].state = "due" /\ note[d].attempts + 1 < NotifyBudget

NoteDue(d) == note[d].state = "due" /\ note[d].attempts < NotifyBudget

\* enqueueTx, for the new intents of one transaction.
Enqueue(new) ==
  /\ \E now \in NotifyNow :
       note' = [d \in Delivery |-> IF d \in new
                                   THEN [state |-> "due", attempts |-> 0, version |-> now]
                                   ELSE note[d]]
  /\ before' = before \cup (Noted \X new)

\* Mutant: the clock alone; two writes within a millisecond tie.
NotifyNextVersionClock(prior, now) == now

NotifyNextVersion(prior, now) == IF now > prior + 1 THEN now ELSE prior + 1

\* A row of another version is inserted: readers see the row of the highest
\* version, and of two rows that tie either one.
Collapsed(old, new) ==
  {row \in {old, new} : row.version >= old.version /\ row.version >= new.version}

PutNote(d, state, attempts) ==
  /\ \E now \in NotifyNow :
       \E row \in Collapsed(note[d], [state |-> state, attempts |-> attempts,
                                      version |-> NotifyNextVersion(note[d].version, now)]) :
         note' = [note EXCEPT ![d] = row]
  /\ UNCHANGED before

-----------------------------------------------------------------------------
(* A pass.                                                                 *)

NotifyCancelled == notifier = "stopping"
AtRow == drain.phase = "draining" /\ drain.batch # {} /\ ~NotifyCancelled

\* Mutant: the scan follows the index, not created_at.
UpNextUnordered(d) == d \in drain.batch

UpNext(d) == d \in drain.batch /\ \A e \in drain.batch : <<e, d>> \notin before

NextRow == drain' = [drain EXCEPT !.phase = "draining", !.row = NoRow]
PassOver == drain' = NoPass

DueRows == {d \in Delivery : NoteDue(d)}

\* Whether a maintenance window is active is the operator's choice and is
\* resolved once per pass; if that fails there is no pass.
DrainDue ==
  /\ notifier = "up" /\ drain.phase = "idle" /\ DueRows # {}
  /\ \E windows \in BOOLEAN :
       drain' = [phase |-> "draining", batch |-> DueRows, row |-> NoRow, windows |-> windows]
  /\ UNCHANGED <<noteTable, answered, notifier, noteCounters>>

DrainEnds ==
  /\ drain.phase = "draining" /\ (drain.batch = {} \/ NotifyCancelled)
  /\ PassOver
  /\ UNCHANGED <<noteTable, answered, notifier, noteCounters>>

MarkSuppressed ==
  /\ AtRow /\ drain.windows
  /\ \E d \in drain.batch :
       /\ UpNext(d) /\ PutNote(d, "suppressed", note[d].attempts)
       /\ drain' = [drain EXCEPT !.batch = @ \ {d}]
  /\ UNCHANGED <<answered, notifier, noteCounters>>

Post ==
  /\ AtRow /\ ~drain.windows
  /\ \E d \in drain.batch :
       UpNext(d) /\ drain' = [drain EXCEPT !.phase = "posting", !.batch = @ \ {d}, !.row = d]
  /\ UNCHANGED <<noteTable, answered, notifier, noteCounters>>

PostAnswered ==
  /\ drain.phase = "posting"
  /\ answered' = [answered EXCEPT ![drain.row] = @ + 1]
  /\ drain' = [drain EXCEPT !.phase = "answered"]
  /\ UNCHANGED <<noteTable, notifier, noteCounters>>

\* The request fails: refused, given up after ten seconds or cancelled by a
\* stop.  The target may have answered all the same.  A cancelled request is
\* not counted as an attempt.
PostFails ==
  /\ drain.phase = "posting" /\ (NotifyCancelled \/ "post" \in NotifyFault)
  /\ answered' \in {answered, [answered EXCEPT ![drain.row] = @ + 1]}
  /\ IF NotifyCancelled THEN PassOver /\ notifyCuts' = notifyCuts + 1
     ELSE drain' = [drain EXCEPT !.phase = "refused"] /\ UNCHANGED notifyCuts
  /\ UNCHANGED <<noteTable, notifier, markFaults, notifyCrashes, notifyStops, notifyPrunes>>

\* Mutant: the mark is written under the drain's own context, which a stop has
\* cancelled by the time the answer arrives.
MarkContextCancelled == NotifyCancelled

MarkContext == FALSE

MarkDelivered ==
  /\ drain.phase = "answered" /\ ~MarkContext
  /\ PutNote(drain.row, "delivered", note[drain.row].attempts)
  /\ NextRow
  /\ UNCHANGED <<answered, notifier, noteCounters>>

PutAttempt ==
  LET n == note[drain.row].attempts + 1
  IN PutNote(drain.row, IF n >= NotifyBudget THEN "dead" ELSE "later", n)

MarkAttempt ==
  /\ drain.phase = "refused" /\ ~NotifyCancelled
  /\ PutAttempt
  /\ NextRow
  /\ UNCHANGED <<answered, notifier, noteCounters>>

\* The disposition and its line in the incident's timeline are one
\* transaction; when it fails the pass ends.  A failed request is recorded in
\* the drain's own context, which a stop cancels.
MarkFails ==
  /\ \/ /\ "mark" \in NotifyFault /\ markFaults < MaxMarkFaults
        /\ markFaults' = markFaults + 1 /\ UNCHANGED notifyCuts
     \/ MarkContext /\ UNCHANGED <<markFaults, notifyCuts>>
     \/ /\ drain.phase = "refused" /\ NotifyCancelled
        /\ notifyCuts' = notifyCuts + 1 /\ UNCHANGED markFaults
  /\ \/ drain.phase \in {"answered", "refused"} /\ UNCHANGED noteTable
     \/ AtRow /\ drain.windows /\ UNCHANGED noteTable
     \/ /\ AtRow /\ drain.windows
        /\ \E d \in drain.batch : UpNext(d) /\ PutNote(d, "suppressed", note[d].attempts)
     \/ drain.phase = "answered" /\ PutNote(drain.row, "delivered", note[drain.row].attempts)
     \/ drain.phase = "refused" /\ PutAttempt
  /\ PassOver
  /\ UNCHANGED <<answered, notifier, notifyCrashes, notifyStops, notifyPrunes>>

\* The clock reaches next_attempt_at.
NoteBackoffEnds(d) ==
  /\ note[d].state = "later"
  /\ note' = [note EXCEPT ![d].state = "due"]
  /\ UNCHANGED <<before, answered, notifier, drain, noteCounters>>

-----------------------------------------------------------------------------
(* The process and the retention.                                          *)

NotifyStop ==
  /\ notifier = "up" /\ notifyStops < MaxNotifyStops
  /\ notifier' = "stopping" /\ notifyStops' = notifyStops + 1
  /\ UNCHANGED <<noteTable, answered, drain, markFaults, notifyCrashes, notifyPrunes, notifyCuts>>

\* The worker is joined, or the process dies before it is.
NotifyExit ==
  /\ \/ notifier = "stopping" /\ drain.phase = "idle" /\ UNCHANGED notifyCrashes
     \/ notifier # "down" /\ notifyCrashes < MaxNotifyCrashes
        /\ notifyCrashes' = notifyCrashes + 1
  /\ notifier' = "down" /\ PassOver
  /\ UNCHANGED <<noteTable, answered, markFaults, notifyStops, notifyPrunes, notifyCuts>>

NotifyStart ==
  /\ notifier = "down"
  /\ notifier' = "up"
  /\ UNCHANGED <<noteTable, answered, drain, noteCounters>>

\* Mutant: everything settled is old enough to go.
DisposedDead(d) == NoteSettled(d)

Disposed(d) == note[d].state \in {"delivered", "suppressed"}

\* Rows are deleted by tenant, id and created_at, which all versions of an
\* intent share: a chunk that would remove more rows than it has selected is
\* rolled back, so nothing goes before the engine has merged it, at any time
\* or never.
NotifyPrune ==
  /\ notifyPrunes < MaxNotifyPrunes
  /\ \E last \in Noted :
       LET old == {d \in Noted : Disposed(d) /\ <<last, d>> \notin before}
       IN /\ old # {}
          /\ note' = [d \in Delivery |-> IF d \in old THEN NoNote ELSE note[d]]
          /\ before' = {p \in before : p[1] \notin old /\ p[2] \notin old}
          /\ answered' = [d \in Delivery |-> IF d \in old THEN 0 ELSE answered[d]]
  /\ notifyPrunes' = notifyPrunes + 1
  /\ UNCHANGED <<notifier, drain, markFaults, notifyCrashes, notifyStops, notifyCuts>>

NotifyNext ==
  \/ DrainDue \/ DrainEnds \/ MarkSuppressed
  \/ Post \/ PostAnswered \/ PostFails
  \/ MarkDelivered \/ MarkAttempt \/ MarkFails
  \/ NotifyStop \/ NotifyExit \/ NotifyStart
  \/ NotifyPrune \/ \E d \in Delivery : NoteBackoffEnds(d)

(* The drain loop and its requests go on, the clock goes on, a process     *)
(* that is down is started, and a disposition that is tried again and      *)
(* again is written in the end.                                            *)
NotifyFairness ==
  /\ WF_notifyVars(DrainDue \/ DrainEnds \/ Post \/ PostAnswered \/ PostFails)
  /\ SF_notifyVars(MarkSuppressed \/ MarkDelivered \/ MarkAttempt)
  /\ WF_notifyVars(drain.phase = "refused" /\ NotifyCancelled /\ MarkFails)
  /\ \A d \in Delivery : WF_notifyVars(NoteBackoffEnds(d))
  /\ WF_notifyVars(NotifyExit /\ notifier = "stopping") /\ WF_notifyVars(NotifyStart)

-----------------------------------------------------------------------------
(* Properties.                                                             *)

NotifyTypeOK ==
  /\ note \in [Delivery -> [state : {"none", "due", "later", "dead", "delivered", "suppressed"},
                            attempts : 0..NotifyBudget, version : Nat]]
  /\ before \subseteq Noted \X Noted
  /\ \A d, e \in Noted : <<d, e>> \in before => <<e, d>> \notin before
  /\ notifier \in {"up", "stopping", "down"}
  /\ drain.phase \in {"idle", "draining", "posting", "answered", "refused"}
  /\ drain.batch \subseteq Delivery /\ drain.row \in Delivery \cup {NoRow}
  /\ drain.phase \in {"posting", "answered", "refused"} => drain.row \in Delivery
  /\ \A d \in Delivery : d \in drain.batch \cup {drain.row} => NotePending(d)

(* "The drain is at-least-once": a target that has answered receives the   *)
(* intent again only if the request counted as a failed attempt, for want  *)
(* of its answer in time, or the process died or the mark failed between   *)
(* the answer and the mark, or a stop cut the request: one for each stop,  *)
(* and none once the answer is there.                                      *)
OverdeliveryBounded ==
  /\ \A d \in Delivery :
       answered[d] =< 1 + note[d].attempts + markFaults + notifyCrashes + notifyCuts
  /\ notifyCuts =< notifyStops

(* What became of an intent is final: not a later pass, a window that      *)
(* opens, a merge of the engine or two writes within a millisecond makes a *)
(* delivered, suppressed or dead intent pending; only the retention may    *)
(* remove it, and never a dead one.                                        *)
NotifySettledFinal ==
  [][\A d \in Delivery : NoteSettled(d) =>
        note'[d].state = note[d].state \/ (note[d].state # "dead" /\ note'[d] = NoNote)]_notifyVars

(* Every intent is delivered, suppressed or dead in the end, whatever the  *)
(* other intents of its batch run into.                                    *)
NotifySettles == \A d \in Delivery : NotePending(d) ~> ~NotePending(d)
=============================================================================
