------------------------------- MODULE Outbox -------------------------------
(***************************************************************************)
(* The derived-work outbox, internal/outbox/outbox.go, with the handlers   *)
(* tracing/ingest.go registers on it, the detector counters of             *)
(* tracing/detectors/engine.go and the retention of its table,             *)
(* internal/jobs.                                                          *)
(*                                                                         *)
(* A trace export commits its spans and two intents, "rollup" and          *)
(* "detector", in one transaction; one worker derives them later.  An      *)
(* intent is a key of the replacing table derived_outbox: every change of  *)
(* it inserts a row with a higher version, readers take the row of the     *)
(* highest version, and the engine may remove superseded rows at any time  *)
(* or never.                                                               *)
(*                                                                         *)
(* An item is what a handler writes: a rollup intent has the one item      *)
(* Stats, a detector intent an item per fingerprint found.  A row read by  *)
(* a pass cannot change until the pass is done with it (processMu; the     *)
(* retention deletes processed rows only), so it is read when its intent   *)
(* is taken.  The page limit of the due scan is left out: a pass reads     *)
(* page after page.                                                        *)
(***************************************************************************)
EXTENDS Integers, FiniteSets

CONSTANTS
  Export,      \* trace exports; a repeated delivery is another export
  Seed,        \* the exports of the seed path, derived before the answer
  Found,       \* Found[e]: the fingerprints the detectors find in e
  Stats,       \* the item of a rollup intent
  None,        \* no intent is taken
  Budget,      \* the attempt budgets a process may be started with
  Now,         \* readings of the wall clock, in milliseconds
  FaultKind,   \* the failures the environment may produce
  MaxCrashes, MaxStops, MaxPrunes   \* bounds

\* A failing ingest transaction, one that commits without an answer, a failing
\* write of a handler, one that is applied without an answer, a failing write
\* of the completion marker, of the disposition, and the seed path's timeout.
Faults == {"ingest", "answer", "handler", "torn", "marker", "disposition", "timeout"}

ASSUME OutboxAssumption ==
  /\ Seed \subseteq Export /\ Export \cap {"idle", "due"} = {}
  /\ \A e \in Export : Stats \notin Found[e]
  /\ Budget \subseteq Nat \ {0} /\ Budget # {}
  /\ Now \subseteq Nat
  /\ FaultKind \subseteq Faults
  /\ MaxCrashes \in Nat /\ MaxStops \in Nat /\ MaxPrunes \in Nat

Intent == Export \X {"rollup", "detector"}
Work(i) == IF i[2] = "rollup" THEN {Stats} ELSE Found[i[1]]
Item == {Stats} \cup UNION {Found[e] : e \in Export}

ASSUME NoIntent == None \notin Intent \cup Item

VARIABLES
  answer,    \* what each export was told
  rows,      \* the rows of derived_outbox
  backoff,   \* intents whose next_attempt_at lies ahead
  written,   \* how often an item of an intent is in its table (saturated)
  marked,    \* completion markers in the key-value store
  proc,      \* "up" | "stopping" (the worker's context is cancelled) | "down"
  budget,    \* s.maxAttempts
  pass,      \* who holds processMu: "idle", "due", or the export of a ProcessIDs
  batch,     \* intents the pass has not taken yet
  current,   \* the intent taken and its row
  todo,      \* items its handler has not completed
  unmarked,  \* the item it has written and not marked, or None
  failed,    \* it returned an error
  crashes, stops, prunes

tables == <<answer, rows, backoff, written, marked>>
handler == <<current, todo, unmarked, failed>>
worker == <<pass, batch, handler>>
vars == <<tables, proc, budget, worker, crashes, stops, prunes>>

Row == [version : Nat, attempts : Nat, dead : BOOLEAN, processed : BOOLEAN]
Free == [intent |-> None]
Cap == MaxCrashes + 2 * MaxStops + 2   \* where written saturates

Init ==
  /\ answer = [e \in Export |-> "none"]
  /\ rows = [i \in Intent |-> {}] /\ backoff = {}
  /\ written = [i \in Intent |-> [w \in Item |-> 0]] /\ marked = {}
  /\ proc = "up" /\ budget \in Budget
  /\ pass = "idle" /\ batch = {}
  /\ current = Free /\ todo = {} /\ unmarked = None /\ failed = FALSE
  /\ crashes = 0 /\ stops = 0 /\ prunes = 0

-----------------------------------------------------------------------------
(* The table.                                                              *)

\* The collapse: one row of the highest version.
Latest(i) == {r \in rows[i] : \A s \in rows[i] : s.version =< r.version}

Dead(i) == \E r \in Latest(i) : r.dead /\ ~r.processed
Processed(i) == \E r \in Latest(i) : r.processed

\* Mutant: a dead letter is selected like any other intent.
DueDead(i) == i \notin backoff /\ \E r \in Latest(i) : ~r.processed

Due(i) ==
  /\ i \notin backoff
  /\ \E r \in Latest(i) : ~r.processed /\ ~r.dead /\ r.attempts < budget

\* Mutant: the clock alone; two writes within a millisecond tie.
NextVersionClock(prior, now) == now

NextVersion(prior, now) == IF now > prior + 1 THEN now ELSE prior + 1

Fresh(now) == [version |-> now, attempts |-> 0, dead |-> FALSE, processed |-> FALSE]

-----------------------------------------------------------------------------
(* Trace ingest.                                                           *)

Enqueued(e, now) ==
  rows' = [i \in Intent |-> IF i[1] = e THEN rows[i] \cup {Fresh(now)} ELSE rows[i]]

Ingest(e) ==
  /\ proc = "up" /\ answer[e] = "none"
  /\ \E now \in Now : Enqueued(e, now)
  /\ \E a \in {IF e \in Seed THEN "deriving" ELSE "ok"}
              \cup IF "answer" \in FaultKind THEN {"refused"} ELSE {} :
       answer' = [answer EXCEPT ![e] = a]
  /\ UNCHANGED <<backoff, written, marked, proc, budget, worker, crashes, stops, prunes>>

IngestFails(e) ==
  /\ "ingest" \in FaultKind
  /\ proc = "up" /\ answer[e] = "none"
  /\ answer' = [answer EXCEPT ![e] = "refused"]
  /\ UNCHANGED <<rows, backoff, written, marked, proc, budget, worker, crashes,
                 stops, prunes>>

-----------------------------------------------------------------------------
(* Passes.  The worker's context is cancelled by Stop; the seed path's is  *)
(* its own and only times out.                                             *)

Cancelled == pass = "due" /\ proc = "stopping"
MayFail(kind) == Cancelled \/ kind \in FaultKind

ProcessDue ==
  /\ proc = "up" /\ pass = "idle"
  /\ {i \in Intent : Due(i)} # {}
  /\ pass' = "due" /\ batch' = {i \in Intent : Due(i)}
  /\ UNCHANGED <<tables, proc, budget, handler, crashes, stops, prunes>>

ProcessIDs(e) ==
  /\ proc # "down" /\ pass = "idle" /\ answer[e] = "deriving"
  /\ pass' = e /\ batch' = {i \in Intent : i[1] = e}
  /\ UNCHANGED <<tables, proc, budget, handler, crashes, stops, prunes>>

\* The end of a pass; a seed export is answered whether it derived or not.
Idle == pass' = "idle" /\ batch' = {} /\ current' = Free /\ todo' = {}
        /\ unmarked' = None /\ failed' = FALSE
Returned ==
  /\ Idle
  /\ answer' = [e \in Export |-> IF pass = e THEN "ok" ELSE answer[e]]

PassEnds ==
  /\ pass # "idle" /\ current = Free
  /\ \/ batch = {}
     \/ Cancelled
     \/ pass # "due" /\ "timeout" \in FaultKind
  /\ Returned
  /\ UNCHANGED <<rows, backoff, written, marked, proc, budget, crashes, stops, prunes>>

Take(i) ==
  /\ i \in batch /\ current = Free /\ ~Cancelled
  /\ batch' = batch \ {i}
  /\ \E r \in Latest(i) : current' = [intent |-> i, row |-> r]
  /\ todo' = Work(i) /\ unmarked' = None /\ failed' = FALSE
  /\ UNCHANGED <<tables, proc, budget, pass, crashes, stops, prunes>>

\* An intent ProcessIDs was asked for and the retention has removed.
Missing(i) ==
  /\ i \in batch /\ current = Free /\ rows[i] = {}
  /\ batch' = batch \ {i}
  /\ UNCHANGED <<tables, proc, budget, pass, handler, crashes, stops, prunes>>

-----------------------------------------------------------------------------
(* Handlers.                                                               *)

Taken == current.intent
HasMarkers == Taken[2] = "detector"
AtItem(w) == w \in todo /\ unmarked = None /\ ~failed

\* Mutant: the completion marker is not consulted.
IsMarkedNever(w) == FALSE

IsMarked(w) == HasMarkers /\ <<Taken, w>> \in marked

\* Mutant: a failing write is logged and the handler goes on, as the detached
\* goroutine before the outbox did.
AfterFailureLogged(w) == todo' = todo \ {w} /\ UNCHANGED failed

AfterFailure(w) == failed' = TRUE /\ UNCHANGED todo

AddOne(w) ==
  written' = [written EXCEPT ![Taken][w] = IF @ < Cap THEN @ + 1 ELSE @]

SkipMarked(w) ==
  /\ AtItem(w) /\ IsMarked(w)
  /\ todo' = todo \ {w}
  /\ UNCHANGED <<tables, proc, budget, pass, batch, current, unmarked, failed, crashes,
                 stops, prunes>>

\* One insert into service_stats, or one snapshot of performance_issues.
WriteItem(w) ==
  /\ AtItem(w) /\ ~IsMarked(w) /\ ~Cancelled
  /\ AddOne(w)
  /\ IF HasMarkers THEN unmarked' = w /\ UNCHANGED todo
                   ELSE todo' = todo \ {w} /\ UNCHANGED unmarked
  /\ UNCHANGED <<answer, rows, backoff, marked, proc, budget, pass, batch, current,
                 failed, crashes, stops, prunes>>

\* A failing read or write, or a panic of the handler.
WriteItemFails(w) ==
  /\ AtItem(w)
  /\ \/ MayFail("handler") /\ UNCHANGED written
     \/ MayFail("torn") /\ ~IsMarked(w) /\ AddOne(w)
  /\ AfterFailure(w)
  /\ UNCHANGED <<answer, rows, backoff, marked, proc, budget, pass, batch, current,
                 unmarked, crashes, stops, prunes>>

MarkItem ==
  /\ unmarked # None /\ ~Cancelled
  /\ marked' = marked \cup {<<Taken, unmarked>>}
  /\ todo' = todo \ {unmarked} /\ unmarked' = None
  /\ UNCHANGED <<answer, rows, backoff, written, proc, budget, pass, batch, current,
                 failed, crashes, stops, prunes>>

MarkItemFails ==
  /\ unmarked # None /\ MayFail("marker")
  /\ marked' \in {marked, marked \cup {<<Taken, unmarked>>}}
  /\ unmarked' = None /\ failed' = TRUE
  /\ UNCHANGED <<answer, rows, backoff, written, proc, budget, pass, batch, current,
                 todo, crashes, stops, prunes>>

-----------------------------------------------------------------------------
(* Dispositions.                                                           *)

Put(r) == rows' = [rows EXCEPT ![Taken] = @ \cup {r}]

ProcessedRow(now) ==
  [current.row EXCEPT !.version = NextVersion(@, now), !.processed = TRUE]

\* Mutant: the budget is never spent.
SpentNever(attempts) == FALSE

Spent(attempts) == attempts >= budget

FailedRow(now) ==
  LET n == current.row.attempts + 1
  IN [version |-> NextVersion(current.row.version, now), attempts |-> n,
      dead |-> Spent(n), processed |-> FALSE]

Derived == current # Free /\ todo = {} /\ ~failed
Disposed == current' = Free /\ todo' = {} /\ unmarked' = None /\ failed' = FALSE

MarkProcessed ==
  /\ Derived /\ ~Cancelled
  /\ \E now \in Now : Put(ProcessedRow(now))
  /\ Disposed
  /\ UNCHANGED <<answer, backoff, written, marked, proc, budget, pass, batch, crashes,
                 stops, prunes>>

PutFailed ==
  /\ \E now \in Now : Put(FailedRow(now))
  /\ backoff' = IF Spent(current.row.attempts + 1) THEN backoff ELSE backoff \cup {Taken}

MarkAttempt ==
  /\ failed /\ ~Cancelled
  /\ PutFailed
  /\ Disposed
  /\ UNCHANGED <<answer, written, marked, proc, budget, pass, batch, crashes, stops,
                 prunes>>

\* The disposition is not written, or without an answer; the pass stops here.
DispositionFails ==
  /\ Derived \/ failed
  /\ MayFail("disposition")
  /\ \/ UNCHANGED <<rows, backoff>>
     \/ Derived /\ (\E now \in Now : Put(ProcessedRow(now))) /\ UNCHANGED backoff
     \/ failed /\ PutFailed
  /\ Returned
  /\ UNCHANGED <<written, marked, proc, budget, crashes, stops, prunes>>

\* The clock reaches next_attempt_at.
BackoffEnds(i) ==
  /\ i \in backoff
  /\ backoff' = backoff \ {i}
  /\ UNCHANGED <<answer, rows, written, marked, proc, budget, worker, crashes, stops,
                 prunes>>

-----------------------------------------------------------------------------
(* The process, retention and the engine.                                  *)

Stop ==
  /\ proc = "up" /\ stops < MaxStops
  /\ proc' = "stopping" /\ stops' = stops + 1
  /\ UNCHANGED <<tables, budget, worker, crashes, prunes>>

\* No caller waits any longer: whoever was not answered is not going to be.
Gone ==
  /\ proc' = "down" /\ Idle
  /\ answer' = [e \in Export |-> IF answer[e] = "deriving" THEN "refused" ELSE answer[e]]
  /\ UNCHANGED <<rows, backoff, written, marked, budget, prunes>>

Exit == proc = "stopping" /\ pass # "due" /\ Gone /\ UNCHANGED <<crashes, stops>>

Crash ==
  /\ proc # "down" /\ crashes < MaxCrashes
  /\ crashes' = crashes + 1
  /\ Gone /\ UNCHANGED stops

Start ==
  /\ proc = "down"
  /\ proc' = "up" /\ budget' \in Budget
  /\ UNCHANGED <<tables, worker, crashes, stops, prunes>>

\* Mutant: the policy without processed_at > 0; an unprocessed row has the
\* processed_at 0, which is below every cutoff.
PrunableAll(i) == rows[i]

\* The rows whose processed_at is set and below the cutoff, and no others: the
\* identity a row is deleted by includes processed_at.
Prunable(i) == {r \in rows[i] : r.processed}

\* The retention job, a week or more after a row was processed.
Prune(i) ==
  /\ proc = "up" /\ prunes < MaxPrunes
  /\ \E r \in Prunable(i) :
       rows' = [rows EXCEPT ![i] = @ \ {s \in Prunable(i) : s.version =< r.version}]
  /\ prunes' = prunes + 1
  /\ backoff' = backoff \ {i}
  /\ UNCHANGED <<answer, written, marked, proc, budget, worker, crashes, stops>>

\* The engine merges segments: superseded rows go.
Merge(i) ==
  /\ \E r \in Latest(i), s \in rows[i] :
       s # r /\ rows' = [rows EXCEPT ![i] = {r}]
  /\ UNCHANGED <<answer, backoff, written, marked, proc, budget, worker, crashes, stops,
                 prunes>>

Handle ==
  \/ \E w \in Item : SkipMarked(w) \/ WriteItem(w) \/ WriteItemFails(w)
  \/ MarkItem \/ MarkItemFails
  \/ MarkProcessed \/ MarkAttempt \/ DispositionFails

\* A pass goes on.
Progress == ProcessDue \/ PassEnds \/ \E i \in Intent : Take(i) \/ Missing(i)

Next ==
  \/ \E e \in Export : Ingest(e) \/ IngestFails(e) \/ ProcessIDs(e)
  \/ Progress \/ Handle
  \/ \E i \in Intent : BackoffEnds(i) \/ Prune(i) \/ Merge(i)
  \/ Stop \/ Exit \/ Crash \/ Start

Spec == Init /\ [][Next]_vars

(* The worker and its handlers run (Go's scheduler), the clock goes on, a   *)
(* stopped process is started again, and a disposition that is tried again *)
(* and again is written in the end.  Nothing is assumed of the handlers.   *)
Fairness ==
  /\ WF_vars(Progress)
  /\ WF_vars(Handle)
  /\ SF_vars(MarkProcessed) /\ SF_vars(MarkAttempt)
  /\ \A i \in Intent : WF_vars(BackoffEnds(i))
  /\ WF_vars(Exit) /\ WF_vars(Start)

FairSpec == Spec /\ Fairness

-----------------------------------------------------------------------------
(* Properties.                                                             *)

TypeOK ==
  /\ answer \in [Export -> {"none", "ok", "deriving", "refused"}]
  /\ \A i \in Intent : rows[i] \subseteq Row
  /\ \A i \in Intent : \A r \in rows[i] : \E b \in Budget : r.attempts =< b + 1
  /\ backoff \subseteq Intent
  /\ written \in [Intent -> [Item -> 0..Cap]]
  /\ marked \subseteq Intent \X Item
  /\ proc \in {"up", "stopping", "down"} /\ budget \in Budget
  /\ pass \in {"idle", "due"} \cup Export
  /\ batch \subseteq Intent
  /\ current = Free \/ (current.intent \in Intent /\ current.row \in Row)
  /\ todo \subseteq Item /\ unmarked \in todo \cup {None} /\ failed \in BOOLEAN

Complete(i) == \A w \in Work(i) : written[i][w] > 0
Pending(i) == \E r \in Latest(i) : ~r.processed

(* "Spans can never commit without the derived work they owe": what a 200  *)
(* was given for is in the derived tables, or its intent is still there to *)
(* be derived or, as a dead letter, to be seen.  A failing handler, a      *)
(* crash inside it, a shutdown and the retention drop nothing.             *)
DerivedOrKept ==
  \A i \in Intent : answer[i[1]] = "ok" => Complete(i) \/ Pending(i)

(* Only an interruption between the write of a detector snapshot and its   *)
(* completion marker counts a detection again, and once each: neither a    *)
(* retry of a handler that failed half-way, nor a second delivery, nor an  *)
(* intent that was pruned and came back does.  A stop may interrupt two    *)
(* passes, the worker's and one of the seed path begun after it.           *)
Interruptions(e) == crashes + (IF e \in Seed THEN 2 ELSE 1) * stops
OvercountBounded ==
  \A i \in Intent : i[2] = "detector" =>
    \A w \in Work(i) : written[i][w] =< 1 + Interruptions(i[1])

(* Processed and dead are final: no later pass, no other attempt budget,   *)
(* no merge of the engine and no two writes within a millisecond make such *)
(* an intent pending again.  Only the retention does (PrunedIsGone), and a *)
(* seed pass, which derives by id whatever the disposition and records its *)
(* failure over it (outbox.go:240).                                        *)
Settled(i) == Latest(i) # {} /\ \A r \in Latest(i) : r.processed \/ r.dead
SettledForGood ==
  [][prunes' = prunes /\ pass \notin Seed =>
        \A i \in Intent : Settled(i) => Settled(i)' \/ rows'[i] = {}]_vars

(* "Processed outbox intents prune" (main.go:388): a processed intent is    *)
(* processed until the retention has removed it.                           *)
PrunedIsGone == [][\A i \in Intent : Processed(i) => Processed(i)' \/ rows'[i] = {}]_vars

(* An acknowledged export is derived in the end, or dead-lettered, unless  *)
(* a process runs with a smaller attempt budget than an earlier one: that  *)
(* one passes over what has used it up and is not marked dead.             *)
SmallerBudget == \E b \in Budget : b > budget
AckedIsDerived ==
  \A i \in Intent : answer[i[1]] = "ok" ~> Complete(i) \/ Dead(i) \/ SmallerBudget
=============================================================================
